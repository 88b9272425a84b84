------------------------------ MODULE Containers ------------------------------
(***************************************************************************)
(* The programs of chapters 6, 14, 15 and 24 that write and read container *)
(* files, run one after the other in one directory: a table of records, a  *)
(* block cipher, an AES tool with the script that opens its files, a       *)
(* generator of sample files, and a parser of sections with its fuzzing    *)
(* harness.  A program reads its input when it starts; then its writes     *)
(* reach the disk one by one, and it may die after any of them.            *)
(***************************************************************************)
EXTENDS Ch14Table, Ch14Cipher, Ch24Crypt, Ch15Sections, Ch06Samples

CONSTANTS
    READ_AHEAD,  \* cells of a container that fill stdio's buffer: its header and 31 blocks
    Benches      \* what may be done in which directory: its files, tools and inputs

ASSUME ReadAheadAssumption == READ_AHEAD \in Nat \ {0}

\* A file none of the programs has written: bytes, or nothing that begins as
\* their containers do.
Untouched(cells) ==
    /\ IsSequence(cells)
    /\ cells # <<>> => cells[1].kind \notin {"header", "cryp", "CRYPT24"}
    /\ \A i \in DOMAIN cells : cells[i].kind \notin {"cdb footer", "pkt"}
    /\ IsPlain(cells) => \A i \in DOMAIN cells : cells[i].val \in Bytes

ASSUME BenchAssumption ==
    \A b \in Benches :
        /\ \A f \in DOMAIN b.disk : Untouched(b.disk[f])
        /\ "samples" \in b.tools => {"sample.cdb", "sample.pkt"} \subseteq DOMAIN b.disk
        /\ \A rec \in b.recs : IsRecord(rec)
        /\ b.passwords \subseteq DOMAIN PwdKept
        /\ b.times \subseteq Bytes /\ b.junk \subseteq Bytes

\* The files of sections are there before, and nothing is written beside them.
ASSUME SectionFilesAssumption ==
    \A b \in Benches : DOMAIN b.sections # {} =>
        /\ b.tools = {"sections"}
        /\ \A f \in DOMAIN b.sections : f \in DOMAIN b.disk /\ IsFileOf(b.disk[f], b.sections[f])

VARIABLES
    bench,  \* one of them
    runs,   \* commands that wrote so far
    disk,   \* file -> its cells, or NoFile
    proc,   \* the running command: the writes it has still to make
    last,   \* what the last command reported, until something is written again
    put     \* file -> what its last writer was given (nobody keeps that)

vars == <<bench, runs, disk, proc, last, put>>

NoFile == <<[kind |-> "absent"]>>
Idle == [tool |-> "none"]
NoReport == [tool |-> "none"]
Unknown == [kind |-> "unknown"]

Files == DOMAIN disk

Init ==
    /\ bench \in Benches
    /\ runs = 0
    /\ disk = bench.disk
    /\ proc = Idle
    /\ last = NoReport
    /\ put = [f \in DOMAIN disk |-> Unknown]

-----------------------------------------------------------------------------
(***************************************************************************)
(* How a command runs.                                                     *)
(***************************************************************************)
Into(file, writes) == [n \in DOMAIN writes |-> [file |-> file, write |-> writes[n]]]

Ready(tool) == proc = Idle /\ tool \in bench.tools

\* Its writes, the name of what it leaves when it dies between them, and when
\* it has made them all, and its exit code.
Start(tool, file, script, torn, whole, exit) ==
    /\ runs < bench.runs
    /\ runs' = runs + 1
    /\ proc' = [tool |-> tool, file |-> file, script |-> script,
                torn |-> torn, whole |-> whole, exit |-> exit]
    /\ last' = NoReport
    /\ UNCHANGED <<bench, disk, put>>

\* A command that writes nothing is over at once.
Report(tool, file, exit, found) ==
    /\ last' = [tool |-> tool, file |-> file, exit |-> exit, found |-> found]
    /\ UNCHANGED <<bench, runs, disk, proc, put>>

WriteNext ==
    /\ proc # Idle /\ proc.script # <<>>
    /\ LET file == Head(proc.script).file
           write == Head(proc.script).write
       IN  /\ disk' = [disk EXCEPT ![file] = Written(@, FirstOf(write))]
           /\ put' = [put EXCEPT ![file] = proc.torn]
           /\ proc' = [proc EXCEPT !.script = Into(file, RestOf(write)) \o Tail(@)]
    /\ UNCHANGED <<bench, runs, last>>

Finish ==
    /\ proc # Idle /\ proc.script = <<>>
    /\ put' = [put EXCEPT ![proc.file] = proc.whole]
    /\ last' = [tool |-> proc.tool, file |-> proc.file, exit |-> proc.exit, found |-> <<>>]
    /\ proc' = Idle
    /\ UNCHANGED <<bench, runs, disk>>

\* Killed; with all its writes made it has but to exit.
Die ==
    /\ proc # Idle /\ proc.script # <<>>
    /\ proc' = Idle
    /\ UNCHANGED <<bench, runs, disk, last, put>>

-----------------------------------------------------------------------------
(***************************************************************************)
(* The table of chapter 14: create, add, parse.                            *)
(***************************************************************************)
Table(recs, sound) == [kind |-> "table", recs |-> recs, sound |-> sound]

Create(file) ==
    /\ Ready("table")
    /\ Start("create", file, Into(file, CreateWrites), Unknown, Table(Sample, TRUE), "0")

Add(file, rec) ==
    /\ Ready("table")
    /\ IF IsTable(disk[file])
       THEN LET old == put[file]
            IN  Start("add", file, Into(file, AddWrites(disk[file], rec)),
                      Table(old.recs, FALSE), Table(Append(old.recs, rec), old.sound), "0")
       ELSE Report("add", file, "1", <<>>)

Parse(file) ==
    /\ Ready("table")
    /\ \E outcome \in ParseOutcomes(disk[file]) : Report("parse", file, outcome.exit, outcome.list)

-----------------------------------------------------------------------------
(***************************************************************************)
(* The cipher of chapter 14, on files of bytes and on its own containers.  *)
(***************************************************************************)
Cryp(plain, key, whole) == [kind |-> "cryp", plain |-> plain, key |-> key, whole |-> whole]

Opened(of, key, exit, whole) ==
    [kind |-> "opened", of |-> of, key |-> key, exit |-> exit, whole |-> whole]

\* The output is opened, and emptied, before the input is looked at.
Encrypt(in, out, password, time, unset) ==
    /\ Ready("cipher")
    /\ disk[in] = NoFile \/ IsPlain(disk[in])
    /\ IF ~Derivable(password) THEN Report("encrypt", out, "killed", <<>>)
       ELSE IF disk[in] = NoFile THEN Report("encrypt", out, "1", <<>>)
       ELSE LET plain == IF in = out THEN <<>> ELSE ValuesOf(disk[in])
                key == KeyOf(password)
                iv == Iv(time, unset)
            IN  Start("encrypt", out, Into(out, WriteAll(Encrypted(plain, key, iv))),
                      Cryp(plain, key, FALSE), Cryp(plain, key, TRUE), "0")

\* The output is opened, and emptied, after the header is read: of an input that
\* is its own output there is what the buffer took with the header.
Fetched(in, out) ==
    IF in = out THEN SubSeq(disk[in], 1, Min({Len(disk[in]), READ_AHEAD})) ELSE disk[in]

Decrypt(in, out, password) ==
    /\ Ready("cipher")
    /\ IF ~Derivable(password) THEN Report("decrypt", out, "killed", <<>>)
       ELSE IF ~IsCryp(disk[in]) THEN Report("decrypt", out, "1", <<>>)
       ELSE LET key == KeyOf(password)
                cells == Fetched(in, out)
            IN  Start("decrypt", out, Into(out, WriteAll(ByteCells(Decrypted(cells, key)))),
                      Opened(put[in], key, "0", FALSE),
                      Opened(put[in], key, "0", cells = disk[in]), "0")

-----------------------------------------------------------------------------
(***************************************************************************)
(* The AES tool of chapter 24 and the script that opens its files.         *)
(***************************************************************************)
Crypt24(plain, whole) == [kind |-> "crypt24", plain |-> plain, whole |-> whole]

Encrypt24(in, iv) ==
    LET out == in \o ".enc"
    IN  /\ Ready("aes") /\ out \in Files
        /\ disk[in] = NoFile \/ IsPlain(disk[in])
        /\ IF disk[in] = NoFile THEN Report("encrypt24", out, "1", <<>>)
           ELSE LET plain == ValuesOf(disk[in])
                IN  IF ~Readable24(plain) THEN Report("encrypt24", out, "1", <<>>)
                    ELSE Start("encrypt24", out, Into(out, WriteAll(Crypt24Cells(plain, iv))),
                               Crypt24(plain, FALSE), Crypt24(plain, TRUE), "0")

Decrypt24(in, out) ==
    LET result == PyDecrypt(disk[in])
    IN  /\ Ready("aes")
        /\ IF ~result.opened THEN Report("decrypt24", out, result.exit, <<>>)
           ELSE Start("decrypt24", out, Into(out, WriteAll(ByteCells(result.plain))),
                      Opened(put[in], PyKey, "torn", FALSE),
                      Opened(put[in], PyKey, result.exit, TRUE), result.exit)

-----------------------------------------------------------------------------
(***************************************************************************)
(* The generator of chapter 6, the parser of chapter 15 and its harness.   *)
(***************************************************************************)
Generate(file_crc) ==
    /\ Ready("samples")
    /\ Start("generate", "sample.pkt",
             Into("sample.cdb", WriteAll(CdbCells)) \o Into("sample.pkt", PktWrites(file_crc)),
             Unknown, Unknown, "0")

ParseFile(file) ==
    /\ Ready("sections")
    /\ disk[file] # NoFile
    /\ \E outcome \in RunParser(disk[file]) :
          Report("parser", file, outcome.exit, outcome.sections)

FuzzFile(file) ==
    /\ Ready("sections")
    /\ disk[file] # NoFile
    /\ \E outcome \in RunHarness(disk[file]) :
          Report("harness", file, outcome.exit, outcome.sections)

Next ==
    \/ WriteNext
    \/ Finish
    \/ Die
    \/ \E file \in Files : Create(file) \/ Parse(file) \/ ParseFile(file) \/ FuzzFile(file)
    \/ \E file \in Files : \E rec \in bench.recs : Add(file, rec)
    \/ \E in \in Files : \E out \in Files : \E p \in bench.passwords :
          \E t \in bench.times : \E unset \in bench.junk : Encrypt(in, out, p, t, unset)
    \/ \E in \in Files : \E out \in Files : \E p \in bench.passwords : Decrypt(in, out, p)
    \/ \E in \in Files : \E iv \in bench.times : Encrypt24(in, iv)
    \/ \E in \in Files : \E out \in Files : Decrypt24(in, out)
    \/ \E file_crc \in bench.junk : Generate(file_crc)

Spec == Init /\ [][Next]_vars

-----------------------------------------------------------------------------
(***************************************************************************)
(* What can be relied on.                                                  *)
(***************************************************************************)
\* The records a table shows: those before the first whose name has no length,
\* of the MAX_RECORDS it can count, each with as much of its name as its length
\* byte says.
Shown(recs) ==
    LET counted == SubSeq(recs, 1, Min({Len(recs), MAX_RECORDS}))
        hidden == {n \in DOMAIN counted : NameLenByte(counted[n]) = 0}
        shown == SubSeq(counted, 1, Min({n - 1 : n \in hidden} \cup {Len(counted)}))
    IN  [n \in DOMAIN shown |->
            [name |-> shown[n].name, len |-> NameLenByte(shown[n]), data |-> shown[n].data]]

ShownIn(list) ==
    [n \in DOMAIN list |->
        [name |-> list[n].name.name, len |-> list[n].name.len, data |-> list[n].data]]

\* Where the n-th record was put.
OffsetOf(recs, n) ==
    LET end[i \in 0..n - 1] == IF i = 0 THEN 1 ELSE end[i - 1] + Len(RecordCells(recs[i]))
    IN  end[n - 1]

IndexIsTrue(cells, recs) ==
    \A n \in 1..cells[1].num_records :
        CellAt(cells, cells[1].index_offset + n - 1) = Entry(OffsetOf(recs, n))

\* What was written comes back.  A table shows the records it was given up to
\* the first name without a length, with a name of up to 255 bytes whole and of
\* a longer one what a byte of length leaves, also when later additions died
\* halfway, and its index points at them when none did (fileformat.c:163-182,
\* 346-537); a container of the cipher, opened with the key it was made with,
\* gives the file that was encrypted, and a beginning of it when one of the two
\* died or the container was decrypted in place and is longer than what stdio
\* had read of it (crypto.c:395-507).
ReadsBack ==
    /\ last.tool = "parse" /\ last.exit = "0" /\ put[last.file].kind = "table" =>
          ShownIn(last.found) = Shown(put[last.file].recs)
    /\ \A f \in Files : put[f].kind = "table" /\ put[f].sound =>
          IndexIsTrue(disk[f], put[f].recs)
    /\ \A f \in Files :
          put[f].kind = "opened" /\ put[f].of.kind = "cryp" /\ put[f].key = put[f].of.key =>
              /\ IsPrefix(disk[f], ByteCells(put[f].of.plain))
              /\ put[f].whole /\ put[f].of.whole => Len(disk[f]) = Len(put[f].of.plain)

\* When the script says that all is well, and exits with 0, its output is the
\* file that was encrypted, also when the encryption had died and what it left
\* happens to end in a padding; and it says so of every whole file
\* (ch24-checkpoint-decrypt.py:294-358).
SuccessIsOriginal ==
    \A f \in Files : put[f].kind = "opened" /\ put[f].of.kind = "crypt24" /\ put[f].whole =>
        /\ put[f].exit = "0" => disk[f] = ByteCells(put[f].of.plain)
        /\ put[f].of.whole => put[f].exit = "0"

\* Whatever an addition does or fails to do, the table shows what it showed
\* before, and perhaps more: it overwrites its own index in place, and dies
\* where it dies (fileformat.c:492-537).
TableOnlyGrows ==
    [][proc.tool = "add" =>
          \A f \in Files : IsPrefix(Listed(disk[f]), Listed(disk'[f]))]_vars

\* A sample with its offsets filled in, or its footer there, is complete: what
\* the patterns place by offsets and counts is where they place it
\* (fileformat.c:107-191, 335-525; ch06_fileformat.hexpat).
CaptureIsSealed ==
    \A f \in Files \cap {"sample.cdb", "sample.pkt"} : disk[f] # <<>> =>
        LET cells == disk[f]
        IN  /\ cells[Len(cells)].kind = "cdb footer" => CdbFollowed(cells)
            /\ cells[1].kind = "pkt" /\ cells[1].footer_offset # 0 =>
                  /\ PktFollowed(cells)
                  /\ At(cells, cells[1].footer_offset).total_payload_bytes = PayloadBytes(cells)

\* Parser and harness visit the sections of a well-formed file, each with its
\* own bytes, whatever became of the ones before: a section of an unknown type,
\* one that is too short, or one that expands to something else than it takes
\* (fileformat.c:89-380, 468-544; fuzz_fileformat.c:58-115).
SectionsInStep ==
    last.tool \in {"parser", "harness"} /\ last.file \in DOMAIN bench.sections =>
        LET want == bench.sections[last.file]
        IN  /\ \A n \in DOMAIN last.found :
                  /\ last.found[n].ok = want[n].ok
                  /\ last.found[n].ok => last.found[n].content = want[n].content
            /\ last.exit # "killed" => last.exit = "0" /\ Len(last.found) = Len(want)
==============================================================================
