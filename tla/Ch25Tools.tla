------------------------------ MODULE Ch25Tools ------------------------------
(***************************************************************************)
(* One archive between the two tools of chapter 25: any command of either, *)
(* in any order, with a disk that may be full and a file that may be       *)
(* damaged once after it was written.                                      *)
(***************************************************************************)
EXTENDS Ch25Format

CONSTANTS
    Files,       \* Files[path]: name and data of what can be opened
    Lists,       \* lists of paths on a command line
    Demo,        \* the records of the demo archive
    TestRecords, \* lists of records the Python test suite writes
    Users,       \* values of $USER
    Rooms,       \* cells a disk that is too full still takes
    Damaged,     \* cells that a damaged file may hold in the place of others
    Appended     \* cells that may follow the end of a damaged file

IsName(name) == IsSequence(name) /\ \A i \in DOMAIN name : name[i] = Part(name[i][2])

IsData(data) ==
    /\ IsSequence(data)
    /\ \A i \in DOMAIN data : data[i] = Byte(data[i][2]) /\ data[i][2] \in Nat

\* Records as a caller of the writers makes them.
WellFormed(recs) ==
    /\ IsSequence(recs) /\ Len(recs) <= MAX_RECORDS
    /\ \A i \in DOMAIN recs :
          /\ recs[i].type \in Nat /\ recs[i].flags \in Nat
          /\ IsName(recs[i].name) /\ IsData(recs[i].data) /\ recs[i].data_len = Len(recs[i].data)

ASSUME ToolsAssumption ==
    /\ \A path \in DOMAIN Files :
          IsName(Files[path].name) /\ Files[path].name # <<>> /\ IsData(Files[path].data)
    /\ \A list \in Lists : IsSequence(list)
    /\ WellFormed(Demo) /\ \A recs \in TestRecords : WellFormed(recs)
    /\ Rooms \subseteq Nat
    /\ \A c \in Damaged \cup Appended : IsCell(c)

VARIABLES
    archive,  \* cells of the file; none, when there is no file
    written,  \* what it was made to hold, and its flags
    intact,   \* it is as it was written
    out,      \* names and data of what the last command extracted
    left,     \* the file of a round trip is still there
    last      \* the last command, its exit code, and whether the disk was full
vars == <<archive, written, intact, out, left, last>>

NoFiles == [n \in {} |-> <<>>]

Init ==
    /\ archive = <<>> /\ intact = FALSE
    /\ written = [recs |-> <<>>, flags |-> {}]
    /\ out = NoFiles
    /\ left = FALSE
    /\ last = [cmd |-> "none", exit |-> 0, full |-> FALSE]

Ends(cmd, ok) == last' = [cmd |-> cmd, exit |-> IF ok THEN 0 ELSE 1, full |-> FALSE]

PyCommands == {"create", "test", "py unpack", "py validate", "roundtrip"}

-----------------------------------------------------------------------------
(***************************************************************************)
(* Writing.                                                                *)
(***************************************************************************)

(***************************************************************************)
(* The file is opened, which empties it, and written.  On a full disk only *)
(* a beginning gets there: the C tool drops the results of its writes.     *)
(***************************************************************************)
Write(cmd, recs, flags, author) ==
    LET full == Archive(recs, flags, author)
    IN  /\ written' = [recs |-> recs, flags |-> flags]
        /\ \/ archive' = full /\ intact' = TRUE /\ Ends(cmd, TRUE)
           \/ /\ \E n \in Rooms : n < Len(full) /\ archive' = SubSeq(full, 1, n)
              /\ intact' = FALSE
              /\ last' = [cmd |-> cmd, exit |-> IF cmd \in PyCommands THEN 1 ELSE 0, full |-> TRUE]

\* Nothing is opened for writing.
Refuse(cmd) == Ends(cmd, FALSE) /\ UNCHANGED <<archive, written, intact>>

AllOpen(list) == \A i \in DOMAIN list : list[i] \in DOMAIN Files

Suffix(name) == name[Len(name)][2]

\* guess_type: strrchr finds the dot of a name that begins with it.
CType(name) ==
    CASE Suffix(name) = "txt" -> 1
      [] Suffix(name) = "meta" -> 3
      [] OTHER -> 2

\* guess_type: Path.suffix does not, and lower() takes TXT for txt.
PyType(name) ==
    CASE Len(name) > 1 /\ Suffix(name) \in {"txt", "TXT"} -> 1
      [] Len(name) > 1 /\ Suffix(name) = "meta" -> 3
      [] OTHER -> 2

CRecords(list) ==
    [i \in DOMAIN list |->
        LET f == Files[list[i]] IN NewRecord(CType(f.name), f.name, f.data)]

PyRecords(list) ==
    [i \in DOMAIN list |->
        LET f == Files[list[i]] IN NewRecord(PyType(f.name), f.name, f.data)]

Chosen(xor) == {"footer"} \cup (IF xor THEN {"xor"} ELSE {})

Generate(user) ==
    /\ Write("generate", Demo, {"footer"}, user)
    /\ out' = NoFiles /\ UNCHANGED left

\* The output is opened before the inputs are read.
BugPack(list, xor, user) ==
    /\ Len(list) <= MAX_RECORDS
    /\ IF AllOpen(list)
       THEN Write("pack", CRecords(list), Chosen(xor), user)
       ELSE archive' = <<>> /\ Ends("pack", FALSE) /\ UNCHANGED <<written, intact>>
    /\ out' = NoFiles /\ UNCHANGED left

Pack(list, xor, user) ==
    /\ IF Len(list) <= MAX_RECORDS /\ AllOpen(list)
       THEN Write("pack", CRecords(list), Chosen(xor), user)
       ELSE Refuse("pack")
    /\ out' = NoFiles /\ UNCHANGED left

\* A name that is not ASCII ends the program, too.
Create(list, xor) ==
    /\ IF /\ AllOpen(list) /\ Len(list) <= MAX_RECORDS
          /\ AsciiNames(PyRecords(list))
       THEN Write("create", PyRecords(list), Chosen(xor), "python")
       ELSE Refuse("create")
    /\ out' = NoFiles /\ UNCHANGED left

\* The archives of cmd_test.
WriteTest(recs, flags) ==
    /\ Write("test", recs, flags, "chkpt")
    /\ out' = NoFiles /\ UNCHANGED left

(***************************************************************************)
(* A copy that was cut, grew, or has one cell changed to another of its    *)
(* kind.                                                                   *)
(***************************************************************************)
Damage ==
    /\ intact /\ intact' = FALSE
    /\ \/ \E i \in DOMAIN archive : \E c \in Damaged :
             /\ c[1] = archive[i][1] /\ c # archive[i]
             /\ archive' = [archive EXCEPT ![i] = c]
       \/ \E n \in 0..Len(archive) - 1 : archive' = SubSeq(archive, 1, n)
       \/ \E c \in Appended : archive' = Append(archive, c)
    /\ Ends("damage", TRUE)
    /\ out' = NoFiles /\ UNCHANGED <<written, left>>

-----------------------------------------------------------------------------
(***************************************************************************)
(* Reading.                                                                *)
(***************************************************************************)

CValidate ==
    /\ Ends("validate", CValid(archive))
    /\ out' = NoFiles /\ UNCHANGED <<archive, written, intact, left>>

PyValidate ==
    /\ Ends("py validate", PyValid(archive))
    /\ out' = NoFiles /\ UNCHANGED <<archive, written, intact, left>>

\* A file that was extracted before stays as it is.
BugExtracted(recs) ==
    LET At(n) == {i \in DOMAIN recs : recs[i].name = n}
    IN  [n \in {recs[i].name : i \in DOMAIN recs} \ {<<>>} |->
            recs[CHOOSE i \in At(n) : \A j \in At(n) : i <= j].data]

(***************************************************************************)
(* Records in their order, each to the file of its name: the last of one   *)
(* name stays.  Nothing can be opened under an empty name.                 *)
(***************************************************************************)
Extracted(recs) ==
    LET At(n) == {i \in DOMAIN recs : recs[i].name = n}
    IN  [n \in {recs[i].name : i \in DOMAIN recs} \ {<<>>} |->
            recs[CHOOSE i \in At(n) : \A j \in At(n) : j <= i].data]

PyNamed(recs) ==
    [i \in DOMAIN recs |->
        [recs[i] EXCEPT !.name = IF @ = <<>> THEN <<Part("unnamed")>> ELSE Decoded(@)]]

\* cmd_unpack of the C tool checks no CRC.
CUnpack ==
    /\ Ends("unpack", Readable(archive))
    /\ out' = IF Readable(archive) THEN Extracted(Records(archive)) ELSE NoFiles
    /\ UNCHANGED <<archive, written, intact, left>>

PyUnpack ==
    /\ Ends("py unpack", PyStrict(archive))
    /\ out' = IF PyStrict(archive) THEN Extracted(PyNamed(Records(archive))) ELSE NoFiles
    /\ UNCHANGED <<archive, written, intact, left>>

Rewritten == Archive(Records(archive), HeaderFlags(archive), HeaderAuthor(archive))

\* Names and author are encoded before the new file is opened.
Encodes == AsciiNames(Records(archive)) /\ HeaderAuthor(archive) \in ASCII

SameRecords(a, b) ==
    /\ Len(a) = Len(b)
    /\ \A i \in DOMAIN a : a[i].name = b[i].name /\ a[i].data = b[i].data /\ a[i].type = b[i].type

\* The copy stays when it is not what the archive is.
BugRoundTripCopy(ok) == Ends("roundtrip", ok) /\ left' = TRUE

RoundTripCopy(ok) == Ends("roundtrip", ok) /\ left' = ~ok

(***************************************************************************)
(* cmd_roundtrip: read, write a copy, read it, let the C tool validate it, *)
(* remove it.  On a full disk the copy stays where the program ended.      *)
(***************************************************************************)
RoundTrip ==
    /\ IF PyStrict(archive) /\ Encodes
       THEN \/ RoundTripCopy(/\ PyStrict(Rewritten)
                             /\ SameRecords(Records(archive), Records(Rewritten))
                             /\ CValid(Rewritten))
            \/ last' = [cmd |-> "roundtrip", exit |-> 1, full |-> TRUE] /\ left' = TRUE
       ELSE Ends("roundtrip", FALSE) /\ UNCHANGED left
    /\ out' = NoFiles /\ UNCHANGED <<archive, written, intact>>

-----------------------------------------------------------------------------
Next ==
    \/ \E user \in Users : Generate(user)
    \/ \E list \in Lists, xor \in BOOLEAN :
          Create(list, xor) \/ \E user \in Users : Pack(list, xor, user)
    \/ \E recs \in TestRecords, flags \in SUBSET {"xor", "footer"} : WriteTest(recs, flags)
    \/ Damage
    \/ CValidate \/ PyValidate \/ CUnpack \/ PyUnpack \/ RoundTrip

Spec == Init /\ [][Next]_vars

-----------------------------------------------------------------------------
(***************************************************************************)
(* Properties.                                                             *)
(***************************************************************************)

Names == {written.recs[i].name : i \in DOMAIN written.recs}

\* The last record of that name holds these data.
Holds(n, data) ==
    \E i \in DOMAIN written.recs :
        /\ written.recs[i].name = n /\ written.recs[i].data = data
        /\ \A j \in DOMAIN written.recs : j > i => written.recs[j].name # n

\* Python's file for a record without a name may be that of another record, too.
Unnamed == IF <<>> \in Names THEN {<<>>, <<Part("unnamed")>>} ELSE {}

(***************************************************************************)
(* Each tool gets back what either put in: of an archive nothing happened  *)
(* to, both unpack every record with a name, under that name and with its  *)
(* data, XOR or not, footer or not; Python needs names in ASCII, and       *)
(* writes a record without a name over one that is named "unnamed"         *)
(* (fileformat.c:182-227, 437-606; ch25-checkpoint-parser.py:138-410,      *)
(* 605-622).                                                               *)
(***************************************************************************)
UnpackRestores ==
    intact =>
        /\ last.cmd = "unpack" =>
              /\ last.exit = 0 /\ DOMAIN out = Names \ {<<>>}
              /\ \A n \in DOMAIN out : Holds(n, out[n])
        /\ last.cmd = "py unpack" =>
              /\ last.exit = 0
              /\ AsciiNames(written.recs) =>
                    \A n \in Names \ Unnamed : n \in DOMAIN out /\ Holds(n, out[n])

(***************************************************************************)
(* validate of the C tool tells whether anything happened to an archive    *)
(* with a footer, and finds fault with none that is as it was written;     *)
(* what Python parses strictly is as it was written                        *)
(* (fileformat.c:612-716; ch25-checkpoint-parser.py:183-312).              *)
(***************************************************************************)
DamageIsFound ==
    /\ last.cmd = "validate" /\ intact => last.exit = 0
    /\ /\ last.cmd \in {"validate", "py unpack", "roundtrip"} /\ last.exit = 0
       /\ "footer" \in written.flags
       => intact

(***************************************************************************)
(* A round trip of an archive nothing happened to succeeds, with names and *)
(* author in ASCII, and only one that found the disk full leaves its copy  *)
(* behind (ch25-checkpoint-parser.py:625-676).                             *)
(***************************************************************************)
RoundTripHolds ==
    [][/\ left' /\ ~left => last'.full
       /\ last'.cmd = "roundtrip" /\ intact /\ Encodes => last'.exit = 0 \/ last'.full]_vars

(***************************************************************************)
(* A command that ends with an error leaves the archive as it was, unless  *)
(* the disk was full; reading never changes it (fileformat.c:352-367).     *)
(***************************************************************************)
FailureKeepsArchive ==
    [][archive' # archive =>
          \/ last'.cmd \in {"generate", "pack", "create", "test"} /\ (last'.exit = 0 \/ last'.full)
          \/ last'.cmd = "damage"]_vars

(***************************************************************************)
(* V7 of 25-fileformat/05-documenter-specification.md:330, which tolerant  *)
(* parsers may not ignore either (334): an archive validate finds no error *)
(* in has the footer magic when its flag is set.                           *)
(***************************************************************************)
ValidHasFooterMagic ==
    last.cmd \in {"validate", "py validate"} /\ last.exit = 0
        /\ "footer" \in HeaderFlags(archive)
    => FooterMarked(archive, Parsed(archive).pos)
=============================================================================
