---------------------------- MODULE Ch15Sections ----------------------------
(***************************************************************************)
(* The CSTM parser of chapter 15 (binaries/ch15-fileformat/fileformat.c)   *)
(* and the function a fuzzer calls instead of main (fuzz_fileformat.c).    *)
(* Header, signature and descriptor of a section are one cell each, with   *)
(* their widths in bytes; a payload has 4-byte words and bytes.            *)
(*                                                                         *)
(* The parser has reads out of bounds of its own making, for the fuzzer to *)
(* find.  What such a read returns is not modelled: the process may end    *)
(* there, or go on as if nothing was wrong.                                *)
(***************************************************************************)
EXTENDS Cells

CONSTANTS
    MAX_SECTIONS,      \* 256
    INDEX_TABLE_SIZE,  \* 64
    MAX_DECOMPRESSED,  \* bytes: 1 MiB
    MAX_INPUT,         \* bytes main reads: 10 MiB
    MAX_FUZZED,        \* bytes the fuzzer's function reads: 1 MiB
    OFFSETS            \* a uint32_t has so many values

ASSUME SectionsAssumption ==
    /\ MAX_SECTIONS \in Nat /\ INDEX_TABLE_SIZE \in Nat /\ MAX_DECOMPRESSED \in Nat
    /\ MAX_FUZZED \in Nat /\ MAX_INPUT \in Nat /\ OFFSETS \in Nat
    /\ MAX_FUZZED <= MAX_INPUT /\ MAX_INPUT < OFFSETS

HEADER_SIZE == 8
SIG_SIZE == 16
SECTION_DESC_SIZE == 8
MAX_VERSION == 3

FileHeader(version, checksummed, count) ==
    [kind |-> "cstm", width |-> HEADER_SIZE, version |-> version,
     checksummed |-> checksummed, section_count |-> count]

Signature(marker, check) ==
    [kind |-> "sig", width |-> SIG_SIZE, marker |-> marker, check |-> check]

Descriptor(type, compressed, length) ==
    [kind |-> "desc", width |-> SECTION_DESC_SIZE,
     type |-> type, compressed |-> compressed, length |-> length]

Word(n) == [kind |-> "word", width |-> 4, val |-> n]

-----------------------------------------------------------------------------
(***************************************************************************)
(* One section: what its bytes are, whether its processing returns 0, and  *)
(* whether it reads out of bounds.                                         *)
(***************************************************************************)
Failed == [ok |-> FALSE, risky |-> FALSE, content |-> <<>>]
Decoded(content) == [ok |-> TRUE, risky |-> FALSE, content |-> content]
Risky(content) == [ok |-> TRUE, risky |-> TRUE, content |-> content]

\* process_index_section: an entry that is no index of the table.
ProcessIndex(content, size, entries) ==
    IF size < 4 THEN Failed
    ELSE IF \E i \in DOMAIN entries : entries[i] >= INDEX_TABLE_SIZE THEN Risky(content)
    ELSE Decoded(content)

\* process_meta_section stops at the first pair that does not fit.
ProcessMeta(content, size) == IF size < 2 THEN Failed ELSE Decoded(content)

\* process_data_section has nothing to refuse; another type is unknown.
Process(type, content, size, entries) ==
    CASE type = "DATA" -> Decoded(content)
      [] type = "INDEX" -> ProcessIndex(content, size, entries)
      [] type = "META" -> ProcessMeta(content, size)
      [] OTHER -> Failed

\* Entries of an INDEX that was laid out as words.
WordsOf(cells) == ValuesOf(SelectSeq(cells, LAMBDA c : c.kind = "word"))

\* What a section that lies in the file is, when it is not packed.
Interpreted(desc, payload) ==
    LET content == [i \in DOMAIN payload |-> IF payload[i].kind \in {"word", "byte"}
                                             THEN payload[i].val ELSE payload[i].kind]
    IN  Process(desc.type, content, desc.length, WordsOf(payload))

\* decode_section: length is not compared with the size of the file.
DecodeSection(cells, offset, desc) ==
    IF desc.length = 0 THEN Decoded(<<>>)
    ELSE IF offset + desc.length > SizeOf(cells) THEN Risky(<<>>)
    ELSE Interpreted(desc, CellsIn(cells, offset, desc.length))

\* while (src_pos + 1 < comp_len ...): pairs of a count and a value.
Runs(packed) == [n \in 1..Len(packed) \div 2 |->
                    [count |-> packed[2 * n - 1], value |-> packed[2 * n]]]

\* The runs as far as there is room, and zeros for what they leave.
Expand(packed, size) ==
    LET runs == FlattenSeq([n \in DOMAIN Runs(packed) |->
                               [i \in 1..Runs(packed)[n].count |-> Runs(packed)[n].value]])
    IN  [i \in 1..size |-> IF i <= Len(runs) THEN runs[i] ELSE 0]

\* Little-endian words of expanded bytes, as far as an index can tell them apart.
ExpandedWords(bytes) ==
    [n \in 1..Len(bytes) \div 4 |->
        IF \E i \in 2..4 : bytes[4 * (n - 1) + i] # 0 THEN INDEX_TABLE_SIZE
        ELSE bytes[4 * n - 3]]

\* decompress_section, then the processing of what it returned.
Unpacked(desc, payload) ==
    LET bytes == Expand(ValuesOf(Tail(payload)), payload[1].val)
    IN  IF payload[1].val > MAX_DECOMPRESSED THEN Failed
        ELSE Process(desc.type, bytes, Len(bytes), ExpandedWords(bytes))

DecompressSection(cells, offset, desc) ==
    IF desc.length < 4 THEN Failed
    ELSE IF offset + desc.length > SizeOf(cells) THEN Risky(<<>>)
    ELSE Unpacked(desc, CellsIn(cells, offset, desc.length))

-----------------------------------------------------------------------------
(***************************************************************************)
(* The whole file.                                                         *)
(***************************************************************************)
\* parse_header
HeaderOk(cells) ==
    /\ SizeOf(cells) >= HEADER_SIZE
    /\ cells[1].kind = "cstm"
    /\ cells[1].version \in 1..MAX_VERSION

\* verify_signature: 32 bytes are asked for, of which the block is 16.
SignatureOk(cells) ==
    /\ SizeOf(cells) >= HEADER_SIZE + 32
    /\ LET sig == At(cells, HEADER_SIZE)
       IN  sig.kind = "sig" /\ sig.marker = "SIG" /\ sig.check = 66

FirstOffset(cells) ==
    IF cells[1].version = 3 THEN HEADER_SIZE + SIG_SIZE ELSE HEADER_SIZE

\* A section that failed is not stepped over.
BugNextOffset(offset, desc, done) ==
    IF done.ok THEN (offset + SECTION_DESC_SIZE + desc.length) % OFFSETS
    ELSE offset + SECTION_DESC_SIZE

\* Decoded or not, a section ends where its descriptor says; a uint32_t wraps.
NextOffset(offset, desc, done) == (offset + SECTION_DESC_SIZE + desc.length) % OFFSETS

\* What the loop makes of the section at an offset.
SectionAt(cells, offset, desc) ==
    IF desc.kind # "desc" THEN Failed
    ELSE IF desc.compressed THEN DecompressSection(cells, offset, desc)
    ELSE DecodeSection(cells, offset, desc)

\* One round of the loop, which gives up when a descriptor does not fit.
Visited(cells, p) ==
    LET desc == At(cells, p.offset)
        data == p.offset + SECTION_DESC_SIZE
        done == SectionAt(cells, data, desc)
    IN  IF p.ret # 0 THEN p
        ELSE IF data > SizeOf(cells) THEN [p EXCEPT !.ret = -1]
        ELSE [offset |-> IF desc.kind = "desc" THEN NextOffset(p.offset, desc, done) ELSE data,
              ret |-> 0, sections |-> Append(p.sections, done)]

\* parse_sections: the sections in turn.  No file of the model leads it into
\* the middle of a section; what lies there would read as a descriptor like
\* any other.
ParseSections(cells) ==
    LET parsed[i \in 0..cells[1].section_count] ==
            IF i = 0 THEN [offset |-> FirstOffset(cells), ret |-> 0, sections |-> <<>>]
            ELSE Visited(cells, parsed[i - 1])
    IN  parsed[cells[1].section_count]

\* validate_checksum only warns; its work buffer has room for MAX_SECTIONS.
ChecksumRisky(cells) ==
    /\ cells[1].checksummed /\ SizeOf(cells) >= HEADER_SIZE + 4
    /\ cells[1].section_count > MAX_SECTIONS
    /\ SizeOf(cells) - 4 > HEADER_SIZE + MAX_SECTIONS

Refused == {[exit |-> "1", sections |-> <<>>]}

\* Every way to end: as far as the process gets, or where it may be killed.
Outcomes(exit, sections, risky) ==
    {[exit |-> exit, sections |-> sections]}
    \cup {[exit |-> "killed", sections |-> SubSeq(sections, 1, i - 1)] :
             i \in {j \in DOMAIN sections : sections[j].risky}}
    \cup IF risky THEN {[exit |-> "killed", sections |-> sections]} ELSE {}

\* main: the exit code tells of the header, the signature and the descriptors.
RunParser(cells) ==
    IF SizeOf(cells) \notin 1..MAX_INPUT \/ ~HeaderOk(cells) THEN Refused
    ELSE IF cells[1].version = 3 /\ ~SignatureOk(cells) THEN Refused
    ELSE LET p == ParseSections(cells)
         IN  IF p.ret # 0 THEN Outcomes("1", p.sections, FALSE)
             ELSE Outcomes("0", p.sections, ChecksumRisky(cells))

\* LLVMFuzzerTestOneInput: always 0, and the checksum also after a failure.
RunHarness(cells) ==
    IF SizeOf(cells) \notin HEADER_SIZE..MAX_FUZZED \/ ~HeaderOk(cells)
    THEN {[exit |-> "0", sections |-> <<>>]}
    ELSE IF cells[1].version = 3 /\ ~SignatureOk(cells) THEN {[exit |-> "0", sections |-> <<>>]}
    ELSE Outcomes("0", ParseSections(cells).sections, ChecksumRisky(cells))

-----------------------------------------------------------------------------
(***************************************************************************)
(* Files as they should be, that either program takes: what a section is   *)
(* when it is read by itself is written with it.                           *)
(***************************************************************************)
DescriptorOf(sec) == Descriptor(sec.type, sec.compressed, SizeOf(sec.payload))

SectionOf(sec) ==
    IF sec.compressed
    THEN IF SizeOf(sec.payload) < 4 THEN Failed ELSE Unpacked(DescriptorOf(sec), sec.payload)
    ELSE IF SizeOf(sec.payload) = 0 THEN Decoded(<<>>)
         ELSE Interpreted(DescriptorOf(sec), sec.payload)

Preamble(version, checksummed, count) ==
    <<FileHeader(version, checksummed, count)>>
    \o IF version = 3 THEN <<Signature("SIG", 66)>> ELSE <<>>

FileOf(version, checksummed, sections) ==
    LET file[n \in 0..Len(sections)] ==
            IF n = 0 THEN Preamble(version, checksummed, Len(sections))
            ELSE file[n - 1] \o (<<DescriptorOf(sections[n])>> \o sections[n].payload)
    IN  file[Len(sections)]

IsSection(sec) ==
    /\ sec.compressed \in BOOLEAN
    /\ IsSequence(sec.payload)
    /\ \A i \in DOMAIN sec.payload : WidthOf(sec.payload[i]) \in Nat \ {0}
    /\ SectionOf(sec).ok = sec.ok
    /\ sec.ok => SectionOf(sec).content = sec.content

IsFileOf(cells, sections) ==
    /\ IsSequence(sections) /\ \A n \in DOMAIN sections : IsSection(sections[n])
    /\ \E version \in 1..MAX_VERSION : \E checksummed \in BOOLEAN :
          /\ cells = FileOf(version, checksummed, sections)
          /\ version = 3 => SizeOf(cells) >= HEADER_SIZE + 32
    /\ SizeOf(cells) <= MAX_FUZZED
=============================================================================
