---------------------------- MODULE MCContainers ----------------------------
(***************************************************************************)
(* Instance of Containers for TLC.  Each bench is a directory and what may *)
(* be done there; on the mixed one four of the tools meet on each file.    *)
(***************************************************************************)
EXTENDS Containers, Bitwise

(***************************************************************************)
(* The table: a name of no bytes, of 256 and of 257, one that fills its    *)
(* chunk, and data or none; room for one record more than create writes.   *)
(***************************************************************************)
MCNameLen == [n \in {"a", "brim", "none", "cut", "gone"} |->
                 CASE n = "a" -> 1 [] n = "brim" -> 24 [] n = "none" -> 0
                   [] n = "cut" -> 257 [] n = "gone" -> 256]
MCBrim == {24}
MCSample == <<[name |-> "a", data |-> "x"], [name |-> "brim", data |-> ""]>>
MCRecs == {[name |-> "cut", data |-> "y"], [name |-> "gone", data |-> "y"], [name |-> "none", data |-> ""]}

(***************************************************************************)
(* The cipher: bytes of two bits in blocks of four; two passwords that are *)
(* one once they are cut.                                                  *)
(***************************************************************************)
MCXor == [a \in 0..3 |-> [b \in 0..3 |-> a ^^ b]]
MCSbox == <<3, 1, 2>>
MCPwdKept == [p \in {"", "key", "long-a", "long-b"} |->
                 IF p \in {"long-a", "long-b"} THEN "long" ELSE p]
MCHashOf == [p \in {"key", "long"} |->
                IF p = "key" THEN <<1, 3, 0, 2, 2, 1, 0, 3>> ELSE <<0, 2, 1, 3, 3, 3, 1, 0>>]

(***************************************************************************)
(* Sections: the three types, plain and packed, and those that fail.       *)
(***************************************************************************)
Byte(v) == [kind |-> "byte", val |-> v]
Section(type, compressed, payload, ok, content) ==
    [type |-> type, compressed |-> compressed, payload |-> payload, ok |-> ok, content |-> content]

Data == Section("DATA", FALSE, <<Byte(7), Byte(8), Byte(9)>>, TRUE, <<7, 8, 9>>)
Empty == Section("DATA", FALSE, <<>>, TRUE, <<>>)
Packed == Section("DATA", TRUE, <<Word(5), Byte(3), Byte(7), Byte(1), Byte(9)>>, TRUE, <<7, 7, 7, 9, 0>>)
TooLong == Section("DATA", TRUE, <<Word(17), Byte(3), Byte(7)>>, FALSE, <<>>)
Index == Section("INDEX", FALSE, <<Word(1), Word(3)>>, TRUE, <<1, 3>>)
WildIndex == Section("INDEX", FALSE, <<Word(1), Word(64)>>, TRUE, <<1, 64>>)
PackedIndex == Section("INDEX", TRUE, <<Word(8), Byte(1), Byte(2), Byte(7), Byte(0)>>,
                       TRUE, <<2, 0, 0, 0, 0, 0, 0, 0>>)
ShortIndex == Section("INDEX", FALSE, <<Byte(1), Byte(0)>>, FALSE, <<>>)
Meta == Section("META", FALSE, <<Byte(1), Byte(1), Byte(65), Byte(66)>>, TRUE, <<1, 1, 65, 66>>)
ShortMeta == Section("META", FALSE, <<Byte(1)>>, FALSE, <<>>)
Other == Section("OTHER", FALSE, <<Byte(4), Byte(4)>>, FALSE, <<>>)

Kinds ==
    <<Data, Empty, Packed, TooLong, Index, WildIndex, PackedIndex, ShortIndex, Meta, ShortMeta, Other>>

\* Two sections of any kind, and one behind them.
Rows == [n \in 1..Len(Kinds) * Len(Kinds) |->
            <<Kinds[((n - 1) \div Len(Kinds)) + 1], Kinds[((n - 1) % Len(Kinds)) + 1], Data>>]

(***************************************************************************)
(* Benches.                                                                *)
(***************************************************************************)
Nothing == [disk |-> [f \in {} |-> NoFile], tools |-> {}, runs |-> 0, recs |-> {}, passwords |-> {},
            times |-> {1}, junk |-> {0}, sections |-> [f \in {} |-> <<>>]]

TableBench == [Nothing EXCEPT !.disk = [f \in {"t.cdat"} |-> NoFile], !.tools = {"table"},
                              !.runs = 5, !.recs = MCRecs]

Documents == <<<<>>, <<3>>, <<2, 2, 1>>, <<1, 2, 0, 1>>, <<3, 3, 1, 1, 2>>, <<0, 1, 2, 1, 1, 0, 3, 3>>>>

CipherBench(doc) ==
    [Nothing EXCEPT !.disk = [f \in {"doc", "box", "out"} |->
                                 IF f = "doc" THEN ByteCells(doc) ELSE NoFile],
                    !.tools = {"cipher"}, !.runs = 2, !.passwords = DOMAIN MCPwdKept, !.junk = {3}]

AesBench(doc) ==
    [Nothing EXCEPT !.disk = [f \in {"doc", "doc.enc", "out"} |->
                                 IF f = "doc" THEN ByteCells(doc) ELSE NoFile],
                    !.tools = {"aes"}, !.runs = 3, !.times = {1, 2}]

SamplesBench == [Nothing EXCEPT !.disk = [f \in {"sample.cdb", "sample.pkt"} |-> NoFile],
                                !.tools = {"samples"}, !.runs = 2, !.junk = {0, 1}]

SectionsBench(version, checksummed, sections) ==
    [Nothing EXCEPT !.disk = [f \in {"s.cstm"} |-> FileOf(version, checksummed, sections)],
                    !.tools = {"sections"}, !.sections = [f \in {"s.cstm"} |-> sections]]

\* Files the parser refuses: a short signature, a wrong version or marker, no
\* descriptor where one is counted, and more sections than it has room for.
OddFiles ==
    <<FileOf(3, FALSE, <<Data>>), FileOf(4, FALSE, <<Data>>), <<>>,
     <<FileHeader(3, FALSE, 1), Signature("SIX", 66)>> \o [i \in 1..20 |-> Byte(0)],
     <<FileHeader(1, TRUE, 2), Descriptor("DATA", FALSE, 0)>>,
     <<FileHeader(2, TRUE, 6)>> \o [i \in 1..6 |-> Descriptor("DATA", FALSE, 0)],
     <<FileHeader(1, FALSE, 1), Descriptor("DATA", FALSE, 9), Byte(1)>>,
     <<FileHeader(1, FALSE, 1), Descriptor("META", TRUE, 9), Word(2)>>>>

OddBench(file) == [Nothing EXCEPT !.disk = [f \in {"odd"} |-> file], !.tools = {"sections"}]

\* Every tool on every file.
MixedBench ==
    [Nothing EXCEPT !.disk = [f \in {"doc", "doc.enc"} |->
                                 IF f = "doc" THEN ByteCells(<<3, 1>>) ELSE NoFile],
                    !.tools = {"table", "cipher", "aes", "sections"},
                    !.runs = 3, !.recs = {[name |-> "a", data |-> "y"]}, !.passwords = {"key"}]

MCBenches ==
    {TableBench, SamplesBench, MixedBench}
    \cup {CipherBench(Documents[n]) : n \in DOMAIN Documents}
    \cup {AesBench(Documents[n]) : n \in DOMAIN Documents}
    \cup {SectionsBench(1, FALSE, Rows[n]) : n \in DOMAIN Rows}
    \cup {SectionsBench(3, TRUE, Rows[n]) : n \in DOMAIN Rows}
    \cup {OddBench(OddFiles[n]) : n \in DOMAIN OddFiles}
=============================================================================
