------------------------------- MODULE Ch35Elf -------------------------------
(***************************************************************************)
(* What solutions/ch35-checkpoint-batch.py and scripts/triage.py say of    *)
(* one ELF file.  Both were written from one idea, with code of their own. *)
(* A file is what lief, pyelftools and YARA find in it:                    *)
(*   size      what stat says                                              *)
(*   magic     it begins with 7f 45 4c 46                                  *)
(*   lief      lief.parse makes an object of it                            *)
(*   pie, nx   as lief has them                                            *)
(*   relro     there is a GNU_RELRO segment                                *)
(*   dynamic   its dynamic entries, in order                               *)
(*   imports   the names of its imported symbols                           *)
(*   static    how many static symbols lief counts                         *)
(*   sections  name, whether it is a .debug_ one, thousandths of bits of   *)
(*             entropy, size                                               *)
(*   libraries how many are needed                                         *)
(*   symbols   what pyelftools iterates over; it may raise on the way      *)
(*   rules     the YARA rules that match, or that YARA raises              *)
(***************************************************************************)
EXTENDS Integers, Sequences, FiniteSets

\* One name for all that the two dictionaries treat alike.
IMPORT_FAMILIES ==
    [crypto |-> {"SHA256", "SHA1_Init"}, network |-> {"socket", "accept4"},
     file_io |-> {"fopen"}, dangerous |-> {"sprintf"}]

TRIAGE_FAMILIES ==
    [crypto |-> {"SHA256"}, network |-> {"socket"},
     file_io |-> {"fopen"}, dangerous |-> {"sprintf"}]

\* The first exception ends the loop; what was seen before it stays.
BindNow(f) ==
    \E i \in DOMAIN f.dynamic :
        /\ f.dynamic[i] \in {"BIND_NOW", "DF_BIND_NOW", "DF_1_NOW"}
        /\ \A j \in 1..i : f.dynamic[j] # "raise"

Relro(f) ==
    CASE f.relro /\ BindNow(f) -> "full"
      [] f.relro /\ ~BindNow(f) -> "partial"
      [] ~f.relro -> "none"

Protections(f) ==
    [pie |-> f.pie, nx |-> f.nx, canary |-> "__stack_chk_fail" \in f.imports, relro |-> Relro(f)]

StripInfo(f) ==
    [stripped |-> f.static = 0,
     has_dwarf |-> \E i \in DOMAIN f.sections : f.sections[i].debug]

\* round(s.entropy, 2)
Hundredths(thousandths) == (thousandths + 5) \div 10

Alert(s) == s.name # "" /\ Hundredths(s.entropy) > 700 /\ s.size > 64

HighEntropy(f) == SelectSeq(f.sections, Alert)

Found(f, dictionary) ==
    LET families == {x \in DOMAIN dictionary : f.imports \cap dictionary[x] # {}}
    IN  [x \in families |-> f.imports \cap dictionary[x]]

Uncategorized(f) == f.imports \ UNION {IMPORT_FAMILIES[x] : x \in DOMAIN IMPORT_FAMILIES}

-----------------------------------------------------------------------------
(***************************************************************************)
(* Symbols.                                                                *)
(***************************************************************************)
IsFunction(s) == s.type = "STT_FUNC" /\ s.value # 0 /\ s.size > 0

Raises(f) == \E i \in DOMAIN f.symbols : f.symbols[i].type = "raise"

\* The symbols pyelftools yields before it raises.
Yielded(f) ==
    LET cut == {i \in DOMAIN f.symbols : \E j \in 1..i : f.symbols[j].type = "raise"}
    IN  SubSeq(f.symbols, 1, Len(f.symbols) - Cardinality(cut))

\* A stable sort, the largest first.
BySize(fns) ==
    LET Before(i, j) == fns[i].size > fns[j].size \/ (fns[i].size = fns[j].size /\ i < j)
        Rank(j) == 1 + Cardinality({i \in DOMAIN fns : Before(i, j)})
    IN  [k \in DOMAIN fns |-> fns[CHOOSE j \in DOMAIN fns : Rank(j) = k]]

Top5(fns) == SubSeq(fns, 1, IF Len(fns) < 5 THEN Len(fns) ELSE 5)

Bound(fns, bind) == Cardinality({i \in DOMAIN fns : fns[i].bind = bind})

Symbols(fns, ranked) ==
    [total |-> Len(fns), local |-> Bound(fns, "STB_LOCAL"), global |-> Bound(fns, "STB_GLOBAL"),
     top5 |-> Top5(ranked)]

NoSymbols == [total |-> 0, local |-> 0, global |-> 0, top5 |-> <<>>]

\* The order of the table is the order of the sizes.
BugSymbolsOf(f) ==
    LET fns == SelectSeq(f.symbols, IsFunction)
    IN  IF Raises(f) THEN NoSymbols ELSE Symbols(fns, fns)

\* analyze_symbols_pyelftools: an exception drops everything.
SymbolsOf(f) ==
    LET fns == SelectSeq(f.symbols, IsFunction)
    IN  IF Raises(f) THEN NoSymbols ELSE Symbols(fns, BySize(fns))

\* triage_pyelftools: an exception keeps what there is, not yet sorted.
TriageSymbolsOf(f) ==
    LET fns == SelectSeq(Yielded(f), IsFunction)
    IN  Symbols(fns, IF Raises(f) THEN fns ELSE BySize(fns))

-----------------------------------------------------------------------------
\* scan_yara: one that raises is taken for one without a match.
Matches(f) == IF "raise" \in f.rules THEN {} ELSE f.rules

(***************************************************************************)
(* The report of the checkpoint: parsed is the file lief read, sized the   *)
(* one stat met, named the one pyelftools opened, and scanned the one YARA *)
(* did: the file may have been another each time.                          *)
(***************************************************************************)
Report(path, parsed, sized, symbols, yara) ==
    [path |-> path, size |-> sized, protections |-> Protections(parsed), strip |-> StripInfo(parsed),
     high_entropy |-> HighEntropy(parsed), libraries |-> parsed.libraries,
     total |-> Cardinality(parsed.imports), uncategorized |-> Cardinality(Uncategorized(parsed)),
     families |-> Found(parsed, IMPORT_FAMILIES), symbols |-> symbols, yara |-> yara]

\* triage() of a file lief parses, read in one go.
TriageReport(f) ==
    [size |-> f.size, protections |-> Protections(f), strip |-> StripInfo(f),
     high_entropy |-> HighEntropy(f), libraries |-> f.libraries,
     total |-> Cardinality(f.imports), families |-> Found(f, TRIAGE_FAMILIES),
     symbols |-> IF f.static = 0 THEN NoSymbols ELSE TriageSymbolsOf(f)]
=============================================================================
