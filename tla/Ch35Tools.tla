------------------------------ MODULE Ch35Tools ------------------------------
(***************************************************************************)
(* A shell in which the three tools of chapter 35 are run one after the    *)
(* other over a directory of binaries that somebody may be rebuilding:     *)
(* solutions/ch35-checkpoint-batch.py with --output, scripts/triage.py,    *)
(* and scripts/batch_analyze.py with an --output directory that stays.     *)
(***************************************************************************)
EXTENDS Ch35Elf

CONSTANTS
    Content,     \* Content[c]: the file that holds c
    Order,       \* the paths, in the order of sorted()
    NameOf,      \* NameOf[p]: the name of path p, as a sequence of one
    Trees,       \* what the directory may hold at first
    Scripts,     \* the Ghidra scripts, in their order
    JsonOrder,   \* the stems of JSON files, in their order: <<"a", "crypto">> is a_crypto
    OldOutputs,  \* what may be in the output directory at first
    Replacements,\* what a path may come to hold while the tools are used
    MaxRuns,     \* bound: executions of a tool
    MaxChanges,  \* bound: changes to the directory
    Absent       \* no file

VARIABLES
    tree,     \* tree[p]: what path p holds
    tool,     \* the tool that runs, or "none"
    pc,       \* where it stands
    todo,     \* what it has still to go through
    listed,   \* elfs: the paths find_elfs returned
    current,  \* the binary analyze_binary is at, with what was read so far
    results,  \* results of the checkpoint
    output,   \* the file of its --output
    triaged,  \* the last triage: a path and its report
    project,  \* contents by path in the temporary Ghidra project, or Absent
    outdir,   \* outdir[f]: JSON file f of the Ghidra output directory
    fresh,    \* history: what the scripts of the last execution wrote whole
    last,     \* the last tool that ended, and its exit code
    quiet,    \* history: nothing changed since the checkpoint's last find_elfs
    runs, changes

batchVars == <<current, results, output>>
ghidraVars == <<project, outdir, fresh>>
shellVars == <<triaged, last, quiet, runs, changes>>
vars == <<tree, tool, pc, todo, listed, batchVars, ghidraVars, shellVars>>

Paths == {Order[i] : i \in DOMAIN Order}

(***************************************************************************)
(* Names are sequences of one, symbol tables are sequences, no script runs *)
(* twice.  The files of the output directory are in JsonOrder, report.json *)
(* and a file for each name and script among them.  Anybody may have left  *)
(* anything in them, but report.json is a script's neither at first nor    *)
(* later: the program of which batch_export.py would make it is left out.  *)
(***************************************************************************)
Kinds == {"functions", "crypto"}

Files == {JsonOrder[i] : i \in DOMAIN JsonOrder}

\* report.json, whose stem is its only name
own == <<"report">>

(***************************************************************************)
(* Three scripts the chapters give.  What list_functions.py writes about a *)
(* program x is x_functions.json, what scan_crypto_constants.py writes is  *)
(* x_crypto_scan.json (35-automatisation-scripting/02-ghidra-headless-     *)
(* batch.md:139-143, 346-349).  batch_export.py writes functions, too, but *)
(* into x.json and without a member "binary" (08-ghidra/09-headless-mode-  *)
(* batch.md:219-270): called without arguments, into /tmp/ghidra_batch,    *)
(* which is taken to be the --output directory when it is among them.      *)
(***************************************************************************)
KindOf(s) == IF s = "crypto" THEN "crypto" ELSE "functions"

FileName(s, n) == IF s = "export" THEN n ELSE Append(n, s)

NoName == <<>>

Json(s, n, of) ==
    [kind |-> KindOf(s), binary |-> IF s = "export" THEN NoName ELSE n, of |-> of]

ASSUME OrderAssumption == Order \in Seq(Paths)
ASSUME NamesAssumption == \A p \in Paths : NameOf[p] \in [1..1 -> STRING]

ASSUME ContentAssumption ==
    \A c \in DOMAIN Content :
        LET table == Content[c].symbols IN table \in Seq({table[i] : i \in DOMAIN table})

ASSUME TreesAssumption ==
    /\ Trees \subseteq [Paths -> DOMAIN Content \cup {Absent}]
    /\ Replacements \subseteq DOMAIN Content \cup {Absent}

ASSUME ScriptsAssumption ==
    /\ Scripts \in Seq({"export", "functions", "crypto"})
    /\ \A i, j \in DOMAIN Scripts : Scripts[i] = Scripts[j] => i = j

ASSUME FilesAssumption ==
    /\ JsonOrder \in Seq(Files)
    /\ own \in Files
    /\ \A p \in Paths, i \in DOMAIN Scripts :
          FileName(Scripts[i], NameOf[p]) \in Files \ {own}

ASSUME AbsentAssumption ==
    \A i \in DOMAIN Scripts, p \in Paths, c \in DOMAIN Content :
        Absent # Json(Scripts[i], NameOf[p], c)

ASSUME OutputsAssumption ==
    \A files \in OldOutputs :
        /\ DOMAIN files = Files
        /\ files[own] # Absent => files[own].kind \notin Kinds

Exists(p) == tree[p] # Absent
IsElf(p) == Exists(p) /\ Content[tree[p]].magic

\* Those of the first n paths that are ELF files: a recursive function, so that
\* it can be proved about.
elfs[n \in 0..Len(Order)] ==
    IF n = 0 THEN <<>>
    ELSE IF IsElf(Order[n]) THEN Append(elfs[n - 1], Order[n]) ELSE elfs[n - 1]

find_elfs == elfs[Len(Order)]

None == [path |-> Absent]
Broken == [kind |-> "broken"]
NotScanned == {"not scanned"}

Init ==
    /\ tree \in Trees
    /\ tool = "none" /\ pc = "shell" /\ todo = <<>> /\ listed = <<>>
    /\ current = None /\ results = <<>> /\ output = Absent
    /\ triaged = None
    /\ project = Absent /\ outdir \in OldOutputs /\ fresh = {}
    /\ last = [tool |-> "none", exit |-> 0] /\ quiet = FALSE
    /\ runs = 0 /\ changes = 0

-----------------------------------------------------------------------------
(***************************************************************************)
(* Starts and ends.                                                        *)
(***************************************************************************)
Start(t) ==
    /\ tool = "none" /\ runs < MaxRuns
    /\ runs' = runs + 1
    /\ UNCHANGED <<tree, changes>>

Exit(code) ==
    /\ last' = [tool |-> tool, exit |-> code]
    /\ tool' = "none" /\ pc' = "shell" /\ todo' = <<>>

\* A traceback, or a signal: nothing is cleaned up.
Dies ==
    /\ Exit(1)
    /\ current' = None /\ results' = <<>>
    /\ quiet' = (quiet /\ tool # "batch")
    /\ UNCHANGED <<tree, listed, triaged, runs, changes>>

Goes(place) == pc' = place /\ UNCHANGED <<tree, tool, listed, shellVars>>

(***************************************************************************)
(* main up to find_elfs: not a directory, or no analyzeHeadless, ends with *)
(* 2; no ELF ends with 0 and without a report.                             *)
(***************************************************************************)
Launch(t, first) ==
    /\ Start(t) /\ UNCHANGED triaged
    /\ listed' = find_elfs /\ quiet' = (quiet \/ t = "batch")
    /\ IF find_elfs = <<>>
       THEN /\ last' = [tool |-> t, exit |-> 0]
            /\ UNCHANGED <<tool, pc, todo>>
       ELSE /\ tool' = t /\ pc' = first
            /\ todo' = IF t = "batch" THEN find_elfs ELSE Scripts
            /\ UNCHANGED last

LaunchRefused(t) ==
    /\ Start(t)
    /\ last' = [tool |-> t, exit |-> 2]
    /\ UNCHANGED <<tool, pc, todo, listed, triaged, quiet, batchVars, ghidraVars>>

Change(p, c) ==
    /\ changes < MaxChanges /\ changes' = changes + 1
    /\ tree' = [tree EXCEPT ![p] = c]
    /\ quiet' = FALSE
    /\ UNCHANGED <<tool, pc, todo, listed, batchVars, ghidraVars, triaged, last, runs>>

-----------------------------------------------------------------------------
(***************************************************************************)
(* ch35-checkpoint-batch.py                                                *)
(***************************************************************************)

\* The file of --output is opened first.
BugLaunchBatch ==
    /\ Launch("batch", "parse")
    /\ output' = Broken
    /\ UNCHANGED <<current, results, ghidraVars>>

LaunchBatch == Launch("batch", "parse") /\ UNCHANGED <<batchVars, ghidraVars>>

\* The next path waits for lief.
Finished(result) ==
    /\ results' = Append(results, result)
    /\ todo' = Tail(todo)
    /\ current' = None
    /\ Goes("parse")

\* lief.parse returns None for what it cannot open, too.
Parse ==
    /\ pc = "parse" /\ todo # <<>>
    /\ LET p == Head(todo)
       IN  IF Exists(p) /\ Content[tree[p]].lief
           THEN /\ current' = [path |-> p, parsed |-> tree[p]]
                /\ Goes("stat") /\ UNCHANGED <<todo, results>>
           ELSE Finished([path |-> p, error |-> TRUE])
    /\ UNCHANGED <<output, ghidraVars>>

\* One that is gone is waited for.
BugStat ==
    /\ pc = "stat" /\ Exists(current.path)
    /\ current' = [path |-> current.path, parsed |-> current.parsed,
                   sized |-> Content[tree[current.path]].size]
    /\ Goes("symbols")
    /\ UNCHANGED <<todo, results, output, ghidraVars>>

\* path.stat() raises for a file that is gone, and nothing catches it.
Stat ==
    /\ pc = "stat"
    /\ IF Exists(current.path)
       THEN /\ current' = [path |-> current.path, parsed |-> current.parsed,
                           sized |-> Content[tree[current.path]].size]
            /\ Goes("symbols") /\ UNCHANGED <<todo, results>>
       ELSE Dies
    /\ UNCHANGED <<output, ghidraVars>>

ReadSymbols ==
    /\ pc = "symbols"
    /\ LET p == current.path
           symbols == IF StripInfo(Content[current.parsed]).stripped \/ ~IsElf(p)
                      THEN NoSymbols ELSE SymbolsOf(Content[tree[p]])
       IN  current' = [path |-> p, parsed |-> current.parsed, sized |-> current.sized,
                       symbols |-> symbols]
    /\ Goes("yara")
    /\ UNCHANGED <<todo, results, output, ghidraVars>>

\* Rules may have been given or not, and compile or not.
ScanYara ==
    /\ pc = "yara"
    /\ \E yara \in {NotScanned, IF Exists(current.path)
                                THEN Matches(Content[tree[current.path]]) ELSE {}} :
          Finished([path |-> current.path, error |-> FALSE,
                    report |-> Report(current.path, Content[current.parsed], current.sized,
                                      current.symbols, yara)])
    /\ UNCHANGED <<output, ghidraVars>>

Line(r) ==
    IF r.error
    THEN [name |-> NameOf[r.path], error |-> TRUE]
    ELSE [name |-> NameOf[r.path], error |-> FALSE, size |-> r.report.size,
          protections |-> r.report.protections, strip |-> r.report.strip,
          libraries |-> r.report.libraries, total |-> r.report.total,
          families |-> DOMAIN r.report.families, high_entropy |-> r.report.high_entropy,
          functions |-> r.report.symbols.total, yara |-> r.report.yara]

\* A binary lief refuses gets no line.
BugBuildSummary(rs) ==
    LET good == SelectSeq(rs, LAMBDA r : ~r.error)
    IN  [i \in DOMAIN good |-> Line(good[i])]

build_summary(rs) == [i \in DOMAIN rs |-> Line(rs[i])]

\* By name: the last of one name stays.
Details(rs) ==
    LET At(n) == {i \in DOMAIN rs : NameOf[rs[i].path] = n /\ ~rs[i].error}
        names == {NameOf[rs[i].path] : i \in {j \in DOMAIN rs : ~rs[j].error}}
    IN  [n \in names |-> rs[CHOOSE i \in At(n) : \A j \in At(n) : j <= i].report]

\* The report is made before the file is opened; a write that fails leaves
\* the beginning of it.
WriteBatch ==
    /\ pc = "parse" /\ todo = <<>> /\ tool = "batch"
    /\ \/ /\ output' = [kind |-> "whole", found |-> Len(listed),
                        summary |-> build_summary(results), details |-> Details(results)]
          /\ Exit(0) /\ results' = <<>>
          /\ UNCHANGED <<tree, listed, current, triaged, quiet, runs, changes>>
       \/ output' = Broken /\ Dies
    /\ UNCHANGED ghidraVars

-----------------------------------------------------------------------------
(***************************************************************************)
(* triage.py: the report of one path, read at one moment.                  *)
(***************************************************************************)
Triage(p) ==
    /\ Start("triage")
    /\ LET f == Content[tree[p]]
           good == Exists(p) /\ f.magic /\ f.lief
       IN  /\ triaged' = [path |-> p, error |-> ~good,
                          report |-> IF good THEN TriageReport(f) ELSE Absent]
           /\ last' = [tool |-> "triage", exit |-> IF good THEN 0 ELSE 2]
    /\ UNCHANGED <<tool, pc, todo, listed, quiet, batchVars, ghidraVars>>

-----------------------------------------------------------------------------
(***************************************************************************)
(* batch_analyze.py                                                        *)
(***************************************************************************)

\* The temporary project is made when there is something to import.
LaunchGhidra ==
    /\ Launch("ghidra", "import")
    /\ project' = IF find_elfs = <<>> THEN project ELSE [p \in {} |-> Absent]
    /\ fresh' = {}
    /\ UNCHANGED <<outdir, batchVars>>

(***************************************************************************)
(* phase_import: what is there when Ghidra looks.  An import that fails is *)
(* warned of at most; no script then writes anything about that file.      *)
(***************************************************************************)
Import ==
    /\ pc = "import"
    /\ project' = [p \in {q \in Paths : IsElf(q)} |-> tree[p]]
    /\ Goes("script")
    /\ UNCHANGED <<todo, outdir, fresh, batchVars>>

\* A script writes a JSON file for each program of the project, or fails for
\* it, or breaks off: of two programs with one name the last one stays.
ScriptOutcomes ==
    LET names == {NameOf[p] : p \in DOMAIN project}
        Programs(n) == {project[p] : p \in {q \in DOMAIN project : NameOf[q] = n}}
    IN  {w \in [names -> {"none", "broken"} \cup {project[p] : p \in DOMAIN project}] :
            \A n \in names : w[n] \in {"none", "broken"} \cup Programs(n)}

\* phase_script: run_headless with -process and one -postScript.
RunScript ==
    /\ pc = "script" /\ todo # <<>>
    /\ LET s == Head(todo)
       IN  \E w \in ScriptOutcomes :
              LET wrote == {n \in DOMAIN w : w[n] # "none"}
                  By(f) == CHOOSE n \in wrote : f = FileName(s, n)
              IN  /\ outdir' = [f \in DOMAIN outdir |->
                         IF f \notin {FileName(s, n) : n \in wrote} THEN outdir[f]
                         ELSE IF w[By(f)] = "broken" THEN Broken
                         ELSE Json(s, By(f), w[By(f)])]
                  /\ fresh' = fresh \cup {[script |-> s, name |-> n, of |-> w[n]] :
                                            n \in {m \in wrote : w[m] # "broken"}}
    /\ todo' = Tail(todo)
    /\ Goes("script")
    /\ UNCHANGED <<project, batchVars>>

\* json.load succeeds: what cannot be read is skipped with a warning.
Readable(f) == outdir[f] # Absent /\ outdir[f] # Broken

\* Every file is filed under its own name.
BugKeyOf(f) == f

\* data.get("binary", json_path.stem)
KeyOf(f) ==
    IF outdir[f].kind \in Kinds /\ outdir[f].binary # NoName THEN outdir[f].binary ELSE f

\* A list has no get: AttributeError.
Mergeable == \A f \in DOMAIN outdir : Readable(f) => outdir[f].kind # "list"

Place(f) == CHOOSE i \in DOMAIN JsonOrder : JsonOrder[i] = f

merge_reports ==
    LET used == {f \in DOMAIN outdir : Readable(f)}
        Of(n, kind) == {f \in used : KeyOf(f) = n /\ outdir[f].kind = kind}
        Latest(fs) == IF fs = {} THEN Absent
                      ELSE outdir[CHOOSE f \in fs : \A g \in fs : Place(g) <= Place(f)].of
    IN  [n \in {KeyOf(f) : f \in used} |->
            [functions |-> Latest(Of(n, "functions")), crypto |-> Latest(Of(n, "crypto"))]]

(***************************************************************************)
(* merge_reports, build_final_report, and report.json written in place:    *)
(* into the directory the JSON files are taken from.                       *)
(***************************************************************************)
Consolidate ==
    /\ pc = "script" /\ todo = <<>>
    /\ \/ /\ Mergeable
          /\ outdir' = [outdir EXCEPT ![own] = [kind |-> "report", summary |-> merge_reports]]
          /\ Goes("clean") /\ UNCHANGED <<todo, batchVars>>
       \/ /\ Mergeable
          /\ outdir' = [outdir EXCEPT ![own] = Broken]
          /\ Dies /\ UNCHANGED output
       \/ /\ ~Mergeable
          /\ Dies /\ UNCHANGED <<outdir, output>>
    /\ UNCHANGED <<project, fresh>>

RemoveProject ==
    /\ pc = "clean"
    /\ project' = Absent
    /\ Exit(0)
    /\ UNCHANGED <<tree, listed, triaged, quiet, runs, changes, outdir, fresh, batchVars>>

\* An hour has passed in analyzeHeadless, or somebody pressed Ctrl-C.
Interrupted ==
    /\ tool # "none"
    /\ Dies
    /\ UNCHANGED <<output, ghidraVars>>

-----------------------------------------------------------------------------
BatchStep == Parse \/ Stat \/ ReadSymbols \/ ScanYara \/ WriteBatch
GhidraStep == Import \/ RunScript \/ Consolidate \/ RemoveProject

Next ==
    \/ LaunchBatch \/ LaunchGhidra \/ \E t \in {"batch", "ghidra"} : LaunchRefused(t)
    \/ \E p \in Paths : Triage(p) \/ \E c \in Replacements : Change(p, c)
    \/ BatchStep \/ GhidraStep
    \/ Interrupted

Spec == Init /\ [][Next]_vars /\ WF_vars(BatchStep) /\ WF_vars(GhidraStep)

-----------------------------------------------------------------------------
(***************************************************************************)
(* Properties.                                                             *)
(***************************************************************************)
Ended(t) == tool = "none" /\ last.tool = t /\ last.exit = 0

\* What a line is to say of a file that stays as it is, but for YARA's matches,
\* which are there if rules were given.
SymbolsRead(f) == IF f.static = 0 THEN NoSymbols ELSE SymbolsOf(f)

ResultOf(p, yara) ==
    LET f == Content[tree[p]]
    IN  IF f.lief
        THEN [path |-> p, error |-> FALSE,
              report |-> Report(p, f, f.size, SymbolsRead(f), yara)]
        ELSE [path |-> p, error |-> TRUE]

\* Listed file i is the last of its name that could be read.
LastOfName(i) ==
    ~output.summary[i].error
    /\ \A j \in DOMAIN listed :
          j > i /\ NameOf[listed[j]] = NameOf[listed[i]] => output.summary[j].error

LineIsTrue(i) ==
    LET line == output.summary[i]
        p == listed[i]
        details == output.details[NameOf[p]]
    IN  /\ line.name = NameOf[p]
        /\ quiet => line = Line(ResultOf(p, line.yara))
        /\ LastOfName(i) =>
              /\ NameOf[p] \in DOMAIN output.details
              /\ details.path = p
              /\ line = Line([path |-> p, error |-> FALSE, report |-> details])
              /\ quiet => details = ResultOf(p, details.yara).report

(***************************************************************************)
(* The checkpoint's report has one line for each ELF file that was found,  *)
(* in their order, an error among them, and if nobody touched the          *)
(* directory each line is the one of its file.  The details under a name   *)
(* are those of the last file of that name that could be read, the same    *)
(* that its line was made of; the others of that name have none, although  *)
(* 35-automatisation-scripting/checkpoint.md:29 asks for the details of    *)
(* each binary (ch35-checkpoint-batch.py:355-466, 577-603).                *)
(***************************************************************************)
SummaryIsTrue ==
    Ended("batch") /\ listed # <<>> =>
        /\ output # Broken
        /\ Len(output.summary) = Len(listed) /\ output.found = Len(listed)
        /\ \A i \in DOMAIN listed : LineIsTrue(i)

(***************************************************************************)
(* triage.py and the checkpoint, written apart, agree on a file nobody     *)
(* touched: both refuse it or neither does, both read the same size,       *)
(* protections, sections and libraries from it, every family of triage's   *)
(* smaller dictionary is one of the checkpoint's, and where pyelftools can *)
(* read the whole symbol table, its functions and the five largest are the *)
(* same (ch35-checkpoint-batch.py:151-310; triage.py:104-328).             *)
(***************************************************************************)
TriageAgrees ==
    /\ last.tool = "triage" /\ tool # "batch"
    /\ quiet /\ \E i \in DOMAIN listed : listed[i] = triaged.path
    =>  LET n == NameOf[triaged.path]
            mine == triaged.report
            of == output.details[n]
        IN  /\ ~triaged.error =>
                  /\ n \in DOMAIN output.details
                  /\ of.path = triaged.path =>
                        /\ mine.size = of.size /\ mine.protections = of.protections
                        /\ mine.strip = of.strip /\ mine.high_entropy = of.high_entropy
                        /\ mine.libraries = of.libraries /\ mine.total = of.total
                        /\ DOMAIN mine.families \subseteq DOMAIN of.families
                        /\ of.symbols = NoSymbols \/ mine.symbols = of.symbols
            /\ triaged.error /\ n \in DOMAIN output.details => of.path # triaged.path

\* The report says what a script's file says.
Reported(r) ==
    /\ r.name \in DOMAIN outdir[own].summary
    /\ outdir[own].summary[r.name][KindOf(r.script)] = r.of

\* Some file of whatever origin is read after the script's and says something
\* of the same kind about the same name.
Overridden(r) ==
    \E f \in DOMAIN outdir :
        /\ Place(FileName(r.script, r.name)) < Place(f)
        /\ Readable(f) /\ outdir[f].kind = KindOf(r.script)
        /\ \/ outdir[f].binary = r.name
           \/ outdir[f].binary = NoName /\ f = r.name

(***************************************************************************)
(* What a run of batch_analyze.py that ended well leaves: no project, and  *)
(* a report that can be read, in which what a script has just written      *)
(* about a binary stands, whatever earlier runs, other scripts and broken  *)
(* files left in the directory, unless a file that is read later says the  *)
(* same kind of thing about the same name: the x_functions.json of an      *)
(* earlier run takes the place of the x.json that batch_export.py has just *)
(* written (batch_analyze.py:187-236, 351-386).                            *)
(***************************************************************************)
FreshResultsWin ==
    Ended("ghidra") /\ listed # <<>> =>
        /\ project = Absent
        /\ outdir[own].kind = "report"
        /\ \A r \in fresh : Overridden(r) \/ Reported(r)

(***************************************************************************)
(* A run of either tool that dies before it has its results, for a file    *)
(* that is gone, a JSON list, a timeout or a signal, leaves the report of  *)
(* the run before; one that ends with 0 never leaves half a report         *)
(* (ch35-checkpoint-batch.py:609-616; batch_analyze.py:108-114, 360-366).  *)
(***************************************************************************)
DeathKeepsReports ==
    [][/\ output' # output => todo = <<>> /\ tool = "batch" /\ (output' = Broken => last'.exit = 1)
       /\ outdir'[own] # outdir[own] =>
             todo = <<>> /\ tool = "ghidra" /\ (outdir'[own] = Broken => last'.exit = 1)]_vars

(***************************************************************************)
(* Whatever happens to the directory and to the tools that are called,     *)
(* every run ends (batch_analyze.py:113).                                  *)
(***************************************************************************)
EveryRunEnds == tool # "none" ~> tool = "none"
=============================================================================
