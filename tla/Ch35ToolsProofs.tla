--------------------------- MODULE Ch35ToolsProofs ---------------------------
(***************************************************************************)
(* Theorems about the files the tools of chapter 35 leave behind, for      *)
(* every directory, every change to it, and any number of runs.            *)
(***************************************************************************)
EXTENDS Ch35Tools, SequenceTheorems, FiniteSetTheorems, WellFoundedInduction, TLAPS

(***************************************************************************)
(* Which tool stands where, what the Ghidra project may hold by then, and  *)
(* that the scripts still to run are some of those that were given: their  *)
(* files are never report.json.                                            *)
(***************************************************************************)
Ours == {Scripts[i] : i \in DOMAIN Scripts}

Places ==
    /\ tool \in {"none", "batch", "ghidra"}
    /\ pc \in {"parse", "stat", "symbols", "yara"} => tool = "batch"
    /\ pc \in {"import", "script", "clean"} => tool = "ghidra"
    /\ pc = "script" => DOMAIN project \subseteq Paths
    /\ tool = "ghidra" => todo \in Seq(Ours)
    /\ DOMAIN outdir = Files

\* What RemoveProject left stays removed until the next project.
Removed == Ended("ghidra") /\ listed # <<>> => project = Absent

IInv == Places /\ Removed

-----------------------------------------------------------------------------
Names == {NameOf[p] : p \in Paths}

OneName == [1..1 -> STRING]

LEMMA ScriptsGiven == Scripts \in Seq(Ours) /\ Ours \subseteq {"export", "functions", "crypto"}
<1>1. /\ Len(Scripts) \in Nat /\ DOMAIN Scripts = 1..Len(Scripts)
      /\ Scripts \in [1..Len(Scripts) -> {"export", "functions", "crypto"}]
    BY ScriptsAssumption, LenProperties
<1>2. Scripts \in [1..Len(Scripts) -> Ours]
    BY <1>1 DEF Ours
<1> QED BY <1>1, <1>2, SeqDef DEF Ours

LEMMA HeadAndTail ==
    ASSUME NEW S, NEW s \in Seq(S), s # <<>>
    PROVE  /\ Len(s) \in Nat /\ Len(s) >= 1 /\ Head(s) = s[1] /\ Head(s) \in S
           /\ Tail(s) \in Seq(S) /\ Len(Tail(s)) = Len(s) - 1
           /\ \A i \in 1..Len(Tail(s)) : Tail(s)[i] = s[i + 1]
BY HeadTailProperties, LenProperties

\* A file is named after a binary and a script, or after a binary alone.
LEMMA FileOf ==
    ASSUME NEW n \in OneName, NEW s
    PROVE  /\ Len(n) = 1
           /\ Append(n, s)[1] = n[1] /\ Append(n, s)[2] = s /\ Len(Append(n, s)) = 2
<1> DEFINE S == STRING \cup {s}
<1>1. n \in [1..1 -> S] /\ s \in S
    BY DEF OneName
<1> HIDE DEF S
<1>2. n \in Seq(S)
    BY <1>1, SeqDef
<1>3. Len(n) = 1
  <2>1. Len(n) \in Nat /\ 1..Len(n) = 1..1
      BY <1>1, <1>2, LenProperties
  <2>2. 1 \in 1..Len(n) /\ Len(n) \in 1..Len(n)
      BY <2>1
  <2> QED BY <2>1, <2>2
<1>4. /\ Len(Append(n, s)) = Len(n) + 1
      /\ \A i \in 1..Len(n) : Append(n, s)[i] = n[i]
      /\ Append(n, s)[Len(n) + 1] = s
    BY <1>1, <1>2, AppendProperties
<1> QED BY <1>3, <1>4

\* Different names or scripts, different files.
LEMMA FilesApart ==
    ASSUME NEW n \in Names, NEW m \in Names, NEW s \in Ours, NEW t \in Ours,
           FileName(s, n) = FileName(t, m)
    PROVE  n = m /\ s = t
<1>1. n \in OneName /\ m \in OneName
    BY NamesAssumption DEF Names, OneName
<1>2. CASE s = "export" /\ t = "export"
    BY <1>2 DEF FileName
<1>3. CASE s = "export" /\ t # "export"
    BY <1>1, <1>3, FileOf DEF FileName
<1>4. CASE s # "export" /\ t = "export"
    BY <1>1, <1>4, FileOf DEF FileName
<1>5. CASE s # "export" /\ t # "export"
  <2>1. Append(n, s) = Append(m, t)
      BY <1>5 DEF FileName
  <2>2. n[1] = m[1] /\ s = t
      BY <1>1, <2>1, FileOf
  <2> QED BY <1>1, <2>2 DEF OneName
<1> QED BY <1>2, <1>3, <1>4, <1>5

(***************************************************************************)
(* What script s writes: whole files about some programs of the project,   *)
(* broken ones about others, and nothing elsewhere.                        *)
(***************************************************************************)
Writes(s, wrote, whole, of) ==
    /\ wrote \in SUBSET Names /\ whole \in SUBSET wrote
    /\ \A n \in whole : /\ outdir'[FileName(s, n)] = Json(s, n, of[n])
                        /\ of[n] \in {project[p] : p \in DOMAIN project}
    /\ \A f \in Files : (\A n \in wrote : f # FileName(s, n)) => outdir'[f] = outdir[f]
    /\ fresh' = fresh \cup {[script |-> s, name |-> n, of |-> of[n]] : n \in whole}
    /\ DOMAIN outdir' = Files

LEMMA ScriptWrites ==
    ASSUME Places, RunScript
    PROVE  /\ Head(todo) \in Ours
           /\ \E wrote, whole, of : Writes(Head(todo), wrote, whole, of)
<1>1. /\ todo \in Seq(Ours) /\ todo # <<>>
      /\ DOMAIN project \subseteq Paths /\ DOMAIN outdir = Files
    BY DEF RunScript, Places
<1> PICK s : s = Head(todo)
    OBVIOUS
<1>2. s \in Ours
    BY <1>1, HeadAndTail
<1> DEFINE wroteOf(w) == {n \in DOMAIN w : w[n] # "none"}
           wholeOf(w) == {n \in wroteOf(w) : w[n] # "broken"}
           By(w, f) == CHOOSE n \in wroteOf(w) : f = FileName(s, n)
<1>3. PICK w \in ScriptOutcomes :
          /\ outdir' = [f \in DOMAIN outdir |->
                 IF f \notin {FileName(s, n) : n \in wroteOf(w)} THEN outdir[f]
                 ELSE IF w[By(w, f)] = "broken" THEN Broken
                 ELSE Json(s, By(w, f), w[By(w, f)])]
          /\ fresh' = fresh \cup {[script |-> s, name |-> n, of |-> w[n]] : n \in wholeOf(w)}
    BY DEF RunScript
<1> DEFINE wrote == wroteOf(w)
           whole == wholeOf(w)
<1>4. /\ DOMAIN w = {NameOf[p] : p \in DOMAIN project}
      /\ \A n \in DOMAIN w : w[n] \in {"none", "broken"}
                                 \cup {project[p] : p \in {q \in DOMAIN project : NameOf[q] = n}}
    BY <1>3 DEF ScriptOutcomes
<1>5. wrote \in SUBSET Names /\ whole \in SUBSET wrote
    BY <1>1, <1>4 DEF Names
<1>6. ASSUME NEW n \in whole
      PROVE  /\ outdir'[FileName(s, n)] = Json(s, n, w[n])
             /\ w[n] \in {project[p] : p \in DOMAIN project}
  <2> DEFINE f == FileName(s, n)
  <2>1. n \in wrote /\ n \in DOMAIN w /\ w[n] \notin {"none", "broken"}
      OBVIOUS
  <2>2. By(w, f) \in wrote /\ f = FileName(s, By(w, f))
      BY <2>1
  <2>3. By(w, f) = n
    <3> PICK m : m = By(w, f)
        OBVIOUS
    <3> QED BY <1>2, <1>5, <2>1, <2>2, FilesApart
  <2>4. f \in Files /\ f \in {FileName(s, k) : k \in wrote}
      BY <1>2, <1>5, <2>1, FilesAssumption DEF Ours, Names
  <2>5. outdir'[f] = Json(s, n, w[n])
      BY <1>1, <1>3, <2>1, <2>3, <2>4
  <2> QED BY <1>4, <2>1, <2>5
<1>7. \A f \in Files : (\A n \in wrote : f # FileName(s, n)) => outdir'[f] = outdir[f]
    BY <1>1, <1>3
<1>8. DOMAIN outdir' = Files
    BY <1>1, <1>3
<1> HIDE DEF wrote, whole
<1>9. fresh' = fresh \cup {[script |-> s, name |-> n, of |-> w[n]] : n \in whole}
    BY <1>3 DEF wrote, whole
<1>10. Writes(s, wrote, whole, w)
    BY <1>5, <1>6, <1>7, <1>8, <1>9 DEF Writes
<1> QED BY <1>2, <1>10

\* A script leaves report.json as it is.
LEMMA ScriptLeavesOwn ==
    ASSUME Places, RunScript
    PROVE  DOMAIN outdir' = Files /\ outdir'[own] = outdir[own]
<1>1. PICK wrote, whole, of : Writes(Head(todo), wrote, whole, of)
    BY ScriptWrites
<1>2. \A n \in wrote : own # FileName(Head(todo), n)
    BY <1>1, ScriptWrites, FilesAssumption DEF Writes, Ours, Names
<1> QED BY <1>1, <1>2, FilesAssumption DEF Writes

-----------------------------------------------------------------------------
LEMMA IInvInit == Init => IInv
BY OutputsAssumption DEF Init, IInv, Places, Removed, Ended

\* What leaves Places and Removed alone.
LEMMA Elsewhere ==
    ASSUME IInv, UNCHANGED <<pc, tool, todo, project, outdir, listed, last>>
    PROVE  IInv'
BY DEF IInv, Places, Removed, Ended

\* A tool that is cut off does not exit with 0.
LEMMA DeathKeeps ==
    ASSUME IInv, Dies, DOMAIN outdir' = Files
    PROVE  IInv'
BY DEF IInv, Places, Removed, Ended, Dies, Exit

LEMMA LaunchKeeps ==
    ASSUME IInv, LaunchBatch \/ LaunchGhidra \/ \E t \in {"batch", "ghidra"} : LaunchRefused(t)
    PROVE  IInv'
<1>1. /\ tool = "none" /\ DOMAIN outdir' = Files
      /\ pc \notin {"parse", "stat", "symbols", "yara", "import", "script", "clean"}
    BY DEF LaunchBatch, LaunchGhidra, Launch, LaunchRefused, Start, ghidraVars, IInv, Places
<1>2. CASE LaunchBatch
    BY <1>1, <1>2 DEF LaunchBatch, Launch, Start, ghidraVars, IInv, Places, Removed, Ended
<1>3. CASE LaunchGhidra
    BY <1>1, <1>3, ScriptsGiven DEF LaunchGhidra, Launch, Start, IInv, Places, Removed, Ended
<1>4. CASE \E t \in {"batch", "ghidra"} : LaunchRefused(t)
    BY <1>1, <1>4 DEF LaunchRefused, Start, ghidraVars, IInv, Places, Removed, Ended
<1> QED BY <1>2, <1>3, <1>4

LEMMA BatchKeeps ==
    ASSUME IInv, BatchStep
    PROVE  IInv'
<1> USE DEF ghidraVars, IInv
<1>1. tool = "batch" /\ DOMAIN outdir' = Files /\ UNCHANGED <<project, outdir>>
    BY DEF BatchStep, Parse, Stat, ReadSymbols, ScanYara, WriteBatch, Places
<1>2. CASE Dies
    BY <1>1, <1>2, DeathKeeps
<1>3. CASE Goes("parse") \/ Goes("stat") \/ Goes("symbols") \/ Goes("yara")
    BY <1>1, <1>3 DEF Goes, shellVars, Places, Removed, Ended
<1>4. CASE Exit(0) /\ UNCHANGED listed
    BY <1>1, <1>4 DEF Exit, Places, Removed, Ended
<1> QED BY <1>2, <1>3, <1>4 DEF BatchStep, Parse, Stat, ReadSymbols, ScanYara, WriteBatch, Finished

LEMMA GhidraKeeps ==
    ASSUME IInv, GhidraStep
    PROVE  IInv'
<1> USE DEF IInv
<1>1. CASE Import
  <2>1. DOMAIN project' \subseteq Paths
      BY <1>1 DEF Import
  <2> QED BY <1>1, <2>1 DEF Import, Goes, shellVars, Places, Removed, Ended
<1>2. CASE RunScript
  <2>1. DOMAIN outdir' = Files /\ todo' \in Seq(Ours)
      BY <1>2, ScriptLeavesOwn, HeadAndTail DEF RunScript, Places
  <2> QED BY <1>2, <2>1 DEF RunScript, Goes, shellVars, Places, Removed, Ended
<1>3. CASE Consolidate
  <2>1. DOMAIN outdir' = Files /\ UNCHANGED project
      BY <1>3 DEF Consolidate, Places
  <2>2. CASE Dies
      BY <2>1, <2>2, DeathKeeps
  <2>3. CASE Goes("clean") /\ UNCHANGED todo
      BY <1>3, <2>1, <2>3 DEF Consolidate, Goes, shellVars, Places, Removed, Ended
  <2> QED BY <1>3, <2>2, <2>3 DEF Consolidate
<1>4. CASE RemoveProject
    BY <1>4 DEF RemoveProject, Exit, Places, Removed
<1> QED BY <1>1, <1>2, <1>3, <1>4 DEF GhidraStep

LEMMA IInvNext == IInv /\ [Next]_vars => IInv'
<1> SUFFICES ASSUME IInv, [Next]_vars PROVE IInv'
    OBVIOUS
<1>1. CASE LaunchBatch \/ LaunchGhidra \/ \E t \in {"batch", "ghidra"} : LaunchRefused(t)
    BY <1>1, LaunchKeeps
<1>2. ASSUME NEW p \in Paths, Triage(p) PROVE IInv'
    BY <1>2 DEF Triage, Start, ghidraVars, IInv, Places, Removed, Ended
<1>3. ASSUME NEW p \in Paths, NEW c \in Replacements, Change(p, c) PROVE IInv'
    BY <1>3, Elsewhere DEF Change, ghidraVars
<1>4. CASE BatchStep
    BY <1>4, BatchKeeps
<1>5. CASE GhidraStep
    BY <1>5, GhidraKeeps
<1>6. CASE Interrupted
    BY <1>6, DeathKeeps DEF Interrupted, ghidraVars, IInv, Places
<1>7. CASE UNCHANGED vars
    BY <1>7, Elsewhere DEF vars, ghidraVars, shellVars
<1> QED BY <1>1, <1>2, <1>3, <1>4, <1>5, <1>6, <1>7 DEF Next

(***************************************************************************)
(* The tools stand where their tool says, a project holds files of the     *)
(* directory, and report.json keeps its place.                             *)
(***************************************************************************)
THEOREM Invariant == Spec => []IInv
<1>1. Init => IInv
    BY IInvInit
<1>2. IInv /\ [Next]_vars => IInv'
    BY IInvNext
<1> QED BY <1>1, <1>2, PTL DEF Spec

(***************************************************************************)
(* No run of batch_analyze.py that ends with 0 leaves its temporary        *)
(* project, whatever the runs before it left (batch_analyze.py:375-386).   *)
(***************************************************************************)
THEOREM NoProjectLeft == Spec => [](Ended("ghidra") /\ listed # <<>> => project = Absent)
<1>1. IInv => (Ended("ghidra") /\ listed # <<>> => project = Absent)
    BY DEF IInv, Removed
<1> QED BY <1>1, Invariant, PTL

-----------------------------------------------------------------------------
\* What a step may do to the two reports.
Kept ==
    /\ output' # output => todo = <<>> /\ tool = "batch" /\ (output' = Broken => last'.exit = 1)
    /\ outdir'[own] # outdir[own] =>
          todo = <<>> /\ tool = "ghidra" /\ (outdir'[own] = Broken => last'.exit = 1)

\* Only the write at the end of a run touches the report of --output.
LEMMA BatchReportKept ==
    ASSUME BatchStep
    PROVE  Kept
<1>1. UNCHANGED outdir
    BY DEF BatchStep, Parse, Stat, ReadSymbols, ScanYara, WriteBatch, ghidraVars
<1>2. CASE WriteBatch
  <2>1. todo = <<>> /\ tool = "batch"
      BY <1>2 DEF WriteBatch
  <2>2. output' = Broken => last'.exit = 1
    <3>1. CASE Dies
        BY <3>1 DEF Dies, Exit
    <3>2. CASE output' = [kind |-> "whole", found |-> Len(listed),
                          summary |-> build_summary(results), details |-> Details(results)]
        BY <3>2 DEF Broken
    <3> QED BY <1>2, <3>1, <3>2 DEF WriteBatch
  <2> QED BY <1>1, <2>1, <2>2 DEF Kept
<1>3. CASE Parse \/ Stat \/ ReadSymbols \/ ScanYara
    BY <1>1, <1>3 DEF Parse, Stat, ReadSymbols, ScanYara, Kept
<1> QED BY <1>2, <1>3 DEF BatchStep

\* Only Consolidate touches report.json.
LEMMA GhidraReportKept ==
    ASSUME IInv, GhidraStep
    PROVE  Kept
<1>1. UNCHANGED output
    BY DEF GhidraStep, Import, RunScript, Consolidate, RemoveProject, batchVars, Dies
<1>2. CASE Consolidate
  <2>1. todo = <<>> /\ tool = "ghidra"
      BY <1>2 DEF Consolidate, IInv, Places
  <2>2. outdir'[own] # outdir[own] /\ outdir'[own] = Broken => last'.exit = 1
    <3>1. CASE Dies
        BY <3>1 DEF Dies, Exit
    <3>2. CASE outdir' = [outdir EXCEPT ![own] = [kind |-> "report", summary |-> merge_reports]]
      <4>1. outdir'[own] = [kind |-> "report", summary |-> merge_reports]
          BY <3>2, FilesAssumption DEF IInv, Places
      <4> QED BY <4>1 DEF Broken
    <3> QED BY <1>2, <3>1, <3>2 DEF Consolidate
  <2> QED BY <1>1, <2>1, <2>2 DEF Kept
<1>3. CASE RunScript
    BY <1>1, <1>3, ScriptLeavesOwn DEF Kept, IInv
<1>4. CASE Import \/ RemoveProject
    BY <1>1, <1>4 DEF Import, RemoveProject, Kept
<1> QED BY <1>2, <1>3, <1>4 DEF GhidraStep

(***************************************************************************)
(* DeathKeepsReports: for any number of runs over any directory, a run     *)
(* that dies before it has its results leaves the report of the run before *)
(* (ch35-checkpoint-batch.py:609-616; batch_analyze.py:108-114, 360-366).  *)
(***************************************************************************)
THEOREM ReportsSurviveDeath == Spec => DeathKeepsReports
<1>1. IInv /\ [Next]_vars => [Kept]_vars
  <2> SUFFICES ASSUME IInv, Next PROVE Kept
      OBVIOUS
  <2>1. CASE BatchStep
      BY <2>1, BatchReportKept
  <2>2. CASE GhidraStep
      BY <2>2, GhidraReportKept
  <2>3. CASE UNCHANGED <<output, outdir>>
      BY <2>3 DEF Kept
  <2> QED BY <2>1, <2>2, <2>3
          DEF Next, LaunchBatch, LaunchGhidra, LaunchRefused, Triage, Change, Interrupted,
              batchVars, ghidraVars
<1> QED BY <1>1, Invariant, PTL DEF Spec, DeathKeepsReports, Kept

-----------------------------------------------------------------------------
(***************************************************************************)
(* Induction, by the least number for which a statement fails.             *)
(***************************************************************************)
LEMMA LeastNumber ==
    ASSUME NEW T \in SUBSET Nat, T # {}
    PROVE  \E x \in T : \A y \in T : x <= y
<1> DEFINE R == OpToRel(<, Nat)
<1>1. R = {ss \in Nat \X Nat : ss[1] < ss[2]}
    BY DEF OpToRel
<1>2. IsWellFoundedOn(R, Nat)
    BY NatLessThanWellFounded
<1> HIDE DEF R
<1>3. PICK x \in T : \A y \in T : ~ (<<y, x>> \in R)
    BY <1>2, WFMin
<1>4. \A y \in T : <<y, x>> \in Nat \X Nat /\ <<y, x>>[1] = y /\ <<y, x>>[2] = x
    OBVIOUS
<1>5. \A y \in T : ~ (y < x)
    BY <1>1, <1>3, <1>4
<1> QED BY <1>5

\* A function with its value at n made from its value at n - 1.
NextElfs(f, n) ==
    IF n = 0 THEN <<>>
    ELSE IF IsElf(Order[n]) THEN Append(f[n - 1], Order[n]) ELSE f[n - 1]

LEMMA ElfsDefined ==
    ASSUME Len(Order) \in Nat
    PROVE  elfs = [n \in 0..Len(Order) |-> NextElfs(elfs, n)]
<1> DEFINE Exist(k) == \E f : f = [n \in 0..k |-> NextElfs(f, n)]
           Bad == {k \in Nat : ~Exist(k)}
<1>1. Exist(0)
  <2> DEFINE f == [n \in 0..0 |-> <<>>]
  <2>1. f = [n \in 0..0 |-> NextElfs(f, n)]
      BY DEF NextElfs
  <2> QED BY <2>1
<1>2. ASSUME NEW k \in Nat, Exist(k) PROVE Exist(k + 1)
  <2>1. PICK f : f = [n \in 0..k |-> NextElfs(f, n)]
      BY <1>2
  <2> DEFINE g == [n \in 0..k + 1 |-> IF n = k + 1 THEN NextElfs(f, n) ELSE f[n]]
  <2>2. \A n \in 0..k : g[n] = f[n]
      OBVIOUS
  <2>3. \A n \in 0..k + 1 : NextElfs(g, n) = NextElfs(f, n)
      BY <2>2 DEF NextElfs
  <2>4. \A n \in 0..k : f[n] = NextElfs(f, n)
      BY <2>1
  <2>5. \A n \in 0..k + 1 : g[n] = NextElfs(g, n)
      BY <2>2, <2>3, <2>4
  <2>6. g = [n \in 0..k + 1 |-> NextElfs(g, n)]
      BY <2>5
  <2> QED BY <2>6
<1> HIDE DEF Exist
<1>3. Bad = {}
  <2> SUFFICES ASSUME Bad # {} PROVE FALSE
      OBVIOUS
  <2>1. PICK k \in Bad : \A j \in Bad : k <= j
      BY LeastNumber
  <2>2. k # 0 /\ k - 1 \in Nat /\ k - 1 \notin Bad
      BY <1>1, <2>1
  <2> QED BY <1>2, <2>1, <2>2
<1>4. Exist(Len(Order))
    BY <1>3
<1> QED BY <1>4 DEF Exist, elfs, NextElfs

\* What find_elfs returns.
LEMMA ElfsFound ==
    ASSUME Order \in Seq(Paths)
    PROVE  find_elfs \in Seq({p \in Paths : IsElf(p)})
<1> DEFINE S == {p \in Paths : IsElf(p)}
           Bad == {k \in 0..Len(Order) : elfs[k] \notin Seq(S)}
<1>1. Len(Order) \in Nat /\ \A n \in 1..Len(Order) : Order[n] \in Paths
    BY LenProperties
<1>2. \A n \in 0..Len(Order) : elfs[n] = NextElfs(elfs, n)
    BY <1>1, ElfsDefined
<1>3. elfs[0] \in Seq(S)
  <2>1. 0 \in 0..Len(Order)
      BY <1>1
  <2>2. elfs[0] = <<>>
      BY <1>2, <2>1 DEF NextElfs
  <2> HIDE DEF S
  <2> QED BY <2>2
<1>4. ASSUME NEW n \in 1..Len(Order), elfs[n - 1] \in Seq(S) PROVE elfs[n] \in Seq(S)
  <2>1. CASE IsElf(Order[n])
    <3>1. n \in 0..Len(Order) /\ n # 0
        BY <1>1
    <3>2. elfs[n] = Append(elfs[n - 1], Order[n])
        BY <1>2, <2>1, <3>1 DEF NextElfs
    <3>3. Order[n] \in S
        BY <1>1, <2>1
    <3> HIDE DEF S
    <3> QED BY <1>4, <3>2, <3>3, AppendProperties
  <2>2. CASE ~IsElf(Order[n])
      BY <1>1, <1>2, <1>4, <2>2 DEF NextElfs
  <2> QED BY <2>1, <2>2
<1> HIDE DEF S
<1>5. Bad = {}
  <2> SUFFICES ASSUME Bad # {} PROVE FALSE
      OBVIOUS
  <2>1. Bad \in SUBSET Nat
      BY <1>1
  <2>2. PICK k \in Bad : \A j \in Bad : k <= j
      BY <2>1, LeastNumber
  <2>3. k \in 1..Len(Order) /\ k - 1 \in 0..Len(Order) /\ k - 1 \notin Bad
      BY <1>1, <1>3, <2>2
  <2> QED BY <1>4, <2>2, <2>3
<1>6. elfs[Len(Order)] \in Seq(S)
    BY <1>1, <1>5
<1> QED BY <1>6 DEF find_elfs, S

-----------------------------------------------------------------------------
(***************************************************************************)
(* The loop of the checkpoint: every path that was listed is a result or   *)
(* still to do, in the order of the list; and while nobody touches the     *)
(* directory, what was read so far belongs to one and the same file.       *)
(***************************************************************************)
IsSequence(s) == Len(s) \in Nat /\ s = [i \in 1..Len(s) |-> s[i]]

\* The result a file that stays as it is leads to.
TrueResult(r, p) == r = ResultOf(p, r.report.yara)

AtFile == pc \in {"stat", "symbols", "yara"}

Walk ==
    /\ listed \in Seq(Paths)
    /\ tool = "batch" =>
          /\ todo \in Seq(Paths) /\ IsSequence(results)
          /\ Len(results) + Len(todo) = Len(listed)
          /\ \A i \in 1..Len(results) :
                /\ results[i].path = listed[i]
                /\ results[i].error \/ results[i].report.path = listed[i]
          /\ \A i \in 1..Len(todo) : todo[i] = listed[Len(results) + i]
    /\ tool # "batch" => results = <<>>
    /\ AtFile => todo # <<>> /\ current.path = Head(todo)

Reading ==
    quiet =>
        /\ \A i \in DOMAIN listed : IsElf(listed[i])
        /\ tool = "batch" => \A i \in 1..Len(results) : TrueResult(results[i], listed[i])
        /\ LET f == Content[tree[current.path]]
           IN  /\ AtFile => current.parsed = tree[current.path] /\ f.lief
               /\ pc \in {"symbols", "yara"} => current.sized = f.size
               /\ pc = "yara" => current.symbols = SymbolsRead(f)

BatchInv == Walk /\ Reading /\ SummaryIsTrue

LEMMA Appended ==
    ASSUME NEW s, IsSequence(s), NEW e
    PROVE  /\ IsSequence(Append(s, e)) /\ Len(Append(s, e)) = Len(s) + 1
           /\ \A i \in 1..Len(s) : Append(s, e)[i] = s[i]
           /\ Append(s, e)[Len(s) + 1] = e
<1> DEFINE S == {s[i] : i \in 1..Len(s)} \cup {e}
<1>1. s \in [1..Len(s) -> S] /\ Len(s) \in Nat /\ e \in S
    BY DEF IsSequence
<1> HIDE DEF S
<1>2. s \in Seq(S)
    BY <1>1, SeqDef
<1>3. /\ Append(s, e) \in Seq(S)
      /\ Len(Append(s, e)) = Len(s) + 1
      /\ \A i \in 1..Len(s) : Append(s, e)[i] = s[i]
      /\ Append(s, e)[Len(s) + 1] = e
    BY <1>1, <1>2, AppendProperties
<1>4. Append(s, e) = [i \in 1..Len(Append(s, e)) |-> Append(s, e)[i]] /\ Len(Append(s, e)) \in Nat
    BY <1>3, LenProperties
<1> QED BY <1>3, <1>4 DEF IsSequence

\* The next path is the next of the list.
LEMMA NextPath ==
    ASSUME Walk, tool = "batch", todo # <<>>
    PROVE  /\ Len(results) \in Nat /\ Len(results) + 1 \in DOMAIN listed
           /\ Head(todo) = listed[Len(results) + 1]
<1>1. Len(todo) \in Nat /\ Len(todo) >= 1 /\ Head(todo) = todo[1]
    BY HeadAndTail DEF Walk
<1>2. Len(listed) \in Nat /\ DOMAIN listed = 1..Len(listed)
    BY LenProperties DEF Walk
<1>3. Len(results) \in Nat /\ Len(results) + Len(todo) = Len(listed)
    BY DEF Walk, IsSequence
<1>4. Len(results) + 1 \in DOMAIN listed
    BY <1>1, <1>2, <1>3
<1>5. 1 \in 1..Len(todo)
    BY <1>1
<1> QED BY <1>1, <1>3, <1>4, <1>5 DEF Walk

(***************************************************************************)
(* A result for the next path, true if nobody touched the directory.       *)
(***************************************************************************)
LEMMA FinishedKeeps ==
    ASSUME Walk, Reading, tool = "batch", todo # <<>>,
           NEW r, Finished(r), r.path = Head(todo), quiet => TrueResult(r, Head(todo)),
           r.error \/ r.report.path = Head(todo)
    PROVE  BatchInv'
<1>1. /\ results' = Append(results, r) /\ todo' = Tail(todo) /\ pc' = "parse"
      /\ UNCHANGED <<tree, tool, listed, quiet>>
    BY DEF Finished, Goes, shellVars
<1>2. /\ IsSequence(results') /\ Len(results') = Len(results) + 1
      /\ \A i \in 1..Len(results) : results'[i] = results[i]
      /\ results'[Len(results) + 1] = r
    BY <1>1, Appended DEF Walk
<1>3. /\ Len(todo) \in Nat /\ todo' \in Seq(Paths) /\ Len(todo') = Len(todo) - 1
      /\ \A i \in 1..Len(todo') : todo'[i] = todo[i + 1]
    BY <1>1, HeadAndTail DEF Walk
<1>4. Len(results) \in Nat /\ Head(todo) = listed[Len(results) + 1]
    BY NextPath
<1>5. ASSUME NEW i \in 1..Len(results')
      PROVE  /\ results'[i].path = listed[i] /\ (quiet => TrueResult(results'[i], listed[i]))
             /\ results'[i].error \/ results'[i].report.path = listed[i]
  <2>1. CASE i \in 1..Len(results)
      BY <1>2, <2>1 DEF Walk, Reading
  <2>2. CASE i = Len(results) + 1
      BY <1>2, <1>4, <2>2
  <2> QED BY <1>2, <1>4, <2>1, <2>2
<1>6. ASSUME NEW i \in 1..Len(todo')
      PROVE  todo'[i] = listed'[Len(results') + i]
  <2>1. i + 1 \in 1..Len(todo)
      BY <1>3
  <2>2. todo[i + 1] = listed[Len(results) + (i + 1)]
      BY <2>1 DEF Walk
  <2>3. Len(results) + (i + 1) = Len(results') + i
      BY <1>2, <1>4
  <2> QED BY <1>1, <1>3, <2>2, <2>3
<1>7. Walk'
  <2>1. Len(results') + Len(todo') = Len(listed')
      BY <1>1, <1>2, <1>3, <1>4 DEF Walk
  <2> QED BY <1>1, <1>2, <1>3, <1>5, <1>6, <2>1 DEF Walk, AtFile
<1>8. ASSUME quiet, NEW i \in 1..Len(results') PROVE TrueResult(results[i], listed[i])'
    BY <1>1, <1>5, <1>8 DEF TrueResult, ResultOf
<1>9. Reading'
    BY <1>1, <1>8 DEF Reading, IsElf, Exists, AtFile
<1>10. SummaryIsTrue'
    BY <1>1 DEF SummaryIsTrue, Ended
<1> QED BY <1>7, <1>9, <1>10 DEF BatchInv

\* One step at the same path.
LEMMA StaysAtPath ==
    ASSUME Walk, tool = "batch", todo # <<>>, NEW place \in {"stat", "symbols", "yara"},
           Goes(place), UNCHANGED <<todo, results>>, current'.path = Head(todo)
    PROVE  Walk' /\ SummaryIsTrue'
<1>1. UNCHANGED <<tool, listed, todo, results>> /\ pc' = place
    BY DEF Goes
<1>2. Walk'
    BY <1>1 DEF Walk, AtFile
<1>3. SummaryIsTrue'
    BY <1>1 DEF SummaryIsTrue, Ended
<1> QED BY <1>2, <1>3

LEMMA ParseKeeps ==
    ASSUME Places, BatchInv, Parse
    PROVE  BatchInv'
<1> DEFINE p == Head(todo)
<1>1. tool = "batch" /\ todo # <<>> /\ Walk /\ Reading
    BY DEF Parse, Places, BatchInv
<1>2. quiet => IsElf(p)
    BY <1>1, NextPath DEF Reading
<1>3. CASE Exists(p) /\ Content[tree[p]].lief
  <2>1. current' = [path |-> p, parsed |-> tree[p]] /\ Goes("stat") /\ UNCHANGED <<todo, results>>
      BY <1>3 DEF Parse
  <2>2. Walk' /\ SummaryIsTrue'
      BY <1>1, <2>1, StaysAtPath
  <2>3. UNCHANGED <<tree, tool, listed, quiet, results>> /\ pc' = "stat"
        /\ current'.path = p /\ current'.parsed = tree[p]
      BY <2>1 DEF Goes, shellVars
  <2>4. Reading'
      BY <1>1, <1>3, <2>3 DEF Reading, AtFile, IsElf, Exists, TrueResult, ResultOf
  <2> QED BY <2>2, <2>4 DEF BatchInv
<1>4. CASE ~(Exists(p) /\ Content[tree[p]].lief)
  <2> DEFINE r == [path |-> p, error |-> TRUE]
  <2>1. Finished(r)
      BY <1>4 DEF Parse
  <2>2. quiet => TrueResult(r, p)
      BY <1>2, <1>4 DEF TrueResult, ResultOf, IsElf
  <2>3. r.path = p /\ r.error
      OBVIOUS
  <2> HIDE DEF r
  <2> QED BY <1>1, <2>1, <2>2, <2>3, FinishedKeeps
<1> QED BY <1>3, <1>4

LEMMA StatKeeps ==
    ASSUME Places, BatchInv, Stat, ~Dies
    PROVE  BatchInv'
<1>1. tool = "batch" /\ todo # <<>> /\ current.path = Head(todo) /\ Walk /\ Reading
    BY DEF Stat, Places, BatchInv, Walk, AtFile
<1>2. /\ current' = [path |-> current.path, parsed |-> current.parsed,
                     sized |-> Content[tree[current.path]].size]
      /\ Goes("symbols") /\ UNCHANGED <<todo, results>>
    BY DEF Stat
<1>3. current'.path = current.path /\ current'.parsed = current.parsed
      /\ current'.sized = Content[tree[current.path]].size
    BY <1>2
<1>4. Walk' /\ SummaryIsTrue'
    BY <1>1, <1>2, <1>3, StaysAtPath
<1>5. UNCHANGED <<tree, tool, listed, quiet, results>> /\ pc' = "symbols" /\ pc = "stat"
    BY <1>2 DEF Goes, shellVars, Stat
<1>6. Reading'
    BY <1>1, <1>3, <1>5 DEF Reading, AtFile, IsElf, Exists, TrueResult, ResultOf
<1> QED BY <1>4, <1>6 DEF BatchInv

LEMMA ReadSymbolsKeeps ==
    ASSUME Places, BatchInv, ReadSymbols
    PROVE  BatchInv'
<1> DEFINE p == current.path
           symbols == IF StripInfo(Content[current.parsed]).stripped \/ ~IsElf(p)
                      THEN NoSymbols ELSE SymbolsOf(Content[tree[p]])
<1>1. tool = "batch" /\ todo # <<>> /\ p = Head(todo) /\ Walk /\ Reading
    BY DEF ReadSymbols, Places, BatchInv, Walk, AtFile
<1>2. /\ current' = [path |-> p, parsed |-> current.parsed, sized |-> current.sized,
                     symbols |-> symbols]
      /\ Goes("yara") /\ UNCHANGED <<todo, results>>
    BY DEF ReadSymbols
<1>3. current'.path = p /\ current'.parsed = current.parsed
      /\ current'.sized = current.sized /\ current'.symbols = symbols
    BY <1>2
<1>4. Walk' /\ SummaryIsTrue'
    BY <1>1, <1>2, <1>3, StaysAtPath
<1>5. UNCHANGED <<tree, tool, listed, quiet, results>> /\ pc' = "yara" /\ pc = "symbols"
    BY <1>2 DEF Goes, shellVars, ReadSymbols
<1>6. quiet => IsElf(p)
    BY <1>1, NextPath DEF Reading
<1>7. quiet => symbols = SymbolsRead(Content[tree[p]])
    BY <1>1, <1>5, <1>6 DEF Reading, AtFile, StripInfo, SymbolsRead
<1> HIDE DEF symbols
<1>8. Reading'
    BY <1>1, <1>3, <1>5, <1>7 DEF Reading, AtFile, IsElf, Exists, TrueResult, ResultOf
<1> QED BY <1>4, <1>8 DEF BatchInv

LEMMA ScanYaraKeeps ==
    ASSUME Places, BatchInv, ScanYara
    PROVE  BatchInv'
<1> DEFINE p == current.path
           Made(yara) == Report(p, Content[current.parsed], current.sized, current.symbols, yara)
<1>1. tool = "batch" /\ todo # <<>> /\ p = Head(todo) /\ Walk /\ Reading
    BY DEF ScanYara, Places, BatchInv, Walk, AtFile
<1>2. PICK yara : Finished([path |-> p, error |-> FALSE, report |-> Made(yara)])
    BY DEF ScanYara
<1> DEFINE r == [path |-> p, error |-> FALSE, report |-> Made(yara)]
<1>3. r.path = p /\ r.report = Made(yara) /\ Made(yara).yara = yara /\ Made(yara).path = p
    BY DEF Report
<1>4. quiet => TrueResult(r, p)
  <2> SUFFICES ASSUME quiet PROVE TrueResult(r, p)
      OBVIOUS
  <2>1. /\ current.parsed = tree[p] /\ Content[tree[p]].lief
        /\ current.sized = Content[tree[p]].size
        /\ current.symbols = SymbolsRead(Content[tree[p]])
      BY <1>1 DEF Reading, AtFile, ScanYara
  <2>2. Made(yara) = Report(p, Content[tree[p]], Content[tree[p]].size,
                            SymbolsRead(Content[tree[p]]), r.report.yara)
      BY <1>3, <2>1
  <2> QED BY <2>1, <2>2 DEF TrueResult, ResultOf
<1>5. Finished(r)
    BY <1>2
<1> HIDE DEF r
<1> QED BY <1>1, <1>3, <1>4, <1>5, FinishedKeeps

-----------------------------------------------------------------------------
LEMMA LineHead ==
    ASSUME NEW r
    PROVE  /\ Line(r).name = NameOf[r.path] /\ (Line(r).error <=> r.error)
           /\ ~r.error => Line(r).yara = r.report.yara
<1>1. CASE r.error
  <2>1. Line(r) = [name |-> NameOf[r.path], error |-> TRUE]
      BY <1>1, Zenon DEF Line
  <2> QED BY <1>1, <2>1
<1>2. CASE ~r.error
  <2>1. Line(r).name = NameOf[r.path]
      BY <1>2 DEF Line
  <2>2. Line(r).yara = r.report.yara
      BY <1>2 DEF Line
  <2>3. Line(r).error = FALSE
      BY <1>2 DEF Line
  <2> QED BY <1>2, <2>1, <2>2, <2>3
<1> QED BY <1>1, <1>2

\* A true result makes a true line.
LEMMA TrueLine ==
    ASSUME NEW r, NEW p, TrueResult(r, p)
    PROVE  Line(r) = Line(ResultOf(p, Line(r).yara))
<1>1. CASE r.error
  <2>1. ~Content[tree[p]].lief
      BY <1>1 DEF TrueResult, ResultOf
  <2>2. r = ResultOf(p, Line(r).yara)
      BY <2>1 DEF TrueResult, ResultOf
  <2> QED BY <2>2
<1>2. CASE ~r.error
    BY <1>2, LineHead DEF TrueResult
<1> QED BY <1>1, <1>2

\* A set of numbers with a bound has a greatest.
LEMMA GreatestNumber ==
    ASSUME NEW m \in Nat, NEW T \in SUBSET (1..m), T # {}
    PROVE  \E x \in T : \A y \in T : y <= x
<1> DEFINE U == {m - y : y \in T}
<1>1. U \in SUBSET Nat /\ U # {}
  <2>1. \A y \in T : m - y \in Nat
      OBVIOUS
  <2> QED BY <2>1
<1>2. PICK u \in U : \A v \in U : u <= v
    BY <1>1, LeastNumber
<1>3. PICK x \in T : u = m - x
    BY <1>2
<1>4. \A y \in T : m - x <= m - y
    BY <1>2, <1>3
<1> QED BY <1>4

\* An entry of the details is the report of a result of that name.
LEMMA DetailsPick ==
    ASSUME NEW rs, NEW m \in Nat, DOMAIN rs = 1..m, NEW n \in DOMAIN Details(rs)
    PROVE  \E i \in 1..m : /\ NameOf[rs[i].path] = n /\ ~rs[i].error
                           /\ Details(rs)[n] = rs[i].report
<1> DEFINE At == {i \in DOMAIN rs : NameOf[rs[i].path] = n /\ ~rs[i].error}
           x == CHOOSE i \in At : \A j \in At : j <= i
<1>1. DOMAIN Details(rs) = {NameOf[rs[i].path] : i \in {j \in DOMAIN rs : ~rs[j].error}}
    BY DEF Details
<1>2. At \in SUBSET (1..m) /\ At # {}
    BY <1>1
<1>3. Details(rs)[n] = rs[x].report
    BY <1>1 DEF Details
<1> HIDE DEF At
<1>4. \E i \in At : \A j \in At : j <= i
    BY <1>2, GreatestNumber
<1>5. x \in At
    BY <1>4
<1> HIDE DEF x
<1> QED BY <1>2, <1>3, <1>5 DEF At

\* Under the name of the last result that is no error is its report.
LEMMA DetailsLast ==
    ASSUME NEW rs, NEW m \in Nat, DOMAIN rs = 1..m, NEW i \in 1..m, ~rs[i].error,
           \A j \in 1..m : j > i /\ NameOf[rs[j].path] = NameOf[rs[i].path] => rs[j].error
    PROVE  /\ NameOf[rs[i].path] \in DOMAIN Details(rs)
           /\ Details(rs)[NameOf[rs[i].path]] = rs[i].report
<1> DEFINE n == NameOf[rs[i].path]
           At == {k \in DOMAIN rs : NameOf[rs[k].path] = n /\ ~rs[k].error}
           x == CHOOSE k \in At : \A j \in At : j <= k
<1>1. n \in DOMAIN Details(rs)
    BY DEF Details
<1>2. i \in At /\ At \subseteq 1..m /\ \A j \in At : j <= i
    OBVIOUS
<1>3. Details(rs)[n] = rs[x].report
    BY <1>1 DEF Details
<1> HIDE DEF At
<1>4. x \in At /\ \A j \in At : j <= x
    BY <1>2
<1> HIDE DEF x
<1>5. x = i
    BY <1>2, <1>4
<1> QED BY <1>1, <1>3, <1>5

\* The report has a line for each path of the list, and the details of the last
\* file of each name that could be read.
LEMMA WriteBatchKeeps ==
    ASSUME Places, BatchInv, WriteBatch, ~Dies
    PROVE  BatchInv'
<1> DEFINE summary == build_summary(results)
<1>1. /\ pc = "parse" /\ todo = <<>> /\ tool = "batch"
      /\ output' = [kind |-> "whole", found |-> Len(listed),
                    summary |-> summary, details |-> Details(results)]
      /\ Exit(0) /\ results' = <<>> /\ UNCHANGED <<tree, listed, quiet>>
    BY DEF WriteBatch
<1>2. Walk /\ Reading
    BY DEF BatchInv
<1>3. /\ Len(listed) \in Nat /\ DOMAIN listed = 1..Len(listed)
      /\ Len(results) = Len(listed) /\ DOMAIN results = 1..Len(listed)
    BY <1>1, <1>2, LenProperties DEF Walk, IsSequence
<1>4. DOMAIN summary = 1..Len(listed) /\ Len(summary) = Len(listed)
  <2> DEFINE S == {Line(results[i]) : i \in 1..Len(listed)}
  <2>1. summary = [i \in 1..Len(listed) |-> Line(results[i])]
      BY <1>3 DEF build_summary
  <2>2. summary \in [1..Len(listed) -> S]
      BY <2>1
  <2> HIDE DEF S, summary
  <2>3. summary \in Seq(S)
      BY <1>3, <2>2, SeqDef
  <2> QED BY <1>3, <2>2, <2>3, LenProperties
<1>5. \A i \in 1..Len(listed) : summary[i] = Line(results[i])
    BY <1>3 DEF build_summary
<1>6. /\ output' # Broken /\ output'.found = Len(listed)
      /\ output'.summary = summary /\ output'.details = Details(results)
    BY <1>1 DEF Broken
<1> HIDE DEF summary
<1>7. ASSUME NEW i \in 1..Len(listed)
      PROVE  summary[i].name = NameOf[listed[i]] /\ (summary[i].error <=> results[i].error)
  <2>1. results[i].path = listed[i]
      BY <1>1, <1>2, <1>3, <1>7 DEF Walk
  <2> QED BY <1>5, <1>7, <2>1, LineHead
<1>8. ASSUME quiet, NEW i \in 1..Len(listed)
      PROVE  summary[i] = Line(ResultOf(listed[i], summary[i].yara))
    BY <1>1, <1>2, <1>3, <1>5, <1>8, TrueLine DEF Reading
<1>9. ASSUME NEW i \in 1..Len(listed), LastOfName(i)'
      PROVE  LET p == listed[i]
                 details == Details(results)[NameOf[p]]
             IN  /\ NameOf[p] \in DOMAIN Details(results)
                 /\ details.path = p
                 /\ summary[i] = Line([path |-> p, error |-> FALSE, report |-> details])
                 /\ quiet => details = ResultOf(p, details.yara).report
  <2> DEFINE r == results[i]
  <2>1. r.path = listed[i] /\ ~r.error /\ r.report.path = listed[i]
      BY <1>1, <1>2, <1>3, <1>6, <1>7, <1>9 DEF Walk, LastOfName
  <2>2. \A j \in 1..Len(listed) :
            j > i /\ NameOf[results[j].path] = NameOf[r.path] => results[j].error
      BY <1>1, <1>2, <1>3, <1>6, <1>7, <1>9, <2>1 DEF Walk, LastOfName
  <2>3. /\ NameOf[r.path] \in DOMAIN Details(results)
        /\ Details(results)[NameOf[r.path]] = r.report
      BY <1>3, <2>1, <2>2, DetailsLast
  <2>4. summary[i] = Line([path |-> listed[i], error |-> FALSE, report |-> r.report])
    <3> DEFINE k == [path |-> listed[i], error |-> FALSE, report |-> r.report]
    <3>1. k.path = r.path /\ k.report = r.report /\ ~k.error
        BY <2>1
    <3> HIDE DEF k
    <3>2. Line(k) = Line(r)
        BY <2>1, <3>1 DEF Line
    <3> QED BY <1>5, <3>2 DEF k
  <2>5. quiet => r.report = ResultOf(listed[i], r.report.yara).report
      BY <1>1, <1>2, <1>3 DEF Reading, TrueResult
  <2> QED BY <2>1, <2>3, <2>4, <2>5
<1>10. SummaryIsTrue'
  <2>1. ASSUME NEW i \in DOMAIN listed PROVE LineIsTrue(i)'
    <3> DEFINE n == NameOf[listed[i]]
               of == output'.details[n]
    <3>1. /\ ResultOf(listed[i], output.summary[i].yara)' = ResultOf(listed[i], summary[i].yara)
          /\ ResultOf(listed[i], output.details[n].yara)' = ResultOf(listed[i], of.yara)
        BY <1>1, <1>6 DEF ResultOf
    <3>2. listed' = listed /\ quiet' = quiet /\ output'.summary[i] = summary[i]
          /\ output'.details = Details(results)
        BY <1>1, <1>6
    <3>3. summary[i].name = n /\ (quiet => summary[i] = Line(ResultOf(listed[i], summary[i].yara)))
        BY <1>3, <1>7, <1>8
    <3>4. LastOfName(i)' =>
              /\ n \in DOMAIN Details(results)
              /\ of.path = listed[i]
              /\ summary[i] = Line([path |-> listed[i], error |-> FALSE, report |-> of])
              /\ quiet => of = ResultOf(listed[i], of.yara).report
        BY <1>3, <1>6, <1>9
    <3> QED BY <3>1, <3>2, <3>3, <3>4 DEF LineIsTrue
  <2> QED BY <1>1, <1>3, <1>4, <1>6, <2>1 DEF SummaryIsTrue
<1>11. tool' = "none" /\ pc' = "shell"
    BY <1>1 DEF Exit
<1>12. Walk' /\ Reading'
    BY <1>1, <1>2, <1>11 DEF Walk, Reading, AtFile, IsElf, Exists
<1> QED BY <1>10, <1>12 DEF BatchInv

-----------------------------------------------------------------------------
\* A run that is cut off claims nothing.
LEMMA DeathKeepsBatchInv ==
    ASSUME BatchInv, Dies
    PROVE  BatchInv'
<1>1. /\ tool' = "none" /\ pc' = "shell" /\ last'.exit = 1 /\ results' = <<>>
      /\ UNCHANGED <<tree, listed>> /\ (quiet' => quiet)
    BY DEF Dies, Exit
<1> QED BY <1>1 DEF BatchInv, Walk, AtFile, Reading, IsElf, Exists, SummaryIsTrue, Ended

LEMMA BatchStepKeeps ==
    ASSUME Places, BatchInv, BatchStep
    PROVE  BatchInv'
BY ParseKeeps, StatKeeps, ReadSymbolsKeeps, ScanYaraKeeps, WriteBatchKeeps, DeathKeepsBatchInv
   DEF BatchStep

LEMMA GhidraStepKeeps ==
    ASSUME Places, BatchInv, GhidraStep
    PROVE  BatchInv'
<1>1. CASE Dies
    BY <1>1, DeathKeepsBatchInv
<1>2. ASSUME UNCHANGED <<tree, listed, quiet, results>>, tool = "ghidra",
             tool' = "ghidra" \/ (tool' = "none" /\ last'.tool = "ghidra"),
             pc' \in {"script", "clean", "shell"}
      PROVE  BatchInv'
    BY <1>2 DEF BatchInv, Walk, AtFile, Reading, IsElf, Exists, SummaryIsTrue, Ended
<1>3. tool = "ghidra"
    BY DEF GhidraStep, Import, RunScript, Consolidate, RemoveProject, Places
<1>4. CASE Import \/ RunScript
    BY <1>2, <1>3, <1>4 DEF Import, RunScript, Goes, shellVars, batchVars
<1>5. CASE Consolidate
    BY <1>1, <1>2, <1>3, <1>5 DEF Consolidate, Goes, shellVars, batchVars
<1>6. CASE RemoveProject
    BY <1>2, <1>3, <1>6 DEF RemoveProject, Exit, batchVars
<1> QED BY <1>4, <1>5, <1>6 DEF GhidraStep

LEMMA LaunchKeepsBatchInv ==
    ASSUME Places, BatchInv, NEW t \in {"batch", "ghidra"}, NEW first \in {"parse", "import"},
           Launch(t, first), t = "batch" <=> first = "parse", UNCHANGED results
    PROVE  BatchInv'
<1>1. tool = "none" /\ UNCHANGED tree /\ listed' = find_elfs /\ results' = <<>>
    BY DEF Launch, Start, BatchInv, Walk
<1>2. find_elfs \in Seq(Paths) /\ \A i \in DOMAIN find_elfs : IsElf(find_elfs[i])
  <2> DEFINE S == {p \in Paths : IsElf(p)}
  <2>1. find_elfs \in Seq(S)
      BY ElfsFound, OrderAssumption
  <2>2. find_elfs \in Seq(Paths)
      BY <2>1, SeqMonotonic
  <2>3. DOMAIN find_elfs = 1..Len(find_elfs) /\ find_elfs \in [1..Len(find_elfs) -> S]
      BY <2>1, LenProperties
  <2> QED BY <2>2, <2>3
<1>3. \A i \in DOMAIN listed' : IsElf(listed[i])'
    BY <1>1, <1>2 DEF IsElf, Exists
<1>4. CASE find_elfs = <<>>
  <2>1. tool' = "none" /\ pc' = pc /\ listed' = <<>>
      BY <1>1, <1>4 DEF Launch
  <2>2. ~AtFile'
      BY <1>1, <2>1 DEF Places, AtFile
  <2>3. Walk'
      BY <1>1, <1>2, <2>1, <2>2 DEF Walk
  <2>4. Reading' /\ SummaryIsTrue'
      BY <1>3, <2>1, <2>2 DEF Reading, AtFile, SummaryIsTrue
  <2> QED BY <2>3, <2>4 DEF BatchInv
<1>5. CASE find_elfs # <<>>
  <2>1. tool' = t /\ pc' = first /\ (t = "batch" => todo' = find_elfs)
      BY <1>5 DEF Launch
  <2>2. Len(results') = 0 /\ IsSequence(results')
      BY <1>1 DEF IsSequence
  <2>3. Len(find_elfs) \in Nat
      BY <1>2, LenProperties
  <2>4. Walk'
      BY <1>1, <1>2, <2>1, <2>2, <2>3 DEF Walk, AtFile
  <2>5. Reading' /\ SummaryIsTrue'
      BY <1>3, <2>1, <2>2 DEF Reading, AtFile, SummaryIsTrue, Ended
  <2> QED BY <2>4, <2>5 DEF BatchInv
<1> QED BY <1>4, <1>5

LEMMA BatchInvInit == Init => BatchInv
<1> SUFFICES ASSUME Init PROVE BatchInv
    OBVIOUS
<1>1. tool = "none" /\ pc = "shell" /\ listed = <<>> /\ results = <<>> /\ quiet = FALSE
    BY DEF Init
<1>2. Walk /\ Reading /\ SummaryIsTrue
    BY <1>1 DEF Walk, Reading, AtFile, SummaryIsTrue
<1> QED BY <1>2 DEF BatchInv

LEMMA BatchInvNext == Places /\ BatchInv /\ [Next]_vars => BatchInv'
<1> SUFFICES ASSUME Places, BatchInv, [Next]_vars PROVE BatchInv'
    OBVIOUS
<1>1. CASE LaunchBatch
    BY <1>1, LaunchKeepsBatchInv DEF LaunchBatch, batchVars
<1>2. CASE LaunchGhidra
    BY <1>2, LaunchKeepsBatchInv DEF LaunchGhidra, batchVars
<1>3. ASSUME NEW t \in {"batch", "ghidra"}, LaunchRefused(t) PROVE BatchInv'
    BY <1>3 DEF LaunchRefused, Start, batchVars, BatchInv, Walk, Reading, AtFile, IsElf, Exists,
                TrueResult, ResultOf, SummaryIsTrue, LineIsTrue, LastOfName, Ended
<1>4. ASSUME NEW p \in Paths, Triage(p) PROVE BatchInv'
    BY <1>4 DEF Triage, Start, batchVars, BatchInv, Walk, Reading, AtFile, IsElf, Exists,
                TrueResult, ResultOf, SummaryIsTrue, LineIsTrue, LastOfName, Ended
<1>5. ASSUME NEW p \in Paths, NEW c \in Replacements, Change(p, c) PROVE BatchInv'
    BY <1>5 DEF Change, batchVars, BatchInv, Walk, Reading, AtFile, SummaryIsTrue, LineIsTrue,
                LastOfName, Ended
<1>6. CASE BatchStep
    BY <1>6, BatchStepKeeps
<1>7. CASE GhidraStep
    BY <1>7, GhidraStepKeeps
<1>8. CASE Interrupted
    BY <1>8, DeathKeepsBatchInv DEF Interrupted
<1>9. CASE UNCHANGED vars
  <2>1. UNCHANGED <<tree, tool, pc, todo, listed, current, results, output, last, quiet>>
      BY <1>9 DEF vars, batchVars, shellVars
  <2>2. Walk'
      BY <2>1 DEF BatchInv, Walk, AtFile
  <2>3. Reading'
      BY <2>1 DEF BatchInv, Reading, AtFile, IsElf, Exists, TrueResult, ResultOf
  <2>4. SummaryIsTrue'
      BY <2>1 DEF BatchInv, SummaryIsTrue, LineIsTrue, LastOfName, Ended, ResultOf
  <2> QED BY <2>2, <2>3, <2>4 DEF BatchInv
<1> QED BY <1>1, <1>2, <1>3, <1>4, <1>5, <1>6, <1>7, <1>8, <1>9 DEF Next

(***************************************************************************)
(* SummaryIsTrue: for directories of any size, whatever is changed in them *)
(* and however often the tools run, the report of the checkpoint has one   *)
(* line for each ELF file it found, in order, errors included; it says of  *)
(* a file nobody touched what that file holds; and the details under a     *)
(* name are the last file's of that name that could be read                *)
(* (ch35-checkpoint-batch.py:355-466, 577-603).                            *)
(***************************************************************************)
THEOREM EveryElfHasItsLine == Spec => []SummaryIsTrue
<1>1. Init => Places /\ BatchInv
    BY IInvInit, BatchInvInit DEF IInv
<1>2. IInv => Places
    BY DEF IInv
<1>3. Places /\ BatchInv /\ [Next]_vars => BatchInv'
    BY BatchInvNext
<1>4. BatchInv => SummaryIsTrue
    BY DEF BatchInv
<1> QED BY <1>1, <1>2, <1>3, <1>4, Invariant, PTL DEF Spec

-----------------------------------------------------------------------------
(***************************************************************************)
(* The output directory: report.json is never a script's, what the scripts *)
(* of this run wrote is still there, because none of them runs twice, and  *)
(* the report says it unless a later file says something else.             *)
(***************************************************************************)
Typed ==
    /\ tree \in [Paths -> DOMAIN Content \cup {Absent}]
    /\ pc = "script" => project \in [DOMAIN project -> DOMAIN Content]
    /\ DOMAIN outdir = Files
    /\ Readable(own) => outdir[own].kind \notin Kinds

\* A result is in the file of its name and script.
Stands(r) ==
    LET f == FileName(r.script, r.name)
    IN  /\ r.script \in Ours /\ r.name \in Names /\ f \in Files
        /\ Readable(f) /\ outdir[f] = Json(r.script, r.name, r.of)

Written ==
    tool = "ghidra" =>
        /\ todo \in Seq(Ours)
        /\ \A i, j \in DOMAIN todo : todo[i] = todo[j] => i = j
        /\ pc = "import" => fresh = {}
        /\ pc = "script" => \A r \in fresh :
              Stands(r) /\ \A i \in DOMAIN todo : todo[i] # r.script

ReportHolds ==
    /\ outdir[own].kind = "report"
    /\ \A r \in fresh : Overridden(r) \/ Reported(r)

GhidraInv ==
    /\ Typed /\ Written
    /\ pc = "clean" \/ (Ended("ghidra") /\ listed # <<>>) => ReportHolds

LEMMA RunScriptKeeps ==
    ASSUME GhidraInv, RunScript, Places
    PROVE  GhidraInv'
<1> PICK s : s = Head(todo)
    OBVIOUS
<1>1. /\ pc = "script" /\ tool = "ghidra" /\ pc' = "script" /\ tool' = "ghidra"
      /\ todo # <<>> /\ todo' = Tail(todo) /\ UNCHANGED <<tree, project>>
    BY DEF RunScript, Goes, Places
<1>2. /\ todo \in Seq(Ours) /\ \A i, j \in DOMAIN todo : todo[i] = todo[j] => i = j
      /\ \A r \in fresh : Stands(r) /\ \A i \in DOMAIN todo : todo[i] # r.script
    BY <1>1 DEF GhidraInv, Written
<1>3. /\ Len(todo) \in Nat /\ DOMAIN todo = 1..Len(todo) /\ Len(todo) >= 1
      /\ s = todo[1] /\ s \in Ours
      /\ todo' \in Seq(Ours) /\ DOMAIN todo' = 1..Len(todo) - 1
      /\ \A i \in DOMAIN todo' : todo'[i] = todo[i + 1]
  <2>1. /\ Len(todo) \in Nat /\ Len(todo) >= 1 /\ s = todo[1] /\ s \in Ours
        /\ todo' \in Seq(Ours) /\ Len(todo') = Len(todo) - 1
        /\ \A i \in 1..Len(todo') : todo'[i] = todo[i + 1]
      BY <1>1, <1>2, HeadAndTail
  <2>2. DOMAIN todo = 1..Len(todo) /\ DOMAIN todo' = 1..Len(todo')
      BY <1>2, <2>1, LenProperties
  <2> QED BY <2>1, <2>2
<1>4. \A i \in DOMAIN todo' : i + 1 \in DOMAIN todo /\ i + 1 # 1
    BY <1>3
<1>5. \A i, j \in DOMAIN todo' : todo'[i] = todo'[j] => i = j
    BY <1>2, <1>3, <1>4
<1>6. \A i \in DOMAIN todo' : todo'[i] # s
    BY <1>2, <1>3, <1>4
<1>7. PICK wrote, whole, of : Writes(s, wrote, whole, of)
    BY ScriptWrites
<1>8. ASSUME NEW r \in fresh
      PROVE  Stands(r)' /\ \A i \in DOMAIN todo' : todo'[i] # r.script
  <2> DEFINE f == FileName(r.script, r.name)
  <2>1. /\ r.script \in Ours /\ r.name \in Names /\ f \in Files
        /\ Readable(f) /\ outdir[f] = Json(r.script, r.name, r.of)
      BY <1>2 DEF Stands
  <2>2. r.script # s
      BY <1>2, <1>3
  <2>3. \A n \in wrote : f # FileName(s, n)
      BY <1>3, <1>7, <2>1, <2>2, FilesApart DEF Writes
  <2>4. outdir'[f] = outdir[f]
      BY <1>7, <2>1, <2>3 DEF Writes
  <2>5. Stands(r)'
      BY <2>1, <2>4 DEF Stands, Readable
  <2> QED BY <1>2, <1>3, <1>4, <2>5
<1>9. ASSUME NEW n \in whole
      PROVE  Stands([script |-> s, name |-> n, of |-> of[n]])'
  <2> DEFINE r == [script |-> s, name |-> n, of |-> of[n]]
             f == FileName(s, n)
  <2>1. n \in Names /\ f \in Files /\ outdir'[f] = Json(s, n, of[n])
      BY <1>3, <1>7, FilesAssumption DEF Writes, Ours, Names
  <2>2. of[n] \in DOMAIN Content
      BY <1>1, <1>7 DEF Writes, GhidraInv, Typed
  <2>3. Json(s, n, of[n]) # Absent
      BY <1>3, <2>1, <2>2, AbsentAssumption DEF Ours, Names
  <2>4. Json(s, n, of[n]) # Broken
      BY DEF Json, Broken, KindOf
  <2>5. Readable(f)'
      BY <2>1, <2>3, <2>4 DEF Readable
  <2>6. r.script = s /\ r.name = n /\ r.of = of[n]
      OBVIOUS
  <2> HIDE DEF r
  <2> QED BY <1>3, <2>1, <2>5, <2>6 DEF Stands, r
<1>10. ASSUME NEW r \in fresh'
       PROVE  Stands(r)' /\ \A i \in DOMAIN todo' : todo'[i] # r.script
  <2>1. CASE r \in fresh
      BY <1>8, <2>1
  <2>2. ASSUME NEW n \in whole, r = [script |-> s, name |-> n, of |-> of[n]]
        PROVE  Stands(r)' /\ \A i \in DOMAIN todo' : todo'[i] # r.script
    <3>1. Stands(r)'
        BY <1>9, <2>2
    <3>2. r.script = s
        BY <2>2
    <3> QED BY <1>6, <3>1, <3>2
  <2> QED BY <1>7, <2>1, <2>2 DEF Writes
<1>11. Written'
    BY <1>1, <1>3, <1>5, <1>10 DEF Written
<1>12. Typed'
    BY <1>1, ScriptLeavesOwn DEF GhidraInv, Typed, Readable
<1> QED BY <1>1, <1>11, <1>12 DEF GhidraInv, Ended

-----------------------------------------------------------------------------
LEMMA Placed ==
    ASSUME NEW f \in Files
    PROVE  Place(f) \in Nat /\ JsonOrder[Place(f)] = f
<1>1. DOMAIN JsonOrder = 1..Len(JsonOrder) /\ Len(JsonOrder) \in Nat
    BY FilesAssumption, LenProperties
<1>2. \E i \in DOMAIN JsonOrder : JsonOrder[i] = f
    BY DEF Files
<1>3. Place(f) \in DOMAIN JsonOrder /\ JsonOrder[Place(f)] = f
    BY <1>2 DEF Place
<1> QED BY <1>1, <1>3

\* What no later file overrides is what the report says.
LEMMA ReportSays ==
    ASSUME GhidraInv, NEW r \in fresh, Stands(r), ~Overridden(r)
    PROVE  /\ r.name \in DOMAIN merge_reports
           /\ merge_reports[r.name][KindOf(r.script)] = r.of
<1> DEFINE used == {f \in DOMAIN outdir : Readable(f)}
           Of(n, kind) == {f \in used : KeyOf(f) = n /\ outdir[f].kind = kind}
           Latest(fs) == IF fs = {} THEN Absent
                         ELSE outdir[CHOOSE f \in fs : \A g \in fs : Place(g) <= Place(f)].of
           n == r.name
           kind == KindOf(r.script)
           file == FileName(r.script, n)
<1>1. /\ kind \in Kinds /\ n \in Names /\ file \in Files
      /\ Readable(file) /\ outdir[file] = Json(r.script, n, r.of)
    BY DEF Stands, KindOf, Kinds
<1>2. n # NoName
  <2>1. n \in OneName
      BY <1>1, NamesAssumption DEF Names, OneName
  <2>2. Len(n) = 1 /\ Len(NoName) = 0
      BY <2>1, FileOf DEF NoName
  <2> QED BY <2>2
<1>3. /\ outdir[file].kind = kind /\ outdir[file].of = r.of
      /\ outdir[file].binary = IF r.script = "export" THEN NoName ELSE n
    BY <1>1 DEF Json
<1>4. DOMAIN outdir = Files
    BY DEF GhidraInv, Typed
<1>5. file \in used /\ KeyOf(file) = n
    BY <1>1, <1>2, <1>3, <1>4 DEF KeyOf, FileName
<1>6. DOMAIN merge_reports = {KeyOf(f) : f \in used}
    BY DEF merge_reports
<1>7. n \in DOMAIN merge_reports
    BY <1>5, <1>6
<1>8. merge_reports[n] = [functions |-> Latest(Of(n, "functions")), crypto |-> Latest(Of(n, "crypto"))]
    BY <1>6, <1>7 DEF merge_reports
<1>9. merge_reports[n][kind] = Latest(Of(n, kind))
  <2> HIDE DEF Of, Latest
  <2>1. CASE kind = "functions"
      BY <1>8, <2>1
  <2>2. CASE kind = "crypto"
      BY <1>8, <2>2
  <2> HIDE DEF kind
  <2> QED BY <1>1, <2>1, <2>2 DEF Kinds
<1>10. file \in Of(n, kind)
    BY <1>3, <1>5
<1>11. ASSUME NEW f \in Of(n, kind) PROVE f \in Files /\ ~(Place(file) < Place(f))
  <2>1. f \in Files /\ Readable(f) /\ outdir[f].kind = kind /\ KeyOf(f) = n
      BY <1>4
  <2>2. outdir[f].binary = n \/ (outdir[f].binary = NoName /\ f = n)
      BY <1>1, <2>1 DEF KeyOf
  <2> QED BY <1>4, <2>1, <2>2 DEF Overridden
<1>12. Latest(Of(n, kind)) = outdir[file].of
  <2> DEFINE fs == Of(n, kind)
             x == CHOOSE f \in fs : \A g \in fs : Place(g) <= Place(f)
  <2> HIDE DEF fs
  <2>1. file \in fs /\ \A f \in fs : f \in Files /\ ~(Place(file) < Place(f))
      BY <1>10, <1>11 DEF fs
  <2>2. \A g \in fs : Place(g) <= Place(file)
    <3> HIDE DEF file
    <3> QED BY <1>1, <2>1, Placed
  <2>3. x \in fs /\ \A g \in fs : Place(g) <= Place(x)
      BY <2>1, <2>2
  <2> HIDE DEF x, file
  <2>4. Place(x) = Place(file)
      BY <1>1, <2>1, <2>3, Placed
  <2>5. x = file
      BY <1>1, <2>1, <2>3, <2>4, Placed
  <2> QED BY <2>1, <2>5 DEF x, fs
<1> QED BY <1>3, <1>7, <1>9, <1>12

\* What leaves the output directory and the last report alone.
LEMMA DirectoryStays ==
    ASSUME GhidraInv, UNCHANGED <<outdir, fresh>>, tree' \in [Paths -> DOMAIN Content \cup {Absent}],
           pc' # "script", tool' # "ghidra",
           pc' = "clean" \/ (Ended("ghidra")' /\ listed' # <<>>) => ReportHolds
    PROVE  GhidraInv'
<1>1. Typed'
    BY DEF GhidraInv, Typed, Readable
<1>2. Written'
    BY DEF Written
<1>3. ReportHolds => ReportHolds'
    BY DEF ReportHolds, Overridden, Reported, Readable
<1> QED BY <1>1, <1>2, <1>3 DEF GhidraInv

LEMMA GhidraLaunches ==
    ASSUME Places, GhidraInv, LaunchGhidra
    PROVE  GhidraInv'
<1>1. UNCHANGED <<tree, outdir>> /\ tool = "none" /\ fresh' = {} /\ listed' = find_elfs
    BY DEF LaunchGhidra, Launch, Start
<1>2. Typed'
  <2>1. pc' # "script"
      BY <1>1 DEF LaunchGhidra, Launch, Places
  <2> QED BY <1>1, <2>1 DEF GhidraInv, Typed, Readable
<1>3. CASE find_elfs = <<>>
  <2>1. tool' = "none" /\ pc' = pc /\ listed' = <<>>
      BY <1>1, <1>3 DEF LaunchGhidra, Launch
  <2> QED BY <1>1, <1>2, <2>1 DEF GhidraInv, Written, Places
<1>4. CASE find_elfs # <<>>
  <2>1. tool' = "ghidra" /\ pc' = "import" /\ todo' = Scripts
      BY <1>4 DEF LaunchGhidra, Launch
  <2>2. Written'
      BY <1>1, <2>1, ScriptsAssumption, ScriptsGiven DEF Written
  <2> QED BY <1>2, <2>1, <2>2 DEF GhidraInv, Ended
<1> QED BY <1>3, <1>4

LEMMA ImportKeeps ==
    ASSUME Places, GhidraInv, Import
    PROVE  GhidraInv'
<1>1. /\ tool = "ghidra" /\ pc = "import" /\ pc' = "script"
      /\ UNCHANGED <<tree, tool, todo, outdir, fresh>>
      /\ project' = [p \in {q \in Paths : IsElf(q)} |-> tree[p]]
    BY DEF Import, Goes, Places
<1>2. \A p \in {q \in Paths : IsElf(q)} : tree[p] \in DOMAIN Content
    BY DEF GhidraInv, Typed, IsElf, Exists
<1>3. Typed'
    BY <1>1, <1>2 DEF GhidraInv, Typed, Readable
<1>4. Written'
    BY <1>1 DEF GhidraInv, Written
<1> QED BY <1>1, <1>3, <1>4 DEF GhidraInv, Ended

LEMMA ConsolidateKeeps ==
    ASSUME Places, GhidraInv, Consolidate
    PROVE  GhidraInv'
<1>1. /\ pc = "script" /\ tool = "ghidra" /\ own \in Files
      /\ \A r \in fresh : Stands(r)
      /\ UNCHANGED <<tree, fresh>>
    BY FilesAssumption DEF Consolidate, Places, Goes, Dies, GhidraInv, Written
<1>2. CASE outdir' = [outdir EXCEPT ![own] = [kind |-> "report", summary |-> merge_reports]]
           /\ Goes("clean") /\ UNCHANGED todo
  <2>1. outdir'[own] = [kind |-> "report", summary |-> merge_reports]
        /\ DOMAIN outdir' = Files /\ \A f \in Files : f # own => outdir'[f] = outdir[f]
      BY <1>1, <1>2 DEF GhidraInv, Typed
  <2>2. outdir'[own].kind = "report" /\ outdir'[own].summary = merge_reports
      BY <2>1
  <2>3. ASSUME NEW r \in fresh, ~Overridden(r)' PROVE Reported(r)'
    <3>1. ~Overridden(r)
      <4> SUFFICES ASSUME Overridden(r) PROVE FALSE
          OBVIOUS
      <4>1. PICK f \in Files :
                /\ Place(FileName(r.script, r.name)) < Place(f)
                /\ Readable(f) /\ outdir[f].kind = KindOf(r.script)
                /\ outdir[f].binary = r.name \/ (outdir[f].binary = NoName /\ f = r.name)
          BY DEF Overridden, GhidraInv, Typed
      <4>2. f # own
          BY <4>1 DEF GhidraInv, Typed, KindOf, Kinds
      <4>3. outdir'[f] = outdir[f] /\ f \in DOMAIN outdir'
          BY <2>1, <4>1, <4>2
      <4>4. Overridden(r)'
          BY <4>1, <4>3 DEF Overridden, Readable
      <4> QED BY <2>3, <4>4
    <3>2. /\ r.name \in DOMAIN merge_reports
          /\ merge_reports[r.name][KindOf(r.script)] = r.of
        BY <1>1, <3>1, ReportSays
    <3> QED BY <2>2, <3>2 DEF Reported
  <2>4. ReportHolds'
      BY <1>1, <2>2, <2>3 DEF ReportHolds
  <2>5. pc' = "clean" /\ tool' = "ghidra"
      BY <1>1, <1>2 DEF Goes
  <2>6. Typed' /\ Written'
      BY <1>1, <1>2, <2>1, <2>2, <2>5 DEF GhidraInv, Typed, Written, Kinds
  <2> QED BY <2>4, <2>6 DEF GhidraInv
<1>3. CASE Dies /\ (outdir' = [outdir EXCEPT ![own] = Broken] \/ outdir' = outdir)
  <2>1. tool' = "none" /\ pc' = "shell" /\ last'.exit = 1
      BY <1>3 DEF Dies, Exit
  <2>2. DOMAIN outdir' = Files /\ \A f \in Files : outdir'[f] \in {outdir[f], Broken}
      BY <1>3 DEF GhidraInv, Typed
  <2>3. Readable(own)' => outdir'[own].kind \notin Kinds
      BY <1>1, <2>2 DEF GhidraInv, Typed, Readable
  <2>4. Typed' /\ Written'
      BY <1>1, <2>1, <2>2, <2>3 DEF GhidraInv, Typed, Written
  <2> QED BY <2>1, <2>4 DEF GhidraInv, Ended
<1> QED BY <1>2, <1>3 DEF Consolidate

LEMMA GhidraInvInit == Init => GhidraInv
<1> SUFFICES ASSUME Init PROVE GhidraInv
    OBVIOUS
<1>1. /\ tree \in Trees /\ outdir \in OldOutputs /\ tool = "none" /\ pc = "shell" /\ listed = <<>>
    BY DEF Init
<1>2. Typed
    BY <1>1, TreesAssumption, OutputsAssumption DEF Typed, Readable
<1> QED BY <1>1, <1>2 DEF GhidraInv, Written

LEMMA GhidraInvNext == Places /\ GhidraInv /\ [Next]_vars => GhidraInv'
<1> SUFFICES ASSUME Places, GhidraInv, [Next]_vars PROVE GhidraInv'
    OBVIOUS
<1> USE DEF ghidraVars
<1>0. tree \in [Paths -> DOMAIN Content \cup {Absent}]
    BY DEF GhidraInv, Typed
<1>1. CASE LaunchBatch
  <2>1. tool = "none" /\ UNCHANGED <<tree, outdir, fresh>> /\ pc' \notin {"script", "clean"}
        /\ tool' # "ghidra"
      BY <1>1 DEF LaunchBatch, Launch, Start, Places
  <2>2. ~(Ended("ghidra")' /\ listed' # <<>>)
      BY <1>1 DEF LaunchBatch, Launch, Ended
  <2> QED BY <1>0, <2>1, <2>2, DirectoryStays
<1>2. CASE LaunchGhidra
    BY <1>2, GhidraLaunches
<1>3. ASSUME NEW t \in {"batch", "ghidra"}, LaunchRefused(t) PROVE GhidraInv'
  <2>1. tool = "none" /\ pc' = pc /\ tool' = tool /\ UNCHANGED <<tree, outdir, fresh>>
        /\ last'.exit = 2
      BY <1>3 DEF LaunchRefused, Start
  <2> QED BY <1>0, <2>1, DirectoryStays DEF Ended, Places
<1>4. ASSUME NEW p \in Paths, Triage(p) PROVE GhidraInv'
  <2>1. tool = "none" /\ pc' = pc /\ tool' = tool /\ UNCHANGED <<tree, outdir, fresh>>
        /\ last'.tool = "triage"
      BY <1>4 DEF Triage, Start
  <2> QED BY <1>0, <2>1, DirectoryStays DEF Ended, Places
<1>5. ASSUME NEW p \in Paths, NEW c \in Replacements, Change(p, c) PROVE GhidraInv'
  <2>1. /\ tree' \in [Paths -> DOMAIN Content \cup {Absent}]
        /\ UNCHANGED <<tool, pc, todo, listed, project, outdir, fresh, last>>
      BY <1>0, <1>5, TreesAssumption DEF Change
  <2> QED BY <2>1 DEF GhidraInv, Typed, Readable, Written, Stands, ReportHolds, Overridden, Reported,
                 Ended
<1>6. CASE BatchStep
  <2>1. tool = "batch" /\ pc \notin {"import", "script", "clean"}
      BY <1>6 DEF BatchStep, Parse, Stat, ReadSymbols, ScanYara, WriteBatch, Places
  <2>2. UNCHANGED <<tree, outdir, fresh>>
      BY <1>6 DEF BatchStep, Parse, Stat, ReadSymbols, ScanYara, WriteBatch, Finished, Goes, Dies
  <2>3. /\ tool' = "batch" \/ (tool' = "none" /\ last'.tool = "batch")
        /\ pc' \in {"parse", "stat", "symbols", "yara", "shell"}
      BY <1>6, <2>1
         DEF BatchStep, Parse, Stat, ReadSymbols, ScanYara, WriteBatch, Finished, Goes, Dies, Exit
  <2> QED BY <1>0, <2>2, <2>3, DirectoryStays DEF Ended
<1>7. CASE Import
    BY <1>7, ImportKeeps
<1>8. CASE RunScript
    BY <1>8, RunScriptKeeps
<1>9. CASE Consolidate
    BY <1>9, ConsolidateKeeps
<1>10. CASE RemoveProject
  <2>1. pc = "clean" /\ pc' = "shell" /\ tool' = "none" /\ UNCHANGED <<tree, outdir, fresh>>
      BY <1>10 DEF RemoveProject, Exit
  <2> QED BY <1>0, <2>1, DirectoryStays DEF GhidraInv
<1>11. CASE Interrupted
  <2>1. pc' = "shell" /\ tool' = "none" /\ last'.exit = 1 /\ UNCHANGED <<tree, outdir, fresh>>
      BY <1>11 DEF Interrupted, Dies, Exit
  <2> QED BY <1>0, <2>1, DirectoryStays DEF Ended
<1>12. CASE UNCHANGED vars
  <2>1. UNCHANGED <<tree, tool, pc, todo, listed, project, outdir, fresh, last>>
      BY <1>12 DEF vars, shellVars
  <2> QED BY <2>1 DEF GhidraInv, Typed, Readable, Written, Stands, ReportHolds, Overridden, Reported,
                 Ended
<1> QED BY <1>1, <1>2, <1>3, <1>4, <1>5, <1>6, <1>7, <1>8, <1>9, <1>10, <1>11, <1>12
        DEF Next, GhidraStep

(***************************************************************************)
(* FreshResultsWin: for any directory of files that earlier runs and       *)
(* others left, any of the three scripts and any number of binaries of one *)
(* name, a run of batch_analyze.py that ended well leaves no project and a *)
(* report in which what a script has just written about a binary stands,   *)
(* unless a file that is read after the script's says the same kind of     *)
(* thing about the same name (batch_analyze.py:187-236, 351-386).          *)
(***************************************************************************)
THEOREM TheLastRunIsReported == Spec => []FreshResultsWin
<1>1. Init => Places /\ GhidraInv
    BY IInvInit, GhidraInvInit DEF IInv
<1>2. IInv => Places
    BY DEF IInv
<1>3. Places /\ GhidraInv /\ [Next]_vars => GhidraInv'
    BY GhidraInvNext
<1>4. IInv /\ GhidraInv => FreshResultsWin
    BY DEF IInv, GhidraInv, Removed, ReportHolds, FreshResultsWin
<1> QED BY <1>1, <1>2, <1>3, <1>4, Invariant, PTL DEF Spec

-----------------------------------------------------------------------------
(***************************************************************************)
(* While nothing has changed since the checkpoint's list was made, what it *)
(* wrote about a path and what triage said last are about what is there.   *)
(***************************************************************************)
DetailsAreTrue ==
    /\ \A n \in DOMAIN output.details :
          LET of == output.details[n]
              f == Content[tree[of.path]]
          IN  f.lief /\ of = Report(of.path, f, f.size, SymbolsRead(f), of.yara)
    /\ \A i \in DOMAIN listed :
          Content[tree[listed[i]]].lief => NameOf[listed[i]] \in DOMAIN output.details

TriagedIsTrue ==
    LET p == triaged.path
        f == Content[tree[p]]
        good == Exists(p) /\ f.magic /\ f.lief
    IN  (triaged.error <=> ~good) /\ (good => triaged.report = TriageReport(f))

TriageInv ==
    quiet =>
        /\ listed = find_elfs
        /\ tool # "batch" /\ listed # <<>> => DetailsAreTrue
        /\ tool # "batch" /\ last.tool = "triage" => TriagedIsTrue

LEMMA WrittenDetailsAreTrue ==
    ASSUME Places, BatchInv, WriteBatch, ~Dies, quiet
    PROVE  DetailsAreTrue'
<1>1. /\ tool = "batch" /\ todo = <<>> /\ UNCHANGED <<tree, listed>>
      /\ output' = [kind |-> "whole", found |-> Len(listed),
                    summary |-> build_summary(results), details |-> Details(results)]
    BY DEF WriteBatch
<1>2. output'.details = Details(results)
    BY <1>1
<1>3. /\ Len(listed) \in Nat /\ DOMAIN listed = 1..Len(listed)
      /\ Len(results) = Len(listed) /\ DOMAIN results = 1..Len(listed)
      /\ \A i \in 1..Len(listed) : TrueResult(results[i], listed[i])
    BY <1>1, LenProperties DEF BatchInv, Walk, IsSequence, Reading
<1>4. ASSUME NEW i \in 1..Len(listed)
      PROVE  LET f == Content[tree[listed[i]]]
             IN  /\ results[i].error <=> ~f.lief
                 /\ results[i].path = listed[i]
                 /\ f.lief => results[i].report = Report(listed[i], f, f.size, SymbolsRead(f),
                                                         results[i].report.yara)
  <2> DEFINE f == Content[tree[listed[i]]]
             r == results[i]
  <2>1. r = ResultOf(listed[i], r.report.yara)
      BY <1>3, <1>4 DEF TrueResult
  <2>2. CASE f.lief
    <3>1. r = [path |-> listed[i], error |-> FALSE,
               report |-> Report(listed[i], f, f.size, SymbolsRead(f), r.report.yara)]
        BY <2>1, <2>2 DEF ResultOf
    <3> HIDE DEF r, f
    <3>2. r.path = listed[i] /\ ~r.error
        BY <3>1
    <3>3. r.report = Report(listed[i], f, f.size, SymbolsRead(f), r.report.yara)
        BY <3>1
    <3> QED BY <2>2, <3>2, <3>3 DEF r, f
  <2>3. CASE ~f.lief
    <3>1. r = [path |-> listed[i], error |-> TRUE]
        BY <2>1, <2>3 DEF ResultOf
    <3> HIDE DEF r
    <3>2. r.path = listed[i] /\ r.error
        BY <3>1
    <3> QED BY <2>3, <3>2 DEF r
  <2> QED BY <2>2, <2>3
<1>5. ASSUME NEW n \in DOMAIN Details(results)
      PROVE  LET of == Details(results)[n]
                 f == Content[tree[of.path]]
             IN  f.lief /\ of = Report(of.path, f, f.size, SymbolsRead(f), of.yara)
  <2>1. PICK i \in 1..Len(listed) : ~results[i].error /\ Details(results)[n] = results[i].report
      BY <1>3, DetailsPick
  <2> DEFINE f == Content[tree[listed[i]]]
             of == results[i].report
  <2>2. f.lief /\ of = Report(listed[i], f, f.size, SymbolsRead(f), of.yara)
      BY <1>4, <2>1
  <2> HIDE DEF f
  <2>3. Report(listed[i], f, f.size, SymbolsRead(f), of.yara).path = listed[i]
      BY DEF Report
  <2>4. of.path = listed[i]
      BY <2>2, <2>3
  <2> QED BY <2>1, <2>2, <2>4 DEF f
<1>6. ASSUME NEW i \in DOMAIN listed, Content[tree[listed[i]]].lief
      PROVE  NameOf[listed[i]] \in DOMAIN Details(results)
  <2>1. ~results[i].error /\ results[i].path = listed[i]
      BY <1>3, <1>4, <1>6
  <2> QED BY <1>3, <1>6, <2>1 DEF Details
<1> QED BY <1>1, <1>2, <1>5, <1>6 DEF DetailsAreTrue

LEMMA ElfsStay ==
    ASSUME UNCHANGED tree
    PROVE  UNCHANGED find_elfs
BY DEF find_elfs, elfs, IsElf, Exists

\* What leaves the report of the checkpoint, and what it is about, alone.
LEMMA ClaimsStay ==
    ASSUME TriageInv, UNCHANGED <<tree, listed, output>>, quiet' => quiet,
           tool = "batch" => tool' = "batch" \/ ~quiet',
           tool' # "batch" /\ last'.tool = "triage" =>
               tool # "batch" /\ last.tool = "triage" /\ UNCHANGED triaged
    PROVE  TriageInv'
<1> SUFFICES ASSUME quiet' PROVE TriageInv'
    BY DEF TriageInv
<1>1. listed' = find_elfs'
    BY ElfsStay DEF TriageInv
<1>2. tool' # "batch" /\ listed' # <<>> => DetailsAreTrue'
    BY DEF TriageInv, DetailsAreTrue
<1>3. tool' # "batch" /\ last'.tool = "triage" => TriagedIsTrue'
    BY DEF TriageInv, TriagedIsTrue, Exists
<1> QED BY <1>1, <1>2, <1>3 DEF TriageInv

LEMMA BatchKeepsClaims ==
    ASSUME Places, BatchInv, TriageInv, BatchStep
    PROVE  TriageInv'
<1>1. tool = "batch" /\ UNCHANGED <<tree, listed>>
    BY DEF BatchStep, Parse, Stat, ReadSymbols, ScanYara, WriteBatch, Finished, Goes, Dies, Places
<1>2. CASE Dies
  <2>1. ~quiet'
      BY <1>1, <1>2 DEF Dies
  <2> QED BY <2>1 DEF TriageInv
<1>3. CASE WriteBatch /\ ~Dies
  <2>1. tool' = "none" /\ last'.tool = "batch" /\ UNCHANGED quiet
      BY <1>1, <1>3 DEF WriteBatch, Exit
  <2>2. quiet => DetailsAreTrue'
      BY <1>3, WrittenDetailsAreTrue
  <2>3. quiet => listed' = find_elfs'
      BY <1>1, ElfsStay DEF TriageInv
  <2> QED BY <2>1, <2>2, <2>3 DEF TriageInv
<1>4. CASE Goes("parse") \/ Goes("stat") \/ Goes("symbols") \/ Goes("yara")
  <2>1. tool' = "batch" /\ UNCHANGED quiet
      BY <1>1, <1>4 DEF Goes, shellVars
  <2>2. quiet => listed' = find_elfs'
      BY <1>1, ElfsStay DEF TriageInv
  <2> QED BY <2>1, <2>2 DEF TriageInv
<1> QED BY <1>2, <1>3, <1>4 DEF BatchStep, Parse, Stat, ReadSymbols, ScanYara, Finished

LEMMA LaunchKeepsClaims ==
    ASSUME TriageInv, NEW t \in {"batch", "ghidra"}, NEW first, Launch(t, first),
           UNCHANGED output
    PROVE  TriageInv'
<1>1. /\ tool = "none" /\ UNCHANGED <<tree, triaged>> /\ listed' = find_elfs
      /\ quiet' = (quiet \/ t = "batch")
    BY DEF Launch, Start
<1>2. listed' = find_elfs'
    BY <1>1, ElfsStay
<1>3. CASE t = "batch"
  <2>1. tool' = "batch" \/ (listed' = <<>> /\ last'.tool = "batch")
      BY <1>1, <1>3 DEF Launch
  <2> QED BY <1>2, <2>1 DEF TriageInv
<1>4. CASE t = "ghidra"
  <2>1. quiet' <=> quiet
      BY <1>1, <1>4
  <2>2. quiet => UNCHANGED listed
      BY <1>1 DEF TriageInv
  <2>3. last' = last \/ last'.tool = "ghidra"
      BY <1>4 DEF Launch
  <2>4. quiet /\ listed' # <<>> => DetailsAreTrue'
      BY <1>1, <2>2 DEF TriageInv, DetailsAreTrue
  <2>5. quiet /\ last'.tool = "triage" => TriagedIsTrue'
      BY <1>1, <2>3 DEF TriageInv, TriagedIsTrue, Exists
  <2> QED BY <1>2, <2>1, <2>4, <2>5 DEF TriageInv
<1> QED BY <1>3, <1>4

LEMMA TriageKeepsClaims ==
    ASSUME TriageInv, NEW p \in Paths, Triage(p)
    PROVE  TriageInv'
<1> DEFINE f == Content[tree[p]]
           good == Exists(p) /\ f.magic /\ f.lief
<1>1. /\ tool = "none" /\ tool' = "none" /\ UNCHANGED <<tree, listed, output, quiet>>
      /\ triaged' = [path |-> p, error |-> ~good,
                     report |-> IF good THEN TriageReport(f) ELSE Absent]
    BY DEF Triage, Start, batchVars
<1>2. triaged'.path = p
    BY <1>1
<1>3. triaged'.error <=> ~good
    BY <1>1
<1>4. good => triaged'.report = TriageReport(f)
    BY <1>1
<1> HIDE DEF good, f
<1>5. TriagedIsTrue'
    BY <1>1, <1>2, <1>3, <1>4 DEF TriagedIsTrue, Exists, good, f
<1>6. listed' = find_elfs \/ ~quiet
    BY <1>1 DEF TriageInv
<1> QED BY <1>1, <1>5, <1>6, ElfsStay DEF TriageInv, DetailsAreTrue

LEMMA TriageInvNext == Places /\ BatchInv /\ TriageInv /\ [Next]_vars => TriageInv'
<1> SUFFICES ASSUME Places, BatchInv, TriageInv, [Next]_vars PROVE TriageInv'
    OBVIOUS
<1>1. CASE LaunchBatch
    BY <1>1, LaunchKeepsClaims DEF LaunchBatch, batchVars
<1>2. CASE LaunchGhidra
    BY <1>2, LaunchKeepsClaims DEF LaunchGhidra, batchVars
<1>3. ASSUME NEW t \in {"batch", "ghidra"}, LaunchRefused(t) PROVE TriageInv'
  <2>1. /\ tool = "none" /\ last'.tool = t /\ UNCHANGED <<tree, listed, output, quiet>>
      BY <1>3 DEF LaunchRefused, Start, batchVars
  <2> QED BY <2>1, ClaimsStay
<1>4. ASSUME NEW p \in Paths, Triage(p) PROVE TriageInv'
    BY <1>4, TriageKeepsClaims
<1>5. ASSUME NEW p \in Paths, NEW c \in Replacements, Change(p, c) PROVE TriageInv'
    BY <1>5 DEF Change, TriageInv
<1>6. CASE BatchStep
    BY <1>6, BatchKeepsClaims
<1>7. CASE GhidraStep
  <2>1. tool = "ghidra" /\ UNCHANGED <<tree, listed, output>>
      BY <1>7 DEF GhidraStep, Import, RunScript, Consolidate, RemoveProject, Places, Goes, Dies,
                  batchVars
  <2>2. UNCHANGED triaged
      BY <1>7 DEF GhidraStep, Import, RunScript, Consolidate, RemoveProject, Goes, Dies, shellVars
  <2>3. quiet' => quiet
    <3>1. CASE Import
        BY <3>1 DEF Import, Goes, shellVars
    <3>2. CASE RunScript
        BY <3>2 DEF RunScript, Goes, shellVars
    <3>3. CASE RemoveProject
        BY <3>3 DEF RemoveProject
    <3>4. CASE Consolidate
      <4>1. CASE Goes("clean")
          BY <4>1 DEF Goes, shellVars
      <4>2. CASE Dies
        <5>1. quiet' = (quiet /\ tool # "batch")
            BY <4>2 DEF Dies
        <5> QED BY <5>1
      <4> QED BY <3>4, <4>1, <4>2 DEF Consolidate
    <3> QED BY <1>7, <3>1, <3>2, <3>3, <3>4 DEF GhidraStep
  <2>4. last' = last \/ last'.tool = "ghidra"
      BY <1>7, <2>1 DEF GhidraStep, Import, RunScript, Consolidate, RemoveProject, Goes, Dies,
                        Exit, shellVars
  <2> QED BY <2>1, <2>2, <2>3, <2>4, ClaimsStay
<1>8. CASE Interrupted
  <2>1. /\ tool # "none" /\ tool' = "none" /\ last'.tool = tool
        /\ UNCHANGED <<tree, listed, output>> /\ quiet' = (quiet /\ tool # "batch")
      BY <1>8 DEF Interrupted, Dies, Exit
  <2>2. CASE tool = "batch"
      BY <2>1, <2>2 DEF TriageInv
  <2>3. CASE tool # "batch"
      BY <2>1, <2>3, ClaimsStay DEF Places
  <2> QED BY <2>1, <2>2, <2>3 DEF TriageInv
<1>9. CASE UNCHANGED vars
  <2>1. UNCHANGED <<tree, tool, listed, output, quiet, last, triaged>>
      BY <1>9 DEF vars, batchVars, shellVars
  <2> QED BY <2>1, ClaimsStay
<1> QED BY <1>1, <1>2, <1>3, <1>4, <1>5, <1>6, <1>7, <1>8, <1>9 DEF Next

LEMMA TriageInvInit == Init => TriageInv
BY DEF Init, TriageInv


\* pyelftools yields the whole table if it does not raise.
LEMMA WholeTable ==
    ASSUME NEW c \in DOMAIN Content, ~Raises(Content[c])
    PROVE  Yielded(Content[c]) = Content[c].symbols
<1> DEFINE table == Content[c].symbols
           S == {table[i] : i \in DOMAIN table}
           cut == {i \in DOMAIN table : \E j \in 1..i : table[j].type = "raise"}
<1>1. table \in Seq(S)
    BY ContentAssumption
<1> HIDE DEF S
<1>2. Len(table) \in Nat /\ DOMAIN table = 1..Len(table)
    BY <1>1, LenProperties
<1>3. cut = {}
    BY <1>2 DEF Raises
<1>4. Cardinality(cut) = 0
    BY <1>3, FS_EmptySet
<1>5. Yielded(Content[c]) = SubSeq(table, 1, Len(table) - Cardinality(cut))
    BY DEF Yielded
<1> HIDE DEF table, cut
<1>6. SubSeq(table, 1, Len(table) - Cardinality(cut)) = table
    BY <1>1, <1>2, <1>4, SubSeqFull
<1> QED BY <1>5, <1>6 DEF table

\* Two ways to count the functions.
LEMMA SameSymbols ==
    ASSUME NEW c \in DOMAIN Content
    PROVE  LET f == Content[c]
           IN  SymbolsRead(f) = NoSymbols \/ TriageReport(f).symbols = SymbolsRead(f)
<1> DEFINE f == Content[c]
<1>1. CASE f.static = 0 \/ Raises(f)
    BY <1>1 DEF SymbolsRead, SymbolsOf
<1>2. CASE f.static # 0 /\ ~Raises(f)
  <2>1. TriageReport(f).symbols = TriageSymbolsOf(f)
      BY <1>2 DEF TriageReport
  <2>2. Yielded(f) = f.symbols
      BY <1>2, WholeTable
  <2> HIDE DEF f
  <2>3. TriageSymbolsOf(f) = SymbolsOf(f)
      BY <1>2, <2>2 DEF TriageSymbolsOf, SymbolsOf
  <2>4. SymbolsRead(f) = SymbolsOf(f)
      BY <1>2 DEF SymbolsRead
  <2> QED BY <2>1, <2>3, <2>4 DEF f
<1> QED BY <1>1, <1>2

\* The smaller dictionary finds no family the larger one misses.
LEMMA FewerFamilies ==
    ASSUME NEW f
    PROVE  DOMAIN Found(f, TRIAGE_FAMILIES) \subseteq DOMAIN Found(f, IMPORT_FAMILIES)
<1>1. \A dictionary : DOMAIN Found(f, dictionary) =
                         {x \in DOMAIN dictionary : f.imports \cap dictionary[x] # {}}
    BY DEF Found
<1> DEFINE families == {"crypto", "network", "file_io", "dangerous"}
<1>2. DOMAIN TRIAGE_FAMILIES = families
    BY DEF TRIAGE_FAMILIES
<1>3. DOMAIN IMPORT_FAMILIES = families
    BY DEF IMPORT_FAMILIES
<1>4. ASSUME NEW x \in families PROVE TRIAGE_FAMILIES[x] \subseteq IMPORT_FAMILIES[x]
  <2>1. TRIAGE_FAMILIES["crypto"] \subseteq IMPORT_FAMILIES["crypto"]
      BY DEF TRIAGE_FAMILIES, IMPORT_FAMILIES
  <2>2. TRIAGE_FAMILIES["network"] \subseteq IMPORT_FAMILIES["network"]
      BY DEF TRIAGE_FAMILIES, IMPORT_FAMILIES
  <2>3. TRIAGE_FAMILIES["file_io"] \subseteq IMPORT_FAMILIES["file_io"]
      BY DEF TRIAGE_FAMILIES, IMPORT_FAMILIES
  <2>4. TRIAGE_FAMILIES["dangerous"] \subseteq IMPORT_FAMILIES["dangerous"]
      BY DEF TRIAGE_FAMILIES, IMPORT_FAMILIES
  <2> QED BY <2>1, <2>2, <2>3, <2>4
<1> HIDE DEF families
<1> SUFFICES ASSUME NEW x \in DOMAIN Found(f, TRIAGE_FAMILIES)
             PROVE  x \in DOMAIN Found(f, IMPORT_FAMILIES)
    OBVIOUS
<1>5. x \in families /\ f.imports \cap TRIAGE_FAMILIES[x] # {}
    BY <1>1, <1>2
<1>6. f.imports \cap IMPORT_FAMILIES[x] # {}
    BY <1>4, <1>5
<1> QED BY <1>1, <1>3, <1>5, <1>6

\* One file, two reports.
LEMMA SameFile ==
    ASSUME NEW c \in DOMAIN Content, NEW of,
           LET f == Content[c] IN of = Report(of.path, f, f.size, SymbolsRead(f), of.yara)
    PROVE  LET mine == TriageReport(Content[c])
           IN  /\ mine.size = of.size /\ mine.protections = of.protections
               /\ mine.strip = of.strip /\ mine.high_entropy = of.high_entropy
               /\ mine.libraries = of.libraries /\ mine.total = of.total
               /\ DOMAIN mine.families \subseteq DOMAIN of.families
               /\ of.symbols = NoSymbols \/ mine.symbols = of.symbols
<1> DEFINE f == Content[c]
           mine == TriageReport(f)
           report == Report(of.path, f, f.size, SymbolsRead(f), of.yara)
<1>1. /\ report.size = f.size /\ report.protections = Protections(f)
      /\ report.strip = StripInfo(f) /\ report.high_entropy = HighEntropy(f)
      /\ report.libraries = f.libraries /\ report.total = Cardinality(f.imports)
      /\ report.families = Found(f, IMPORT_FAMILIES) /\ report.symbols = SymbolsRead(f)
    BY DEF Report
<1>2. /\ mine.size = f.size /\ mine.protections = Protections(f)
      /\ mine.strip = StripInfo(f) /\ mine.high_entropy = HighEntropy(f)
      /\ mine.libraries = f.libraries /\ mine.total = Cardinality(f.imports)
      /\ mine.families = Found(f, TRIAGE_FAMILIES)
    BY DEF TriageReport
<1>3. SymbolsRead(f) = NoSymbols \/ mine.symbols = SymbolsRead(f)
    BY SameSymbols
<1>4. of = report
    OBVIOUS
<1> HIDE DEF f, mine, report
<1> QED BY <1>1, <1>2, <1>3, <1>4, FewerFamilies DEF f, mine

LEMMA ClaimsAgree ==
    ASSUME BatchInv, GhidraInv, TriageInv
    PROVE  TriageAgrees
<1> SUFFICES ASSUME last.tool = "triage", tool # "batch", quiet,
                    NEW k \in DOMAIN listed, listed[k] = triaged.path
             PROVE  LET n == NameOf[triaged.path]
                        mine == triaged.report
                        of == output.details[n]
                    IN  /\ ~triaged.error =>
                              /\ n \in DOMAIN output.details
                              /\ of.path = triaged.path =>
                                    /\ mine.size = of.size /\ mine.protections = of.protections
                                    /\ mine.strip = of.strip /\ mine.high_entropy = of.high_entropy
                                    /\ mine.libraries = of.libraries /\ mine.total = of.total
                                    /\ DOMAIN mine.families \subseteq DOMAIN of.families
                                    /\ of.symbols = NoSymbols \/ mine.symbols = of.symbols
                        /\ triaged.error /\ n \in DOMAIN output.details => of.path # triaged.path
    BY DEF TriageAgrees
<1> DEFINE p == triaged.path
           c == tree[p]
           n == NameOf[p]
           of == output.details[n]
<1>1. IsElf(p) /\ p \in Paths
    BY LenProperties DEF BatchInv, Walk, Reading
<1>2. c \in DOMAIN Content /\ Exists(p) /\ Content[c].magic
    BY <1>1 DEF GhidraInv, Typed, IsElf, Exists
<1>3. DetailsAreTrue /\ TriagedIsTrue
    BY LenProperties DEF TriageInv, BatchInv, Walk
<1>4. triaged.error <=> ~Content[c].lief
    BY <1>2, <1>3 DEF TriagedIsTrue
<1>5. n \in DOMAIN output.details /\ of.path = p =>
         Content[c].lief /\ of = Report(of.path, Content[c], Content[c].size,
                                       SymbolsRead(Content[c]), of.yara)
    BY <1>3 DEF DetailsAreTrue
<1>6. Content[c].lief => n \in DOMAIN output.details /\ triaged.report = TriageReport(Content[c])
    BY <1>2, <1>3 DEF DetailsAreTrue, TriagedIsTrue
<1> HIDE DEF c
<1> QED BY <1>2, <1>4, <1>5, <1>6, SameFile

(***************************************************************************)
(* TriageAgrees: triage.py and the checkpoint agree on a file nobody       *)
(* touched since the checkpoint listed it, for every file lief parses or   *)
(* refuses, every symbol table, and any number of runs of the tools and    *)
(* changes to other states of the directory before                         *)
(* (ch35-checkpoint-batch.py:151-310; triage.py:104-328).                  *)
(***************************************************************************)
THEOREM TriageSaysTheSame == Spec => []TriageAgrees
<1>1. Init => Places /\ BatchInv /\ GhidraInv /\ TriageInv
    BY IInvInit, BatchInvInit, GhidraInvInit, TriageInvInit DEF IInv
<1>2. IInv => Places
    BY DEF IInv
<1>3. /\ Places /\ BatchInv /\ [Next]_vars => BatchInv'
      /\ Places /\ GhidraInv /\ [Next]_vars => GhidraInv'
      /\ Places /\ BatchInv /\ TriageInv /\ [Next]_vars => TriageInv'
    BY BatchInvNext, GhidraInvNext, TriageInvNext
<1>4. BatchInv /\ GhidraInv /\ TriageInv => TriageAgrees
    BY ClaimsAgree
<1> QED BY <1>1, <1>2, <1>3, <1>4, Invariant, PTL DEF Spec
=============================================================================
