---------------------------- MODULE Ch22Pipeline ----------------------------
(***************************************************************************)
(* The host of chapter 22 (binaries/ch22-oop/oop.cpp) from main's first    *)
(* processor to the end of ~Pipeline: it makes two processors of its own,  *)
(* loads what plugins it finds in a directory, in the order readdir        *)
(* returns them, sorts all by priority, sends a text through them by two   *)
(* buffers in turn, and gives everything back.                             *)
(*                                                                         *)
(* Two entries of the directory may lead to one library: dlopen counts.    *)
(* An object is used through the code of its library, which is there as    *)
(* long as one of the entries that lead to it is open.                     *)
(*                                                                         *)
(* Identifiers are only printed and are left out.                          *)
(***************************************************************************)
EXTENDS Ch22Processors, FiniteSets, Functions

CONSTANTS
    Entries,      \* file names
    SoFiles,      \* those that end in .so
    Library,      \* Library[e]: the file behind the name
    Plugin,       \* Plugin[l]: what dlopen, dlsym and create_processor make of it
    upper, rev,   \* the host's own processors
    Directories,  \* what a directory may hold; none, when opendir fails
    Inputs        \* texts on the command line

Hosts == {upper, rev}
Processors == Hosts \cup Entries

ASSUME PluginAssumption ==
    /\ SoFiles \subseteq Entries /\ upper # rev /\ Hosts \cap Entries = {}
    /\ \A e \in Entries :
          /\ Plugin[Library[e]].priority \in Int
          /\ Plugin[Library[e]].op \in {"rot13", "leet", "xor", "error"}
          /\ Plugin[Library[e]].loads \in
                {"created", "no dlopen", "no symbols", "no instance"}
    /\ Directories \subseteq SUBSET Entries

ASSUME InputAssumption == Inputs \subseteq Seq(Chars)

Priority(p) ==
    CASE p = upper -> 10
      [] p = rev -> 20
      [] OTHER -> Plugin[Library[p]].priority

Loads(e) == e \in SoFiles /\ Plugin[Library[e]].loads = "created"

Does(e, op) == Loads(e) /\ Plugin[Library[e]].op = op

(***************************************************************************)
(* What a directory may hold.  The plugins of the repository have          *)
(* priorities 30, 40 and 50, behind those of the host.  Each plugin may    *)
(* stand in a directory under several names, but XorCipher, whose output   *)
(* is no text of Chars any more.                                           *)
(***************************************************************************)
ASSUME OrderAssumption ==
    \A d \in Directories : \A e, f \in d :
       /\ Does(e, "rot13") /\ Does(f, "leet") => Priority(e) < Priority(f)
       /\ Does(f, "xor") => Priority(f) > Priority(rev)
       /\ (Does(e, "rot13") \/ Does(e, "leet")) /\ Does(f, "xor") => Priority(e) < Priority(f)
       /\ Does(e, "xor") /\ Does(f, "xor") => e = f

VARIABLES
    pc,
    dir,          \* entries readdir has yet to return
    text,         \* the command line: the text
    disabled,     \*   -d
    word_mode,    \*   -w
    internal_, plugins_, all_,
    alive,        \* objects that exist
    open,         \* entries with a handle that is not yet closed
    pos,          \* place of the loop at hand
    bufs,         \* the texts in buf_a and buf_b
    current_in,   \* "text" or a buffer
    current_out,  \* a buffer; alternate is the other
    ret           \* what execute returned
vars == <<pc, dir, text, disabled, word_mode, internal_, plugins_, all_, alive, open,
          pos, bufs, current_in, current_out, ret>>

arguments == <<text, disabled, word_mode>>
objects == <<internal_, plugins_, alive, open>>
buffers == <<bufs, current_in, current_out>>

Init ==
    /\ pc = "start"
    /\ dir \in Directories /\ text \in Inputs
    /\ disabled \in BOOLEAN /\ word_mode \in BOOLEAN
    /\ internal_ = <<>> /\ plugins_ = <<>> /\ all_ = <<>>
    /\ alive = {} /\ open = {}
    /\ pos = 1
    /\ bufs = [b \in {"a", "b"} |-> <<>>]
    /\ current_in = "text" /\ current_out = "a"
    /\ ret = "none"

-----------------------------------------------------------------------------
(***************************************************************************)
(* Loading.  A definition whose name begins with Bug is a wrong variant of *)
(* the definition that follows it; no specification uses it.               *)
(***************************************************************************)

\* new UpperCaseProcessor, new ReverseProcessor and add_internal.
AddInternals ==
    /\ pc = "start"
    /\ alive' = {upper, rev}
    /\ internal_' = <<upper, rev>> /\ all_' = <<upper, rev>>
    /\ pc' = "load"
    /\ UNCHANGED <<dir, arguments, plugins_, open, pos, buffers, ret>>

\* dlclose is forgotten where create_processor returned NULL.
BugStillOpen(e) == IF Plugin[Library[e]].loads = "no instance" THEN {e} ELSE {}

\* load_plugin closes again what it opened and cannot use.
StillOpen(e) == {}

LoadPlugin(e) ==
    /\ pc = "load" /\ e \in dir
    /\ dir' = dir \ {e}
    /\ \/ /\ Loads(e)
          /\ plugins_' = Append(plugins_, e) /\ all_' = Append(all_, e)
          /\ alive' = alive \cup {e} /\ open' = open \cup {e}
       \/ /\ ~Loads(e)
          /\ open' = open \cup StillOpen(e)
          /\ UNCHANGED <<plugins_, all_, alive>>
    /\ UNCHANGED <<pc, arguments, internal_, pos, buffers, ret>>

LoadDone ==
    /\ pc = "load" /\ dir = {}
    /\ pc' = "sort"
    /\ UNCHANGED <<dir, arguments, objects, all_, pos, buffers, ret>>

-----------------------------------------------------------------------------
(***************************************************************************)
(* Pipeline::execute.                                                      *)
(***************************************************************************)

\* The processors stay in the order they were added.
BugSorted(s) == s = all_

\* std::sort leaves the order of equal priorities open.
Sorted(s) == \A i, j \in DOMAIN s : i < j => Priority(s[i]) <= Priority(s[j])

Sort ==
    /\ pc = "sort"
    /\ \E s \in Bijection(1..Len(all_), {all_[i] : i \in DOMAIN all_}) :
          /\ Sorted(s)
          /\ all_' = s
    /\ pc' = "run" /\ pos' = 1
    /\ current_in' = "text" /\ current_out' = "a"
    /\ UNCHANGED <<dir, arguments, objects, bufs, ret>>

Other(b) == IF b = "a" THEN "b" ELSE "a"

Content == IF current_in = "text" THEN text ELSE bufs[current_in]

Enabled(p) == ~(p = rev /\ disabled)

Fails(p) == p \in Entries /\ Plugin[Library[p]].op = "error"

Processed(p, s) ==
    CASE p = upper -> UpperCase(s)
      [] p = rev -> IF word_mode THEN ReverseWords(s) ELSE ReverseAll(s)
      [] p \in Entries /\ Plugin[Library[p]].op = "rot13" -> Rot13(s)
      [] p \in Entries /\ Plugin[Library[p]].op = "leet" -> LeetSpeak(s)
      [] OTHER -> XorHex(s)

\* continue does not come to the next processor.
BugAfterSkip == pos

AfterSkip == pos + 1

Skip ==
    /\ pc = "run" /\ pos <= Len(all_) /\ ~Enabled(all_[pos])
    /\ pos' = AfterSkip
    /\ UNCHANGED <<pc, dir, arguments, objects, all_, buffers, ret>>

\* The next processor writes where this one did.
BugNextOut == current_out

NextOut == Other(current_out)

Step ==
    /\ pc = "run" /\ pos <= Len(all_)
    /\ Enabled(all_[pos]) /\ ~Fails(all_[pos])
    /\ bufs' = [bufs EXCEPT ![current_out] = Processed(all_[pos], Content)]
    /\ current_in' = current_out
    /\ current_out' = NextOut
    /\ pos' = pos + 1
    /\ UNCHANGED <<pc, dir, arguments, objects, all_, ret>>

\* A processor returns -1: execute ends; ~Pipeline follows.
StepFails ==
    /\ pc = "run" /\ pos <= Len(all_) /\ Fails(all_[pos])
    /\ ret' = "-1"
    /\ pc' = "internals" /\ pos' = 1
    /\ UNCHANGED <<dir, arguments, objects, all_, buffers>>

\* The output and the status of each processor are printed.
Report ==
    /\ pc = "run" /\ pos > Len(all_)
    /\ ret' = "0"
    /\ pc' = "internals" /\ pos' = 1
    /\ UNCHANGED <<dir, arguments, objects, all_, buffers>>

-----------------------------------------------------------------------------
(***************************************************************************)
(* ~Pipeline.                                                              *)
(***************************************************************************)
DeleteInternal ==
    /\ pc = "internals"
    /\ IF pos <= Len(internal_)
       THEN /\ alive' = alive \ {internal_[pos]}
            /\ pos' = pos + 1 /\ UNCHANGED pc
       ELSE pc' = "destroy" /\ pos' = 1 /\ UNCHANGED alive
    /\ UNCHANGED <<dir, arguments, internal_, plugins_, open, all_, buffers, ret>>

\* dlclose comes before destroy.
BugDestroyPlugin ==
    /\ pc = "destroy" /\ pos <= Len(plugins_)
    /\ open' = open \ {plugins_[pos]}
    /\ pc' = "dlclose"
    /\ UNCHANGED <<dir, arguments, internal_, plugins_, alive, pos, all_, buffers, ret>>

DestroyPlugin ==
    /\ pc = "destroy" /\ pos <= Len(plugins_)
    /\ alive' = alive \ {plugins_[pos]}
    /\ pc' = "dlclose"
    /\ UNCHANGED <<dir, arguments, internal_, plugins_, open, pos, all_, buffers, ret>>

ClosePlugin ==
    /\ pc = "dlclose"
    /\ open' = open \ {plugins_[pos]}
    /\ pc' = "destroy" /\ pos' = pos + 1
    /\ UNCHANGED <<dir, arguments, internal_, plugins_, alive, all_, buffers, ret>>

Exit ==
    /\ pc = "destroy" /\ pos > Len(plugins_)
    /\ pc' = "exited"
    /\ UNCHANGED <<dir, arguments, objects, all_, pos, buffers, ret>>

-----------------------------------------------------------------------------
Next ==
    \/ AddInternals \/ LoadDone \/ \E e \in Entries : LoadPlugin(e)
    \/ Sort \/ Skip \/ Step \/ StepFails \/ Report
    \/ DeleteInternal \/ DestroyPlugin \/ ClosePlugin \/ Exit

\* One process, which nothing holds up.
Spec == Init /\ [][Next]_vars /\ WF_vars(Next)

-----------------------------------------------------------------------------
(***************************************************************************)
(* Properties.                                                             *)
(***************************************************************************)
TypeOK ==
    /\ pc \in {"start", "load", "sort", "run", "internals", "destroy", "dlclose", "exited"}
    /\ dir \in SUBSET Entries
    /\ text \in Inputs /\ disabled \in BOOLEAN /\ word_mode \in BOOLEAN
    /\ internal_ \in Seq(Hosts) /\ plugins_ \in Seq(Entries) /\ all_ \in Seq(Processors)
    /\ alive \in SUBSET Processors /\ open \in SUBSET Entries
    /\ pos \in Nat \ {0}
    /\ DOMAIN bufs = {"a", "b"}
    /\ current_in \in {"text", "a", "b"} /\ current_out \in {"a", "b"}
    /\ ret \in {"none", "0", "-1"}

\* The code of l is mapped.
Mapped(l) == \E e \in open : Library[e] = l

(***************************************************************************)
(* No object is used after its end or without the code of its library: an  *)
(* object of a plugin exists only while its library is mapped, what        *)
(* execute calls next exists, and ~Pipeline destroys what exists, each     *)
(* object once, in the presence of other entries of the same library, of   *)
(* failed loads and of an execute that was left early (oop.cpp:180-325).   *)
(***************************************************************************)
UsedInItsLife ==
    /\ \A e \in alive \cap Entries : Mapped(Library[e])
    /\ pc = "run" => {all_[i] : i \in DOMAIN all_} = alive
    /\ pc = "internals" /\ pos <= Len(internal_) => internal_[pos] \in alive
    /\ pc = "destroy" /\ pos <= Len(plugins_) =>
          plugins_[pos] \in alive /\ plugins_[pos] \in open

(***************************************************************************)
(* Nothing is left behind: a handle that is not closed belongs to a plugin *)
(* that ~Pipeline has yet to come to, and at the end no object and no      *)
(* handle is left, whatever failed (oop.cpp:203-244, 180-194).             *)
(***************************************************************************)
NothingLeftBehind ==
    /\ \A e \in open : \E i \in DOMAIN plugins_ :
          plugins_[i] = e /\ (pc \in {"destroy", "dlclose", "exited"} => pos <= i)
    /\ pc = "exited" => alive = {} /\ open = {}

(***************************************************************************)
(* The processor at hand never writes into the buffer it reads, however    *)
(* many are skipped (oop.cpp:281-311): Reverse could not stand that.       *)
(***************************************************************************)
BuffersApart == pc = "run" => current_in # current_out

(***************************************************************************)
(* What the pipeline should print: each letter goes through what is        *)
(* loaded, in the order of priorities, and each word or the whole text is  *)
(* turned round, after the cut at CAP; XorCipher halves the room.          *)
(***************************************************************************)
Loaded(op) == {i \in DOMAIN plugins_ : Plugin[Library[plugins_[i]]].op = op}

Turned ==
    CASE disabled -> Cut(text)
      [] ~disabled /\ word_mode -> WordsMirrored(Cut(text))
      [] OTHER -> [i \in DOMAIN Cut(text) |-> Cut(text)[Len(Cut(text)) + 1 - i]]

Shift == Cardinality(Loaded("rot13")) * (Letters \div 2)
Capital(ch) == IF IsLetter(ch) THEN Upper((ch.n + Shift) % Letters) ELSE ch
Written(ch) == IF Loaded("leet") # {} THEN ToLeet(Capital(ch)) ELSE Capital(ch)
Room(s) == IF 2 * Len(s) < CAP THEN Len(s) ELSE (CAP - 1) \div 2

Expected ==
    IF Loaded("xor") = {}
    THEN [i \in DOMAIN Turned |-> Written(Turned[i])]
    ELSE [i \in 1..2 * Room(Cut(text)) |-> Half(Written(Turned[(i + 1) \div 2]), i % 2)]

(***************************************************************************)
(* The output is that, whatever the order of the directory and wherever    *)
(* buffers and skipped processors stand, also when XorCipher doubles what  *)
(* a buffer of CAP with its NUL has room for; execute fails exactly when a *)
(* processor does (oop.cpp:269-325, plugin_beta.cpp:64-76).                *)
(***************************************************************************)
OutputIsComposition ==
    ret # "none" =>
        /\ ret = "-1" <=> Loaded("error") # {}
        /\ ret = "0" => Content = Expected

(***************************************************************************)
(* The program ends, and ~Pipeline runs to its end (oop.cpp:349-407).      *)
(***************************************************************************)
Ends == <>(pc = "exited")
=============================================================================
