------------------------- MODULE Ch22PipelineProofs -------------------------
(***************************************************************************)
(* Theorems about the life of processors and plugins, for every directory, *)
(* every set of plugins, and every way of loading to fail; and about what  *)
(* the pipeline prints, for every alphabet, buffer size and text.          *)
(***************************************************************************)
EXTENDS Ch22Pipeline, SequenceTheorems, FiniteSetTheorems, WellFoundedInduction, TLAPS

\* The elements of s from place k on.
From(s, k) == {s[i] : i \in {j \in DOMAIN s : k <= j}}

(***************************************************************************)
(* What exists, phase by phase.  It is inductive only with where the loops *)
(* of ~Pipeline stand, and because readdir returns an entry once.          *)
(***************************************************************************)
Once ==
    /\ \A i, j \in DOMAIN plugins_ : plugins_[i] = plugins_[j] => i = j
    /\ \A i \in DOMAIN plugins_ : plugins_[i] \notin dir

Life ==
    CASE pc = "start" ->
            plugins_ = <<>> /\ alive = {} /\ open = {} /\ pos = 1
      [] pc \in {"load", "sort", "run"} ->
            /\ open = From(plugins_, 1)
            /\ alive = Hosts \cup open
            /\ alive = {all_[i] : i \in DOMAIN all_}
      [] pc = "internals" ->
            /\ open = From(plugins_, 1)
            /\ alive = From(internal_, pos) \cup open
      [] pc = "destroy" ->
            open = From(plugins_, pos) /\ alive = open
      [] pc = "dlclose" ->
            /\ pos \in DOMAIN plugins_
            /\ open = From(plugins_, pos) /\ alive = From(plugins_, pos + 1)
      [] OTHER -> open = {} /\ alive = {}

IInv ==
    /\ TypeOK /\ Once /\ Life
    /\ pc # "start" => internal_ = <<upper, rev>>
    /\ pc = "run" => current_in # current_out

-----------------------------------------------------------------------------
(***************************************************************************)
(* The rest of a sequence.                                                 *)
(***************************************************************************)
LEMMA FromNext ==
    ASSUME NEW S, NEW s \in Seq(S), NEW k \in DOMAIN s,
           \A i, j \in DOMAIN s : s[i] = s[j] => i = j
    PROVE  From(s, k) \ {s[k]} = From(s, k + 1)
<1>1. DOMAIN s \subseteq Nat
    BY LenProperties
<1> QED BY <1>1 DEF From

LEMMA FromEnd ==
    ASSUME NEW S, NEW s \in Seq(S), NEW k \in Nat, k > Len(s)
    PROVE  From(s, k) = {}
BY LenProperties DEF From

LEMMA FromAppend ==
    ASSUME NEW S, NEW s \in Seq(S), NEW e \in S
    PROVE  From(Append(s, e), 1) = From(s, 1) \cup {e}
<1>1. /\ Len(s) \in Nat /\ DOMAIN s = 1..Len(s)
      /\ Append(s, e) \in Seq(S) /\ Len(Append(s, e)) = Len(s) + 1
      /\ DOMAIN Append(s, e) = 1..Len(s) + 1
      /\ \A i \in 1..Len(s) : Append(s, e)[i] = s[i]
      /\ Append(s, e)[Len(s) + 1] = e
    BY AppendProperties, LenProperties
<1> QED BY <1>1 DEF From

\* Two processors of the host, one after the other.
LEMMA Pair ==
    /\ DOMAIN <<upper, rev>> = {1, 2} /\ <<upper, rev>> \in Seq(Hosts)
    /\ From(<<upper, rev>>, 1) = Hosts
    /\ \A i, j \in DOMAIN <<upper, rev>> : <<upper, rev>>[i] = <<upper, rev>>[j] => i = j
<1>1. DOMAIN <<upper, rev>> = {1, 2}
    OBVIOUS
<1>2. <<upper, rev>>[1] = upper /\ <<upper, rev>>[2] = rev
    OBVIOUS
<1>3. <<upper, rev>> \in Seq(Hosts)
    BY DEF Hosts
<1>4. {i \in DOMAIN <<upper, rev>> : 1 <= i} = {1, 2}
    BY <1>1
<1>5. From(<<upper, rev>>, 1) = Hosts
    BY <1>2, <1>4 DEF From, Hosts
<1>6. upper # rev
    BY PluginAssumption
<1> QED BY <1>1, <1>2, <1>3, <1>5, <1>6

-----------------------------------------------------------------------------
LEMMA IInvInit == Init => IInv
<1> SUFFICES ASSUME Init PROVE IInv
    OBVIOUS
<1>1. DOMAIN <<>> = {} /\ <<>> \in Seq(Hosts) /\ <<>> \in Seq(Entries)
      /\ <<>> \in Seq(Processors)
    OBVIOUS
<1>2. TypeOK
  <2>1. dir \in SUBSET Entries /\ text \in Inputs
      BY PluginAssumption DEF Init
  <2>2. disabled \in BOOLEAN /\ word_mode \in BOOLEAN
      BY DEF Init
  <2>3. DOMAIN bufs = {"a", "b"}
      BY DEF Init
  <2>4. /\ pc = "start" /\ internal_ = <<>> /\ plugins_ = <<>> /\ all_ = <<>>
        /\ alive = {} /\ open = {} /\ pos = 1
        /\ current_in = "text" /\ current_out = "a" /\ ret = "none"
      BY DEF Init
  <2> QED BY <1>1, <2>1, <2>2, <2>3, <2>4 DEF TypeOK
<1>3. Once /\ Life
    BY <1>1 DEF Init, Once, Life
<1> QED BY <1>2, <1>3 DEF Init, IInv

LEMMA LoadKeeps ==
    ASSUME IInv, NEW e \in Entries, LoadPlugin(e)
    PROVE  IInv'
<1> USE DEF IInv
<1>1. pc = "load" /\ pc' = "load" /\ e \in dir /\ dir' = dir \ {e}
      /\ UNCHANGED <<arguments, internal_, pos, buffers, ret>>
    BY DEF LoadPlugin
<1>2. plugins_ \in Seq(Entries) /\ all_ \in Seq(Processors) /\ e \in Processors
    BY DEF TypeOK, Processors
<1>3. open = From(plugins_, 1) /\ alive = Hosts \cup open
      /\ alive = {all_[i] : i \in DOMAIN all_}
    BY <1>1 DEF Life
<1>4. CASE Loads(e)
  <2>1. /\ plugins_' = Append(plugins_, e) /\ all_' = Append(all_, e)
        /\ alive' = alive \cup {e} /\ open' = open \cup {e}
      BY <1>4 DEF LoadPlugin
  <2>2. /\ plugins_' \in Seq(Entries) /\ DOMAIN plugins_' = 1..Len(plugins_) + 1
        /\ Len(plugins_) \in Nat /\ DOMAIN plugins_ = 1..Len(plugins_)
        /\ plugins_'[Len(plugins_) + 1] = e
        /\ \A i \in DOMAIN plugins_ : plugins_'[i] = plugins_[i]
      BY <1>2, <2>1, AppendProperties, LenProperties
  <2>3. /\ all_' \in Seq(Processors) /\ DOMAIN all_' = 1..Len(all_) + 1
        /\ Len(all_) \in Nat /\ DOMAIN all_ = 1..Len(all_)
        /\ all_'[Len(all_) + 1] = e
        /\ \A i \in DOMAIN all_ : all_'[i] = all_[i]
      BY <1>2, <2>1, AppendProperties, LenProperties
  <2>4. TypeOK'
      BY <1>1, <1>2, <2>1, <2>2, <2>3 DEF TypeOK, arguments, buffers
  <2>5. Once'
      BY <1>1, <2>2 DEF Once
  <2>6. open' = From(plugins_', 1)
      BY <1>2, <1>3, <2>1, FromAppend
  <2>7. alive' = {all_'[i] : i \in DOMAIN all_'}
      BY <1>3, <2>1, <2>3
  <2>8. Life'
      BY <1>1, <1>3, <2>1, <2>6, <2>7 DEF Life
  <2> QED BY <1>1, <2>4, <2>5, <2>8
<1>5. CASE ~Loads(e)
  <2>1. UNCHANGED <<plugins_, all_, alive, open>>
      BY <1>5 DEF LoadPlugin, StillOpen
  <2>2. TypeOK'
      BY <1>1, <2>1 DEF TypeOK, arguments, buffers
  <2>3. Once' /\ Life'
      BY <1>1, <2>1 DEF Once, Life
  <2> QED BY <1>1, <2>2, <2>3
<1> QED BY <1>4, <1>5

LEMMA SortKeeps ==
    ASSUME IInv, Sort
    PROVE  IInv'
<1> USE DEF IInv
<1>1. /\ pc = "sort" /\ pc' = "run" /\ pos' = 1
      /\ current_in' = "text" /\ current_out' = "a"
      /\ UNCHANGED <<dir, arguments, objects, bufs, ret>>
    BY DEF Sort
<1>2. /\ all_' \in [1..Len(all_) -> {all_[i] : i \in DOMAIN all_}]
      /\ \A p \in {all_[i] : i \in DOMAIN all_} : \E i \in 1..Len(all_) : all_'[i] = p
    BY DEF Sort, Bijection, Surjection, Injection
<1>3. Len(all_) \in Nat /\ alive = {all_[i] : i \in DOMAIN all_} /\ alive \subseteq Processors
    BY <1>1, LenProperties DEF TypeOK, Life
<1>4. all_' \in [1..Len(all_) -> Processors] /\ alive = {all_'[i] : i \in DOMAIN all_'}
    BY <1>2, <1>3
<1>5. all_' \in Seq(Processors)
    BY <1>3, <1>4
<1>6. TypeOK'
    BY <1>1, <1>5 DEF TypeOK, arguments, objects
<1>7. Once'
    BY <1>1 DEF Once, objects
<1>8. Life'
    BY <1>1, <1>4 DEF Life, objects
<1> QED BY <1>1, <1>6, <1>7, <1>8 DEF objects

LEMMA RunKeeps ==
    ASSUME IInv, Skip \/ Step \/ StepFails \/ Report
    PROVE  IInv'
<1> USE DEF IInv
<1>1. pc = "run" /\ UNCHANGED <<dir, arguments, objects, all_>>
    BY DEF Skip, Step, StepFails, Report
<1>2. Once'
    BY <1>1 DEF Once, objects
<1>3. pos' \in Nat \ {0}
    BY DEF Skip, Step, StepFails, Report, AfterSkip, TypeOK
<1>4. CASE Skip \/ Step
  <2>1. pc' = "run" /\ ret' = ret
      BY <1>1, <1>4 DEF Skip, Step
  <2>2. /\ DOMAIN bufs' = {"a", "b"}
        /\ current_in' \in {"text", "a", "b"} /\ current_out' \in {"a", "b"}
        /\ current_in' # current_out'
      BY <1>1, <1>4 DEF Skip, Step, buffers, NextOut, Other, TypeOK
  <2>3. TypeOK'
      BY <1>1, <1>3, <2>1, <2>2 DEF TypeOK, arguments, objects
  <2>4. Life'
      BY <1>1, <2>1 DEF Life, objects
  <2> QED BY <1>1, <1>2, <2>2, <2>3, <2>4 DEF objects
<1>5. CASE StepFails \/ Report
  <2>1. pc' = "internals" /\ pos' = 1 /\ ret' \in {"-1", "0"} /\ UNCHANGED buffers
      BY <1>5 DEF StepFails, Report
  <2>2. TypeOK'
      BY <1>1, <2>1 DEF TypeOK, arguments, objects, buffers
  <2>3. internal_ = <<upper, rev>> /\ open = From(plugins_, 1) /\ alive = Hosts \cup open
      BY <1>1 DEF Life
  <2>4. Life'
      BY <1>1, <2>1, <2>3, Pair DEF Life, objects
  <2> QED BY <1>1, <1>2, <2>1, <2>2, <2>4 DEF objects
<1> QED BY <1>4, <1>5

LEMMA EndKeeps ==
    ASSUME IInv, DeleteInternal \/ DestroyPlugin \/ ClosePlugin \/ Exit
    PROVE  IInv'
<1> USE DEF IInv
<1>1. UNCHANGED <<dir, arguments, internal_, plugins_, all_, buffers, ret>>
    BY DEF DeleteInternal, DestroyPlugin, ClosePlugin, Exit, objects
<1>2. Once'
    BY <1>1 DEF Once
<1>3. /\ plugins_ \in Seq(Entries) /\ Len(plugins_) \in Nat
      /\ DOMAIN plugins_ = 1..Len(plugins_) /\ pos \in Nat \ {0}
    BY LenProperties DEF TypeOK
<1>4. CASE DeleteInternal
  <2>1. /\ pc = "internals" /\ internal_ = <<upper, rev>> /\ Len(internal_) = 2
        /\ UNCHANGED open /\ open = From(plugins_, 1)
        /\ alive = From(internal_, pos) \cup open
      BY <1>4 DEF DeleteInternal, Life
  <2>2. CASE pos <= Len(internal_)
    <3>1. pos' = pos + 1 /\ pc' = "internals" /\ alive' = alive \ {internal_[pos]}
        BY <1>4, <2>1, <2>2 DEF DeleteInternal
    <3>2. pos \in DOMAIN internal_ /\ internal_[pos] \in Hosts
        BY <1>3, <2>1, <2>2, Pair DEF Hosts
    <3>3. From(internal_, pos) \ {internal_[pos]} = From(internal_, pos + 1)
        BY <2>1, <3>2, Pair, FromNext
    <3>4. internal_[pos] \notin open
        BY <3>2, PluginAssumption DEF TypeOK
    <3>5. alive' = From(internal_, pos + 1) \cup open
        BY <2>1, <3>1, <3>3, <3>4
    <3>6. alive' \in SUBSET Processors /\ open' \in SUBSET Entries /\ pos' \in Nat \ {0}
      <4>1. alive \in SUBSET Processors /\ open \in SUBSET Entries
          BY DEF TypeOK
      <4>2. pos + 1 \in Nat \ {0}
          BY <1>3
      <4> QED BY <2>1, <3>1, <4>1, <4>2
    <3>7. TypeOK'
        BY <1>1, <3>1, <3>6 DEF TypeOK, arguments, buffers
    <3> QED BY <1>1, <1>2, <2>1, <3>1, <3>5, <3>7 DEF Life
  <2>3. CASE ~(pos <= Len(internal_))
    <3>1. pos' = 1 /\ pc' = "destroy" /\ alive' = alive
        BY <1>4, <2>3 DEF DeleteInternal
    <3>2. From(internal_, pos) = {}
      <4>1. internal_ \in Seq(Hosts) /\ pos \in Nat /\ Len(internal_) \in Nat
          BY <1>3, <2>1, Pair
      <4> QED BY <2>3, <4>1, FromEnd
    <3>3. TypeOK'
      <4>1. UNCHANGED <<alive, open>> /\ pos' \in Nat \ {0}
          BY <2>1, <3>1
      <4> QED BY <1>1, <3>1, <4>1 DEF TypeOK, arguments, buffers
    <3> QED BY <1>1, <1>2, <2>1, <3>1, <3>2, <3>3 DEF Life
  <2> QED BY <2>2, <2>3
<1>5. CASE DestroyPlugin
  <2>1. /\ pc = "destroy" /\ pc' = "dlclose" /\ pos \in DOMAIN plugins_
        /\ alive' = alive \ {plugins_[pos]} /\ UNCHANGED <<open, pos>>
      BY <1>3, <1>5 DEF DestroyPlugin
  <2>2. open = From(plugins_, pos) /\ alive = open
      BY <2>1 DEF Life
  <2>3. alive' = From(plugins_, pos + 1)
      BY <1>3, <2>1, <2>2, FromNext DEF Once
  <2>4. TypeOK'
      BY <1>1, <2>1 DEF TypeOK, arguments, buffers
  <2> QED BY <1>1, <1>2, <2>1, <2>2, <2>3, <2>4 DEF Life
<1>6. CASE ClosePlugin
  <2>1. /\ pc = "dlclose" /\ pc' = "destroy" /\ pos' = pos + 1
        /\ open' = open \ {plugins_[pos]} /\ UNCHANGED alive
      BY <1>6 DEF ClosePlugin
  <2>2. /\ pos \in DOMAIN plugins_
        /\ open = From(plugins_, pos) /\ alive = From(plugins_, pos + 1)
      BY <2>1 DEF Life
  <2>3. open' = From(plugins_, pos + 1)
      BY <1>3, <2>1, <2>2, FromNext DEF Once
  <2>4. TypeOK'
      BY <1>1, <1>3, <2>1 DEF TypeOK, arguments, buffers
  <2> QED BY <1>1, <1>2, <2>1, <2>2, <2>3, <2>4 DEF Life
<1>7. CASE Exit
  <2>1. /\ pc = "destroy" /\ pc' = "exited" /\ pos > Len(plugins_)
        /\ UNCHANGED <<alive, open, pos>>
      BY <1>3, <1>7 DEF Exit, objects
  <2>2. open = {} /\ alive = {}
      BY <1>3, <2>1, FromEnd DEF Life
  <2>3. TypeOK'
      BY <1>1, <2>1 DEF TypeOK, arguments, buffers
  <2> QED BY <1>1, <1>2, <2>1, <2>2, <2>3 DEF Life
<1> QED BY <1>4, <1>5, <1>6, <1>7

LEMMA IInvNext ==
    ASSUME IInv, [Next]_vars
    PROVE  IInv'
<1> USE DEF IInv
<1>1. CASE AddInternals
  <2>1. /\ pc = "start" /\ pc' = "load" /\ alive' = Hosts
        /\ internal_' = <<upper, rev>> /\ all_' = <<upper, rev>>
        /\ UNCHANGED <<dir, arguments, plugins_, open, pos, buffers, ret>>
      BY <1>1 DEF AddInternals, Hosts
  <2>2. <<upper, rev>> \in Seq(Hosts) /\ <<upper, rev>> \in Seq(Processors)
      BY DEF Hosts, Processors
  <2>3. TypeOK'
      BY <2>1, <2>2 DEF TypeOK, arguments, buffers, Processors
  <2>4. DOMAIN <<upper, rev>> = {1, 2}
        /\ {<<upper, rev>>[i] : i \in DOMAIN <<upper, rev>>} = Hosts
      BY DEF Hosts
  <2>5. plugins_ = <<>> /\ open = {} /\ DOMAIN <<>> = {}
      BY <2>1 DEF Life
  <2>6. Once' /\ Life'
      BY <2>1, <2>4, <2>5 DEF Once, Life, From
  <2> QED BY <2>1, <2>3, <2>6
<1>2. CASE LoadDone \/ UNCHANGED vars
  <2>1. UNCHANGED <<dir, arguments, objects, all_, pos, buffers, ret>>
        /\ (pc' = pc \/ (pc = "load" /\ pc' = "sort"))
      BY <1>2 DEF LoadDone, vars, arguments, objects, buffers
  <2>2. TypeOK' /\ Once'
      BY <2>1 DEF TypeOK, Once, arguments, objects, buffers
  <2>3. Life'
      BY <2>1 DEF Life, objects
  <2> QED BY <2>1, <2>2, <2>3 DEF objects, buffers
<1> QED BY <1>1, <1>2, LoadKeeps, SortKeeps, RunKeeps, EndKeeps DEF Next

-----------------------------------------------------------------------------
(***************************************************************************)
(* What exists in each phase, as an inductive invariant of the host.       *)
(***************************************************************************)
THEOREM Invariant == Spec => []IInv
<1>1. Init => IInv
    BY IInvInit
<1>2. IInv /\ [Next]_vars => IInv'
    BY IInvNext
<1> QED BY <1>1, <1>2, PTL DEF Spec

(***************************************************************************)
(* The host's variables keep their types.                                  *)
(***************************************************************************)
THEOREM TypeCorrect == Spec => []TypeOK
<1>1. IInv => TypeOK
    BY DEF IInv
<1> QED BY <1>1, Invariant, PTL

LEMMA LifeUse == ASSUME IInv PROVE UsedInItsLife
<1> USE DEF IInv
<1>1. /\ plugins_ \in Seq(Entries) /\ Len(plugins_) \in Nat
      /\ DOMAIN plugins_ = 1..Len(plugins_) /\ pos \in Nat \ {0}
    BY LenProperties DEF TypeOK
<1>2. ASSUME NEW e \in alive \cap Entries
      PROVE  e \in open
  <2>1. e \notin Hosts
      BY <1>2, PluginAssumption
  <2>2. pc = "internals" => \A p \in From(internal_, pos) : p \in Hosts
      BY Pair DEF From, Hosts
  <2>3. pc = "dlclose" => From(plugins_, pos + 1) \subseteq From(plugins_, pos)
      BY <1>1 DEF From
  <2> QED BY <1>2, <2>1, <2>2, <2>3 DEF Life, TypeOK
<1>3. pc = "run" => {all_[i] : i \in DOMAIN all_} = alive
    BY DEF Life
<1>4. pc = "internals" /\ pos <= Len(internal_) => internal_[pos] \in alive
  <2> SUFFICES ASSUME pc = "internals", pos <= Len(internal_)
               PROVE  internal_[pos] \in alive
      OBVIOUS
  <2>1. DOMAIN internal_ = {1, 2} /\ Len(internal_) = 2
    <3>1. internal_ = <<upper, rev>>
        BY DEF Life
    <3> QED BY <3>1, Pair
  <2>2. pos \in DOMAIN internal_
      BY <1>1, <2>1
  <2>3. internal_[pos] \in From(internal_, pos)
      BY <1>1, <2>2 DEF From
  <2> QED BY <2>3 DEF Life
<1>5. pc = "destroy" /\ pos <= Len(plugins_) =>
        plugins_[pos] \in alive /\ plugins_[pos] \in open
    BY <1>1 DEF Life, From
<1> QED BY <1>2, <1>3, <1>4, <1>5 DEF UsedInItsLife, Mapped

LEMMA LifeEnds == ASSUME IInv PROVE NothingLeftBehind
<1> USE DEF IInv
<1>1. /\ plugins_ \in Seq(Entries) /\ Len(plugins_) \in Nat
      /\ DOMAIN plugins_ = 1..Len(plugins_) /\ pos \in Nat \ {0}
    BY LenProperties DEF TypeOK
<1>2. pc \in {"load", "sort", "run", "internals"} => open = From(plugins_, 1)
    BY DEF Life
<1>3. pc \in {"destroy", "dlclose"} => open = From(plugins_, pos)
    BY DEF Life
<1>4. pc \in {"start", "exited"} => open = {}
    BY DEF Life
<1>5. pc = "exited" => alive = {}
    BY DEF Life
<1>6. ASSUME NEW e \in open
      PROVE  \E i \in DOMAIN plugins_ :
                plugins_[i] = e /\ (pc \in {"destroy", "dlclose", "exited"} => pos <= i)
    BY <1>1, <1>2, <1>3, <1>4 DEF From, TypeOK
<1> QED BY <1>4, <1>5, <1>6 DEF NothingLeftBehind

(***************************************************************************)
(* No object is used after its end or without the code of its library      *)
(* (oop.cpp:180-325).                                                      *)
(***************************************************************************)
THEOREM Lifetimes == Spec => []UsedInItsLife
<1>1. IInv => UsedInItsLife
    BY LifeUse
<1> QED BY <1>1, Invariant, PTL

(***************************************************************************)
(* Every handle that is open belongs to a plugin still to be unloaded, and *)
(* the end of main leaves none, nor an object (oop.cpp:180-244).           *)
(***************************************************************************)
THEOREM Released == Spec => []NothingLeftBehind
<1>1. IInv => NothingLeftBehind
    BY LifeEnds
<1> QED BY <1>1, Invariant, PTL

(***************************************************************************)
(* No processor reads the buffer it writes (oop.cpp:281-311).              *)
(***************************************************************************)
THEOREM Apart == Spec => []BuffersApart
<1>1. IInv => BuffersApart
    BY DEF IInv, BuffersApart
<1> QED BY <1>1, Invariant, PTL

-----------------------------------------------------------------------------
(***************************************************************************)
(* Numbers.  A set of them stands for the property induction is over.      *)
(***************************************************************************)
\* A set of numbers has a least one.
LEMMA LeastNumber ==
    ASSUME NEW T \in SUBSET Nat, T # {}
    PROVE  \E x \in T : \A y \in T : x <= y
<1> DEFINE R == OpToRel(<, Nat)
<1>1. R = {ss \in Nat \X Nat : ss[1] < ss[2]}
    BY DEF OpToRel
<1>2. IsWellFoundedOn(R, Nat)
    BY NatLessThanWellFounded
<1> HIDE DEF R
<1>3. PICK x \in T : \A y \in T : ~ (<<y, x>> \in R)
    BY <1>2, WFMin
<1>4. \A y \in T : <<y, x>> \in Nat \X Nat /\ <<y, x>>[1] = y /\ <<y, x>>[2] = x
    OBVIOUS
<1>5. \A y \in T : ~ (y < x)
    BY <1>1, <1>3, <1>4
<1> QED BY <1>5

\* What holds of 0, and of a number when it holds of the one before, holds of every number.
LEMMA Induction ==
    ASSUME NEW T \in SUBSET Nat, 0 \in T, \A n \in T : n + 1 \in T
    PROVE  T = Nat
<1> SUFFICES ASSUME Nat \ T # {} PROVE FALSE
    OBVIOUS
<1>1. PICK n \in Nat \ T : \A m \in Nat \ T : n <= m
    BY LeastNumber
<1>2. n # 0 /\ n - 1 \in Nat /\ n - 1 \notin Nat \ T
    BY <1>1
<1> QED BY <1>2

\* Quotient and remainder.
LEMMA Divide ==
    ASSUME NEW n \in Int, NEW m \in Nat \ {0}
    PROVE  \E q \in Int, r \in 0..m - 1 : n % m = r /\ n = q * m + r
<1>1. PICK q \in Int : q = n \div m
    OBVIOUS
<1>2. PICK r \in 0..m - 1 : r = n % m
    OBVIOUS
<1>3. n - m * q = r
    BY <1>1, <1>2
<1>4. m * q = q * m /\ m * q \in Int
    OBVIOUS
<1>5. n = q * m + r
    BY <1>3, <1>4
<1> QED BY <1>2, <1>5

\* No multiple of m but 0 lies between -m and m.
LEMMA NoMultiple ==
    ASSUME NEW d \in Int, NEW m \in Nat \ {0}, -m < d * m, d * m < m
    PROVE  d = 0
<1>1. CASE d >= 1
  <2>1. (d - 1) * m >= 0
      BY <1>1
  <2>2. (d - 1) * m = d * m - m
      OBVIOUS
  <2> QED BY <2>1, <2>2
<1>2. CASE d <= -1
  <2>1. (-d - 1) * m >= 0
      BY <1>2
  <2>2. (-d - 1) * m = -(d * m) - m
      OBVIOUS
  <2> QED BY <2>1, <2>2
<1> QED BY <1>1, <1>2

\* Turns add up.
LEMMA RemainderOfSum ==
    ASSUME NEW m \in Nat \ {0}, NEW a \in Nat, NEW b \in Nat
    PROVE  ((a % m) + b) % m = (a + b) % m
<1>1. PICK q \in Int, r \in 0..m - 1 : a % m = r /\ a = q * m + r
  <2>1. a \in Int
      OBVIOUS
  <2> QED BY <2>1, Divide
<1>2. r + b \in Int /\ a + b \in Int
    OBVIOUS
<1>3. PICK p \in Int, x \in 0..m - 1 : (r + b) % m = x /\ r + b = p * m + x
    BY <1>2, Divide
<1>4. PICK s \in Int, y \in 0..m - 1 : (a + b) % m = y /\ a + b = s * m + y
    BY <1>2, Divide
<1>5. x = y
  <2>1. a = q * m + r /\ r + b = p * m + x /\ a + b = s * m + y
      BY <1>1, <1>3, <1>4
  <2>2. (q + p - s) * m = q * m + p * m - s * m
      OBVIOUS
  <2>3. q * m \in Int /\ p * m \in Int /\ s * m \in Int /\ q + p - s \in Int
      OBVIOUS
  <2>4. (q + p - s) * m = y - x
      BY <2>1, <2>2, <2>3
  <2>5. q + p - s = 0
      BY <2>3, <2>4, NoMultiple
  <2> QED BY <2>4, <2>5
<1> QED BY <1>1, <1>3, <1>4, <1>5

-----------------------------------------------------------------------------
(***************************************************************************)
(* What the processors make of one character.  Case commutes with all;     *)
(* to_leet does not with rot13, which turns no digit.                      *)
(***************************************************************************)
HalfTurn == Letters \div 2

Moved(ch, c) == IF IsLetter(ch) THEN [ch EXCEPT !.n = (@ + c * HalfTurn) % Letters] ELSE ch

\* A character turned c times, made a capital or not, written in digits or not.
Shaped(ch, c, u, l) ==
    LET m == IF u = 1 THEN ToUpper(Moved(ch, c)) ELSE Moved(ch, c)
    IN  IF l = 1 THEN ToLeet(m) ELSE m

PlainLetter(k, n) == [kind |-> k, n |-> n]

\* A character of a text is a letter, a digit or a space.
LEMMA CharIs ==
    ASSUME NEW ch \in Chars
    PROVE  \/ \E k \in {"lower", "upper"}, n \in 0..Letters - 1 : ch = PlainLetter(k, n)
           \/ ch.kind \in {"digit", "space"}
BY DEF Chars, PlainLetter, Space

\* No processor of single characters changes what is no letter.
LEMMA OtherStays ==
    ASSUME NEW ch, ~IsLetter(ch)
    PROVE  ToUpper(ch) = ch /\ Rotated(ch) = ch /\ ToLeet(ch) = ch
BY DEF ToUpper, Rotated, ToLeet, IsLetter

\* What each of them does to a letter.
LEMMA LetterChanges ==
    ASSUME NEW k \in {"lower", "upper"}, NEW n
    PROVE  /\ IsLetter(PlainLetter(k, n))
           /\ ToUpper(PlainLetter(k, n)) = PlainLetter("upper", n)
           /\ Rotated(PlainLetter(k, n)) = PlainLetter(k, (n + HalfTurn) % Letters)
           /\ ToLeet(PlainLetter(k, n)) =
                IF n \in DOMAIN LeetDigits THEN Digit(LeetDigits[n]) ELSE PlainLetter(k, n)
           /\ PlainLetter(k, n) # Space
<1>1. PlainLetter(k, n).kind = k /\ PlainLetter(k, n).n = n
    BY DEF PlainLetter
<1>2. IsLetter(PlainLetter(k, n)) /\ Space.kind = "space"
    BY <1>1 DEF IsLetter, Space
<1>3. [PlainLetter(k, n) EXCEPT !.n = (@ + HalfTurn) % Letters] =
        PlainLetter(k, (n + HalfTurn) % Letters)
    BY DEF PlainLetter
<1>4. ToUpper(PlainLetter(k, n)) = PlainLetter("upper", n)
    BY <1>1 DEF ToUpper, Upper, PlainLetter
<1>5. Rotated(PlainLetter(k, n)) = PlainLetter(k, (n + HalfTurn) % Letters)
    BY <1>2, <1>3 DEF Rotated, HalfTurn
<1> QED BY <1>1, <1>2, <1>4, <1>5 DEF ToLeet

LEMMA DigitStays == \A d : ~IsLetter(Digit(d)) /\ Digit(d) # Space
BY DEF Digit, Space, IsLetter

LEMMA HalfTurnIs == HalfTurn \in Nat
BY TextAssumption DEF HalfTurn

Turn(n, c) == (n + c * HalfTurn) % Letters

\* One more turn of rot13.
LEMMA TurnIs ==
    ASSUME NEW n \in 0..Letters - 1, NEW c \in Nat
    PROVE  /\ Turn(n, c) \in 0..Letters - 1
           /\ Turn(n, 0) = n
           /\ (Turn(n, c) + HalfTurn) % Letters = Turn(n, c + 1)
<1>1. HalfTurn \in Nat /\ Letters \in Nat \ {0} /\ n \in Nat /\ c * HalfTurn \in Nat
    BY HalfTurnIs, TextAssumption
<1>2. Turn(n, c) \in 0..Letters - 1
  <2>1. n + c * HalfTurn \in Int
      BY <1>1
  <2>2. PICK q \in Int, r \in 0..Letters - 1 : (n + c * HalfTurn) % Letters = r
      BY <1>1, <2>1, Divide
  <2> QED BY <2>2 DEF Turn
<1>3. Turn(n, 0) = n
  <2>1. n + 0 * HalfTurn = n /\ n \in Int
      BY <1>1
  <2>2. PICK q \in Int, r \in 0..Letters - 1 : n % Letters = r /\ n = q * Letters + r
      BY <1>1, <2>1, Divide
  <2>3. q * Letters = n - r
    <3>1. q * Letters \in Int
        BY <1>1
    <3> QED BY <2>2, <3>1
  <2>4. q = 0
    <3>1. -Letters < n - r /\ n - r < Letters
        BY <1>1
    <3> QED BY <1>1, <2>3, <3>1, NoMultiple
  <2>5. n % Letters = n
    <3>1. 0 * Letters = 0
        BY <1>1
    <3> QED BY <2>2, <2>4, <3>1
  <2> QED BY <2>1, <2>5 DEF Turn
<1>4. (Turn(n, c) + HalfTurn) % Letters = Turn(n, c + 1)
  <2>1. n + (c + 1) * HalfTurn = n + c * HalfTurn + HalfTurn
      BY <1>1
  <2>2. (((n + c * HalfTurn) % Letters) + HalfTurn) % Letters = (n + c * HalfTurn + HalfTurn) % Letters
    <3>1. n + c * HalfTurn \in Nat
        BY <1>1
    <3> QED BY <1>1, <3>1, RemainderOfSum
  <2> QED BY <2>1, <2>2 DEF Turn
<1> QED BY <1>2, <1>3, <1>4

CaseOf(k, u) == IF u = 1 THEN "upper" ELSE k
ShownAs(k, n, u, l) ==
    IF l = 1 THEN ToLeet(PlainLetter(CaseOf(k, u), n)) ELSE PlainLetter(CaseOf(k, u), n)

\* Each of them, after the others.
LEMMA ShownIs ==
    ASSUME NEW k \in {"lower", "upper"}, NEW n, NEW u \in 0..1, NEW l \in 0..1
    PROVE  /\ ToUpper(ShownAs(k, n, 0, l)) = ShownAs(k, n, 1, l)
           /\ ToLeet(ShownAs(k, n, u, l)) = ShownAs(k, n, u, 1)
           /\ Rotated(ShownAs(k, n, u, 0)) = ShownAs(k, (n + HalfTurn) % Letters, u, 0)
           /\ ShownAs(k, n, u, l) # Space
<1>1. CaseOf(k, u) \in {"lower", "upper"} /\ CaseOf(k, 0) = k /\ CaseOf(k, 1) = "upper"
    BY DEF CaseOf
<1>2. ToUpper(ShownAs(k, n, 0, l)) = ShownAs(k, n, 1, l)
  <2>1. CASE n \in DOMAIN LeetDigits
      BY <1>1, <2>1, LetterChanges, DigitStays, OtherStays DEF ShownAs
  <2>2. CASE n \notin DOMAIN LeetDigits
      BY <1>1, <2>2, LetterChanges DEF ShownAs
  <2> QED BY <2>1, <2>2
<1>3. ToLeet(ShownAs(k, n, u, l)) = ShownAs(k, n, u, 1)
  <2>1. CASE n \in DOMAIN LeetDigits
      BY <1>1, <2>1, LetterChanges, DigitStays, OtherStays DEF ShownAs
  <2>2. CASE n \notin DOMAIN LeetDigits
      BY <1>1, <2>2, LetterChanges DEF ShownAs
  <2> QED BY <2>1, <2>2
<1>4. Rotated(ShownAs(k, n, u, 0)) = ShownAs(k, (n + HalfTurn) % Letters, u, 0)
    BY <1>1, LetterChanges DEF ShownAs
<1>5. ShownAs(k, n, u, l) # Space
    BY <1>1, LetterChanges, DigitStays DEF ShownAs
<1> QED BY <1>2, <1>3, <1>4, <1>5

\* What remains of a letter.
LEMMA ShapedLetter ==
    ASSUME NEW k \in {"lower", "upper"}, NEW n, NEW c, NEW u \in 0..1, NEW l \in 0..1
    PROVE  Shaped(PlainLetter(k, n), c, u, l) = ShownAs(k, Turn(n, c), u, l)
<1>1. IsLetter(PlainLetter(k, n))
    BY LetterChanges
<1>2. [PlainLetter(k, n) EXCEPT !.n = (@ + c * HalfTurn) % Letters] =
        PlainLetter(k, (n + c * HalfTurn) % Letters)
    BY DEF PlainLetter
<1>3. Moved(PlainLetter(k, n), c) = PlainLetter(k, Turn(n, c))
    BY <1>1, <1>2 DEF Moved, Turn
<1>4. ToUpper(PlainLetter(k, Turn(n, c))) = PlainLetter("upper", Turn(n, c))
    BY LetterChanges
<1> QED BY <1>3, <1>4 DEF Shaped, ShownAs, CaseOf

LEMMA ShapedOther ==
    ASSUME NEW ch, ~IsLetter(ch), NEW c, NEW u \in 0..1, NEW l \in 0..1
    PROVE  Shaped(ch, c, u, l) = ch
BY OtherStays DEF Shaped, Moved

LEMMA LetterIs ==
    ASSUME NEW ch \in Chars, IsLetter(ch)
    PROVE  \E k \in {"lower", "upper"}, n \in 0..Letters - 1 : ch = PlainLetter(k, n)
BY CharIs DEF IsLetter

\* Each processor adds its part to what a character has become; a space stays a space.
LEMMA ShapedSteps ==
    ASSUME NEW ch \in Chars, NEW c \in Nat, NEW u \in 0..1, NEW l \in 0..1
    PROVE  /\ Shaped(ch, 0, 0, 0) = ch
           /\ ToUpper(Shaped(ch, c, 0, l)) = Shaped(ch, c, 1, l)
           /\ ToLeet(Shaped(ch, c, u, l)) = Shaped(ch, c, u, 1)
           /\ Rotated(Shaped(ch, c, u, 0)) = Shaped(ch, c + 1, u, 0)
           /\ (Shaped(ch, c, u, l) = Space) <=> (ch = Space)
<1>1. CASE ~IsLetter(ch)
  <2>1. \A e : \A v, m \in 0..1 : Shaped(ch, e, v, m) = ch
      BY <1>1, ShapedOther
  <2> QED BY <1>1, <2>1, OtherStays
<1>2. CASE IsLetter(ch)
  <2>1. PICK k \in {"lower", "upper"}, n \in 0..Letters - 1 : ch = PlainLetter(k, n)
      BY <1>2, LetterIs
  <2>2. \A e : \A v, m \in 0..1 : Shaped(ch, e, v, m) = ShownAs(k, Turn(n, e), v, m)
      BY <2>1, ShapedLetter
  <2>3. Shaped(ch, 0, 0, 0) = ch
    <3>1. ShownAs(k, n, 0, 0) = PlainLetter(k, n)
        BY DEF ShownAs, CaseOf
    <3>2. Shaped(ch, 0, 0, 0) = ShownAs(k, Turn(n, 0), 0, 0)
        BY <2>2
    <3>3. Turn(n, 0) = n
        BY TurnIs
    <3> QED BY <2>1, <3>1, <3>2, <3>3
  <2>4. ch # Space
      BY <2>1, LetterChanges
  <2>5. Turn(n, c) \in 0..Letters - 1 /\ (Turn(n, c) + HalfTurn) % Letters = Turn(n, c + 1)
      BY TurnIs
  <2>6. ToUpper(Shaped(ch, c, 0, l)) = Shaped(ch, c, 1, l)
      BY <2>2, ShownIs
  <2>7. ToLeet(Shaped(ch, c, u, l)) = Shaped(ch, c, u, 1)
      BY <2>2, ShownIs
  <2>8. Rotated(Shaped(ch, c, u, 0)) = Shaped(ch, c + 1, u, 0)
    <3>1. Rotated(ShownAs(k, Turn(n, c), u, 0)) = ShownAs(k, (Turn(n, c) + HalfTurn) % Letters, u, 0)
        BY ShownIs
    <3> QED BY <2>2, <2>5, <3>1
  <2>9. Shaped(ch, c, u, l) # Space
      BY <2>2, ShownIs
  <2> QED BY <2>3, <2>4, <2>6, <2>7, <2>8, <2>9
<1> QED BY <1>1, <1>2

\* The way Expected says it.
LEMMA ShapedCapital ==
    ASSUME NEW ch \in Chars, NEW c
    PROVE  Shaped(ch, c, 1, 0) =
              IF IsLetter(ch) THEN Upper((ch.n + c * (Letters \div 2)) % Letters) ELSE ch
<1>1. CASE ~IsLetter(ch)
    BY <1>1, ShapedOther
<1>2. CASE IsLetter(ch)
  <2>1. PICK k \in {"lower", "upper"}, n \in 0..Letters - 1 : ch = PlainLetter(k, n)
      BY <1>2, LetterIs
  <2>2. Shaped(ch, c, 1, 0) = ShownAs(k, Turn(n, c), 1, 0)
      BY <2>1, ShapedLetter
  <2>3. ch.n = n /\ ShownAs(k, Turn(n, c), 1, 0) = Upper(Turn(n, c))
      BY <2>1 DEF PlainLetter, Upper, ShownAs, CaseOf
  <2> QED BY <1>2, <2>2, <2>3 DEF HalfTurn, Turn
<1> QED BY <1>1, <1>2

-----------------------------------------------------------------------------
(***************************************************************************)
(* The part of a text in front of the cut.                                 *)
(***************************************************************************)
IsText(s) == Len(s) \in Nat /\ DOMAIN s = 1..Len(s) /\ s = [i \in 1..Len(s) |-> s[i]]

\* The cut is a text.
LEMMA CutIs ==
    ASSUME NEW s, IsText(s)
    PROVE  /\ Copied(s) \in 0..Len(s) /\ Copied(s) \in Nat
           /\ Len(Cut(s)) = Copied(s) /\ IsText(Cut(s))
           /\ Cut(s) = [i \in 1..Copied(s) |-> s[i]]
           /\ \A i \in 1..Copied(s) : Cut(s)[i] = s[i]
<1>1. Copied(s) \in 0..Len(s) /\ Copied(s) \in Nat
    BY TextAssumption DEF IsText, Copied
<1>2. s \in Seq({s[i] : i \in 1..Len(s)})
    BY DEF IsText
<1>3. Cut(s) = [i \in 1..Copied(s) |-> s[i]]
    BY <1>1, <1>2 DEF Cut, IsText
<1>4. Len(Cut(s)) = Copied(s) /\ DOMAIN Cut(s) = 1..Copied(s)
    BY <1>1, <1>3
<1>5. \A i \in 1..Copied(s) : Cut(s)[i] = s[i]
    BY <1>3
<1> QED BY <1>1, <1>3, <1>4, <1>5 DEF IsText

-----------------------------------------------------------------------------
(***************************************************************************)
(* Words and the places opposite in them.                                  *)
(***************************************************************************)
IsWord(t, a, b) ==
    /\ a \in 1..Len(t) /\ b \in 1..Len(t)
    /\ \A k \in a..b : t[k] # Space
    /\ a = 1 \/ t[a - 1] = Space
    /\ b = Len(t) \/ t[b + 1] = Space

\* Within a word places are mirrored.
LEMMA OppositeIn ==
    ASSUME NEW t, IsText(t), NEW a, NEW b, IsWord(t, a, b), NEW i \in a..b
    PROVE  Opposite(t, i) = a + b - i
<1>1. a \in 1..Len(t) /\ b \in 1..Len(t) /\ Len(t) \in Nat /\ i \in 1..Len(t) /\ DOMAIN t = 1..Len(t)
    BY DEF IsWord, IsText
<1>2. Word(t, i) = a..b
  <2>1. ASSUME NEW j \in a..b PROVE j \in Word(t, i)
    <3>1. \A k \in a..b : t[k] # Space
        BY DEF IsWord
    <3>2. ASSUME NEW k \in 1..Len(t), (i <= k /\ k <= j) \/ (j <= k /\ k <= i) PROVE k \in a..b
        BY <1>1, <3>2
    <3>3. j \in 1..Len(t)
        BY <1>1
    <3> QED BY <1>1, <3>1, <3>2, <3>3 DEF Word
  <2>2. ASSUME NEW j \in Word(t, i), j < a PROVE FALSE
    <3>1. j \in 1..Len(t) /\ a - 1 \in 1..Len(t) /\ j <= a - 1 /\ a - 1 <= i
        BY <1>1, <2>2 DEF Word
    <3>2. t[a - 1] # Space
        BY <1>1, <3>1 DEF Word
    <3> QED BY <3>1, <3>2 DEF IsWord
  <2>3. ASSUME NEW j \in Word(t, i), j > b PROVE FALSE
    <3>1. j \in 1..Len(t) /\ b + 1 \in 1..Len(t) /\ b + 1 <= j /\ i <= b + 1
        BY <1>1, <2>3 DEF Word
    <3>2. t[b + 1] # Space
        BY <1>1, <3>1 DEF Word
    <3>3. b # Len(t)
      <4>1. b + 1 <= Len(t) /\ b \in Int /\ Len(t) \in Int
          BY <1>1, <3>1
      <4> QED BY <4>1
    <3> QED BY <3>2, <3>3 DEF IsWord
  <2>4. Word(t, i) \subseteq 1..Len(t)
      BY <1>1 DEF Word
  <2>5. ASSUME NEW j \in Word(t, i) PROVE j \in a..b
    <3>1. j \in 1..Len(t) /\ ~(j < a) /\ ~(j > b)
        BY <2>2, <2>3, <2>4
    <3> QED BY <1>1, <3>1
  <2> QED BY <2>1, <2>5
<1>3. Begin(t, i) = a
    BY <1>1, <1>2 DEF Begin
<1>4. End(t, i) = b
    BY <1>1, <1>2 DEF End
<1>5. t[i] # Space
    BY <1>1 DEF IsWord
<1> QED BY <1>3, <1>4, <1>5 DEF Opposite

\* The word around a place.
LEMMA SomeWord ==
    ASSUME NEW t, IsText(t), NEW i \in 1..Len(t), t[i] # Space
    PROVE  \E a, b : IsWord(t, a, b) /\ i \in a..b
<1>1. Len(t) \in Nat
    BY DEF IsText
<1> DEFINE Lefts == {a \in Nat : a \in 1..i /\ \A k \in a..i : t[k] # Space}
           Rights == {b \in Nat : b + i <= Len(t) /\ i + b < Len(t) /\ t[i + b + 1] = Space}
<1>2. i \in Lefts
    OBVIOUS
<1>3. PICK a \in Lefts : \A x \in Lefts : a <= x
  <2>1. Lefts \in SUBSET Nat /\ Lefts # {}
      BY <1>2
  <2> HIDE DEF Lefts
  <2> QED BY <2>1, LeastNumber
<1>4. a = 1 \/ t[a - 1] = Space
  <2> SUFFICES ASSUME a # 1, t[a - 1] # Space PROVE FALSE
      OBVIOUS
  <2>1. a - 1 \in Nat /\ a - 1 \in 1..i
      OBVIOUS
  <2>2. \A k \in a - 1..i : t[k] # Space
      BY <2>1
  <2>3. a - 1 \in Lefts
      BY <2>1, <2>2
  <2> QED BY <1>3, <2>3
<1>5. \E b \in i..Len(t) : (b = Len(t) \/ t[b + 1] = Space) /\ \A k \in i..b : t[k] # Space
  <2>1. CASE Rights = {}
    <3>1. \A k \in i..Len(t) : t[k] # Space
      <4> TAKE k \in i..Len(t)
      <4>1. CASE k = i
          BY <4>1
      <4>2. CASE k # i
        <5>1. k - i - 1 \in Nat /\ i + (k - i - 1) + 1 = k /\ k - i - 1 + i < Len(t)
            BY <1>1, <4>2
        <5>2. k - i - 1 \notin Rights
            BY <2>1
        <5> QED BY <1>1, <5>1, <5>2
      <4> QED BY <4>1, <4>2
    <3> QED BY <1>1, <3>1
  <2>2. CASE Rights # {}
    <3>1. PICK r \in Rights : \A x \in Rights : r <= x
      <4>1. Rights \in SUBSET Nat
          OBVIOUS
      <4> HIDE DEF Rights
      <4> QED BY <2>2, <4>1, LeastNumber
    <3>2. \A k \in i..i + r : t[k] # Space
      <4> TAKE k \in i..i + r
      <4>1. CASE k = i
          BY <4>1
      <4>2. CASE k # i
        <5>1. k - i - 1 \in Nat /\ i + (k - i - 1) + 1 = k /\ k - i - 1 + i < Len(t) /\ k - i - 1 < r
            BY <1>1, <4>2
        <5>2. k - i - 1 \notin Rights
          <6>1. r \in Nat /\ ~(r <= k - i - 1)
              BY <5>1
          <6> HIDE DEF Rights
          <6> QED BY <3>1, <6>1
        <5> QED BY <1>1, <5>1, <5>2
      <4> QED BY <4>1, <4>2
    <3>3. i + r \in i..Len(t) /\ t[(i + r) + 1] = Space
        BY <1>1
    <3> QED BY <3>2, <3>3
  <2> QED BY <2>1, <2>2
<1>6. PICK b \in i..Len(t) : (b = Len(t) \/ t[b + 1] = Space) /\ \A k \in i..b : t[k] # Space
    BY <1>5
<1>7. \A k \in a..b : t[k] # Space
    BY <1>1, <1>6
<1>8. a \in 1..Len(t) /\ b \in 1..Len(t) /\ i \in a..b
    BY <1>1
<1> QED BY <1>4, <1>6, <1>7, <1>8 DEF IsWord

\* The opposite place is a place of the text.
LEMMA OppositeThere ==
    ASSUME NEW t, IsText(t), NEW i \in 1..Len(t)
    PROVE  Opposite(t, i) \in 1..Len(t) /\ (t[Opposite(t, i)] = Space <=> t[i] = Space)
<1>1. CASE t[i] = Space
    BY <1>1 DEF Opposite
<1>2. CASE t[i] # Space
  <2>1. PICK a, b : IsWord(t, a, b) /\ i \in a..b
      BY <1>2, SomeWord
  <2>2. Opposite(t, i) = a + b - i
      BY <2>1, OppositeIn
  <2>3. a \in Nat /\ b \in Nat /\ a + b - i \in a..b /\ a..b \subseteq 1..Len(t)
      BY <2>1 DEF IsWord, IsText
  <2> QED BY <1>2, <2>1, <2>2, <2>3 DEF IsWord
<1> QED BY <1>1, <1>2

\* It only depends on where the spaces are.
LEMMA OppositeSame ==
    ASSUME NEW t, NEW u, DOMAIN t = DOMAIN u,
           \A i \in DOMAIN t : t[i] = Space <=> u[i] = Space, NEW i \in DOMAIN t
    PROVE  Opposite(t, i) = Opposite(u, i)
<1>1. Word(t, i) = Word(u, i)
    BY DEF Word
<1>2. Begin(t, i) = Begin(u, i) /\ End(t, i) = End(u, i)
    BY <1>1 DEF Begin, End
<1> QED BY <1>2 DEF Opposite

-----------------------------------------------------------------------------
(***************************************************************************)
(* The walk of ReverseWords: what is turned round when it stands at p, and *)
(* why it ends with every word in its mirror image.                        *)
(***************************************************************************)
EndsWord(s, p) == p > Copied(s) \/ s[p] = Space

IsStart(s, p, a) ==
    /\ a \in 1..p + 1
    /\ a = 1 \/ EndsWord(s, a - 1)
    /\ \A k \in a..p : ~EndsWord(s, k)

StartAt(s, p) == CHOOSE a \in Nat : IsStart(s, p, a)

\* The words before place a are turned round.
Halfway(s, a) ==
    [i \in 1..Copied(s) |-> IF i < a THEN Cut(s)[Opposite(Cut(s), i)] ELSE Cut(s)[i]]

Walked(s, p) == [out |-> Halfway(s, StartAt(s, p)), start |-> StartAt(s, p)]

\* There is one start of the current word,
LEMMA OneStart ==
    ASSUME NEW s, NEW p \in Nat, NEW a, NEW b, IsStart(s, p, a), IsStart(s, p, b)
    PROVE  a = b
<1>1. a \in 1..p + 1 /\ b \in 1..p + 1
    BY DEF IsStart
<1>2. ~(a < b)
  <2> SUFFICES ASSUME a < b PROVE FALSE
      OBVIOUS
  <2>1. b - 1 \in a..p /\ b # 1
      BY <1>1
  <2> QED BY <2>1 DEF IsStart
<1>3. ~(b < a)
  <2> SUFFICES ASSUME b < a PROVE FALSE
      OBVIOUS
  <2>1. a - 1 \in b..p /\ a # 1
      BY <1>1
  <2> QED BY <2>1 DEF IsStart
<1> QED BY <1>1, <1>2, <1>3

LEMMA StartIs ==
    ASSUME NEW s, NEW p \in Nat, NEW a \in Nat, IsStart(s, p, a)
    PROVE  StartAt(s, p) = a
<1>1. StartAt(s, p) \in Nat /\ IsStart(s, p, StartAt(s, p))
    BY DEF StartAt
<1> QED BY <1>1, OneStart

\* the next place has one when this one has,
LEMMA StartNext ==
    ASSUME NEW s, NEW p \in Nat, NEW a \in Nat, IsStart(s, p, a)
    PROVE  IsStart(s, p + 1, IF EndsWord(s, p + 1) THEN p + 2 ELSE a)
<1>1. CASE EndsWord(s, p + 1)
  <2>1. p + 2 \in 1..(p + 1) + 1 /\ (p + 2) - 1 = p + 1 /\ (p + 2)..(p + 1) = {}
      OBVIOUS
  <2>2. IsStart(s, p + 1, p + 2)
      BY <1>1, <2>1 DEF IsStart
  <2> QED BY <1>1, <2>2
<1>2. CASE ~EndsWord(s, p + 1)
  <2>1. a \in 1..(p + 1) + 1
      BY DEF IsStart
  <2>2. \A k \in a..p + 1 : ~EndsWord(s, k)
    <3> TAKE k \in a..p + 1
    <3>1. k = p + 1 \/ k \in a..p
        OBVIOUS
    <3> QED BY <1>2, <3>1 DEF IsStart
  <2>3. IsStart(s, p + 1, a)
      BY <2>1, <2>2 DEF IsStart
  <2> QED BY <1>2, <2>3
<1> QED BY <1>1, <1>2

\* and so every place has.
LEMMA StartThere ==
    ASSUME NEW s, NEW p \in Nat
    PROVE  StartAt(s, p) \in Nat /\ IsStart(s, p, StartAt(s, p))
<1> DEFINE T == {q \in Nat : \E a \in Nat : IsStart(s, q, a)}
<1>1. 0 \in T
  <2>1. IsStart(s, 0, 1)
      BY DEF IsStart
  <2> QED BY <2>1
<1>2. \A q \in T : q + 1 \in T
  <2> TAKE q \in T
  <2>1. PICK a \in Nat : IsStart(s, q, a)
      OBVIOUS
  <2>2. q \in Nat /\ q + 1 \in Nat /\ q + 2 \in Nat
      OBVIOUS
  <2>3. IsStart(s, q + 1, q + 2) \/ IsStart(s, q + 1, a)
      BY <2>1, <2>2, StartNext
  <2> QED BY <2>2, <2>3
<1>3. T = Nat
  <2> HIDE DEF T
  <2>1. T \in SUBSET Nat
      BY DEF T
  <2> QED BY <1>1, <1>2, <2>1, Induction
<1>4. \E a \in Nat : IsStart(s, p, a)
    BY <1>3
<1> QED BY <1>4 DEF StartAt

\* What is turned round when p stands at the end of a word.
LEMMA TurnedWord ==
    ASSUME NEW s, IsText(s), NEW p \in 1..Copied(s) + 1, NEW a \in 1..p, EndsWord(s, p),
           a = 1 \/ EndsWord(s, a - 1), \A k \in a..p - 1 : ~EndsWord(s, k)
    PROVE  ReverseRange(Halfway(s, a), a, p) = Halfway(s, p + 1)
<1> DEFINE n == Copied(s)
           t == Cut(s)
           h == Halfway(s, a)
<1>1. n \in Nat /\ Len(t) = n /\ IsText(t) /\ \A i \in 1..n : t[i] = s[i]
    BY CutIs
<1>2. h = [i \in 1..n |-> IF i < a THEN t[Opposite(t, i)] ELSE t[i]]
    BY DEF Halfway
<1>3. Halfway(s, p + 1) = [i \in 1..n |-> IF i < p + 1 THEN t[Opposite(t, i)] ELSE t[i]]
    BY DEF Halfway
<1>4. ReverseRange(h, a, p) = [i \in 1..n |-> IF i \in a..p - 1 THEN h[a + p - 1 - i] ELSE h[i]]
    BY <1>2 DEF ReverseRange
<1>5. \A k \in 1..n : EndsWord(s, k) <=> t[k] = Space
    BY <1>1 DEF EndsWord
<1> HIDE DEF n, t, h
<1>6. ASSUME NEW i \in 1..n
      PROVE  (IF i \in a..p - 1 THEN h[a + p - 1 - i] ELSE h[i]) =
                IF i < p + 1 THEN t[Opposite(t, i)] ELSE t[i]
  <2>0. a \in Nat /\ p \in Nat /\ n \in Nat /\ p <= n + 1 /\ a <= p
      BY <1>1 DEF n
  <2>1. CASE i \in a..p - 1
    <3>1. a + p - 1 - i \in 1..n /\ ~(a + p - 1 - i < a) /\ i < p + 1
        BY <2>0, <2>1
    <3>2. h[a + p - 1 - i] = t[a + p - 1 - i]
        BY <1>2, <3>1
    <3>3. IsWord(t, a, p - 1)
      <4>1. a \in 1..n /\ p - 1 \in 1..n
          BY <2>0, <2>1
      <4>2. \A k \in a..p - 1 : t[k] # Space
          BY <1>5, <2>0
      <4>3. a = 1 \/ t[a - 1] = Space
        <5>1. CASE a # 1
          <6>1. a - 1 \in 1..n
              BY <2>0, <4>1, <5>1
          <6> QED BY <1>5, <5>1, <6>1
        <5> QED BY <5>1
      <4>4. p - 1 = n \/ t[(p - 1) + 1] = Space
        <5>1. CASE p - 1 # n
          <6>1. p \in 1..n /\ (p - 1) + 1 = p
              BY <2>0, <5>1
          <6> QED BY <1>5, <6>1
        <5> QED BY <5>1
      <4> QED BY <1>1, <4>1, <4>2, <4>3, <4>4 DEF IsWord
    <3>4. Opposite(t, i) = a + (p - 1) - i
      <4>1. PICK b : b = p - 1
          OBVIOUS
      <4>2. IsWord(t, a, b) /\ i \in a..b
          BY <2>1, <3>3, <4>1
      <4>3. Opposite(t, i) = a + b - i
          BY <1>1, <4>2, OppositeIn
      <4> QED BY <4>1, <4>3
    <3>5. a + (p - 1) - i = a + p - 1 - i
        BY <2>0
    <3> QED BY <2>1, <3>1, <3>2, <3>4, <3>5
  <2>2. CASE i < a
      BY <1>2, <2>0, <2>2
  <2>3. CASE i = p
    <3>1. t[i] = Space
        BY <1>5, <2>3
    <3>2. Opposite(t, i) = i
        BY <3>1 DEF Opposite
    <3>3. ~(i < a) /\ i < p + 1 /\ i \notin a..p - 1
        BY <2>0, <2>3
    <3>4. h[i] = t[i]
        BY <1>2, <3>3
    <3> QED BY <3>2, <3>3, <3>4
  <2>4. CASE i > p
      BY <1>2, <2>0, <2>4
  <2> QED BY <2>0, <2>1, <2>2, <2>3, <2>4
<1> QED BY <1>3, <1>4, <1>6 DEF h

\* One visit goes from what is walked at q to what is walked at q + 1.
LEMMA VisitIs ==
    ASSUME NEW s, IsText(s), NEW q \in 0..Copied(s)
    PROVE  Visit(s, Walked(s, q), q + 1) = Walked(s, q + 1)
<1> DEFINE a == StartAt(s, q)
           w == Walked(s, q)
<1>1. Copied(s) \in Nat /\ q \in Nat /\ q + 1 \in Nat /\ q + 1 \in 1..Copied(s) + 1
    BY CutIs
<1>2. a \in Nat /\ IsStart(s, q, a)
    BY <1>1, StartThere
<1>3. w = [out |-> Halfway(s, a), start |-> a] /\ w.out = Halfway(s, a) /\ w.start = a
    BY DEF Walked
<1>4. StartAt(s, q + 1) = IF EndsWord(s, q + 1) THEN q + 2 ELSE a
  <2>1. IsStart(s, q + 1, IF EndsWord(s, q + 1) THEN q + 2 ELSE a)
      BY <1>1, <1>2, StartNext
  <2>2. (IF EndsWord(s, q + 1) THEN q + 2 ELSE a) \in Nat
      BY <1>1, <1>2
  <2> QED BY <1>1, <2>1, <2>2, StartIs
<1>5. Walked(s, q + 1) = [out |-> Halfway(s, StartAt(s, q + 1)), start |-> StartAt(s, q + 1)]
    BY DEF Walked
<1> HIDE DEF a, w
<1>6. CASE EndsWord(s, q + 1)
  <2>1. Visit(s, w, q + 1) = [out |-> ReverseRange(w.out, w.start, q + 1), start |-> NextWord(q + 1)]
      BY <1>6 DEF Visit, EndsWord
  <2>2. ReverseRange(Halfway(s, a), a, q + 1) = Halfway(s, (q + 1) + 1)
    <3>1. a \in 1..q + 1
        BY <1>2 DEF IsStart
    <3>2. \A k \in a..(q + 1) - 1 : ~EndsWord(s, k)
      <4>1. (q + 1) - 1 = q
          BY <1>1
      <4> QED BY <1>2, <4>1 DEF IsStart
    <3>3. a = 1 \/ EndsWord(s, a - 1)
        BY <1>2 DEF IsStart
    <3> QED BY <1>1, <1>6, <3>1, <3>2, <3>3, TurnedWord
  <2>3. NextWord(q + 1) = q + 2 /\ (q + 1) + 1 = q + 2
      BY <1>1 DEF NextWord
  <2> QED BY <1>3, <1>4, <1>5, <1>6, <2>1, <2>2, <2>3 DEF w
<1>7. CASE ~EndsWord(s, q + 1)
  <2>1. Visit(s, w, q + 1) = w
      BY <1>7 DEF Visit, EndsWord
  <2>2. StartAt(s, q + 1) = a
      BY <1>4, <1>7
  <2> QED BY <1>3, <1>5, <2>1, <2>2 DEF w
<1> QED BY <1>6, <1>7

\* Both are functions of the places of the text before the cut.
LEMMA ReverseWordsIs ==
    ASSUME NEW s, IsText(s)
    PROVE  ReverseWords(s) = [i \in 1..Copied(s) |-> Cut(s)[Opposite(Cut(s), i)]]
<1> DEFINE n == Copied(s)
           first == [out |-> Cut(s), start |-> 1]
           Walks(g) == g = [p \in 0..n + 1 |-> IF p = 0 THEN first ELSE Visit(s, g[p - 1], p)]
           f == [p \in 0..n + 1 |-> Walked(s, p)]
<1>1. n \in Nat /\ Len(Cut(s)) = n /\ Cut(s) = [i \in 1..n |-> Cut(s)[i]]
    BY CutIs DEF IsText
<1>2. Walked(s, 0) = first
  <2>1. IsStart(s, 0, 1)
      BY DEF IsStart
  <2>2. StartAt(s, 0) = 1
      BY <2>1, StartIs
  <2>3. Halfway(s, 1) = [i \in 1..n |-> Cut(s)[i]]
      BY DEF Halfway
  <2> QED BY <1>1, <2>2, <2>3 DEF Walked
<1>3. \A p \in 1..n + 1 : Visit(s, Walked(s, p - 1), p) = Walked(s, p)
  <2> TAKE p \in 1..n + 1
  <2>1. PICK q \in 0..n : q = p - 1
      BY <1>1
  <2>2. Visit(s, Walked(s, q), q + 1) = Walked(s, q + 1)
      BY <2>1, VisitIs
  <2>3. q + 1 = p
      BY <1>1, <2>1
  <2> QED BY <2>1, <2>2, <2>3
<1>4. \A p \in 0..n + 1 : f[p] = Walked(s, p)
    OBVIOUS
<1> HIDE DEF first
<1>5. Walks(f)
  <2>1. \A p \in 0..n + 1 : Walked(s, p) = IF p = 0 THEN first ELSE Visit(s, f[p - 1], p)
    <3> TAKE p \in 0..n + 1
    <3>1. CASE p = 0
        BY <1>2, <3>1
    <3>2. CASE p # 0
      <4>1. p \in 1..n + 1 /\ p - 1 \in 0..n + 1
          BY <1>1, <3>2
      <4>2. Visit(s, f[p - 1], p) = Walked(s, p)
          BY <1>3, <1>4, <4>1
      <4> QED BY <3>2, <4>2
    <3> QED BY <3>1, <3>2
  <2> QED BY <2>1
<1> HIDE DEF f
<1> DEFINE g == CHOOSE h : Walks(h)
<1>6. Walks(g)
    BY <1>5
<1>7. ReverseWords(s) = g[n + 1].out
    BY DEF ReverseWords, first, Cut
<1> HIDE DEF g
<1>8. g[0] = first /\ \A p \in 1..n + 1 : g[p] = Visit(s, g[p - 1], p)
    BY <1>1, <1>6
<1> HIDE DEF Walks
<1> DEFINE T == {p \in Nat : p <= n + 1 => g[p] = Walked(s, p)}
<1>9. 0 \in T
    BY <1>2, <1>8
<1>10. \A p \in T : p + 1 \in T
  <2> SUFFICES ASSUME NEW p \in T, p + 1 <= n + 1 PROVE g[p + 1] = Walked(s, p + 1)
      OBVIOUS
  <2>1. p + 1 \in 1..n + 1 /\ (p + 1) - 1 = p /\ p <= n + 1
      BY <1>1
  <2>2. g[p + 1] = Visit(s, g[p], p + 1) /\ g[p] = Walked(s, p)
      BY <1>8, <2>1
  <2>3. Visit(s, Walked(s, (p + 1) - 1), p + 1) = Walked(s, p + 1)
      BY <1>3, <2>1
  <2> QED BY <2>1, <2>2, <2>3
<1>11. T = Nat
  <2> HIDE DEF T
  <2>1. T \in SUBSET Nat
      BY DEF T
  <2> QED BY <1>9, <1>10, <2>1, Induction
<1>12. g[n + 1] = Walked(s, n + 1)
    BY <1>1, <1>11
<1>13. StartAt(s, n + 1) = n + 2
  <2>1. IsStart(s, n + 1, n + 2)
    <3>1. n + 2 \in 1..(n + 1) + 1 /\ (n + 2)..(n + 1) = {} /\ (n + 2) - 1 > n
        BY <1>1
    <3> QED BY <3>1 DEF IsStart, EndsWord
  <2>2. n + 1 \in Nat /\ n + 2 \in Nat
      BY <1>1
  <2> QED BY <2>1, <2>2, StartIs
<1>14. Walked(s, n + 1).out = Halfway(s, n + 2)
    BY <1>13 DEF Walked
<1>15. Halfway(s, n + 2) = [i \in 1..n |-> Cut(s)[Opposite(Cut(s), i)]]
    BY <1>1 DEF Halfway
<1> QED BY <1>7, <1>12, <1>14, <1>15

-----------------------------------------------------------------------------
(***************************************************************************)
(* What a set of processors makes of a text, whatever their order: the     *)
(* place each character comes from, and what becomes of it.                *)
(***************************************************************************)
Doing(P, op) == {e \in P \cap Entries : Plugin[Library[e]].op = op}

\* How often a letter is turned, whether it is made a capital, whether it may become a digit.
Turns(P) == Cardinality(Doing(P, "rot13"))
Raised(P) == IF upper \in P THEN 1 ELSE 0
Coined(P) == IF Doing(P, "leet") = {} THEN 0 ELSE 1

\* way: "not", "words", "all".  The place of txt whose character the processors P put at place i.
PlaceOf(P, i, txt, way) ==
    IF rev \in P /\ way = "words" THEN Opposite(txt, i)
    ELSE IF rev \in P /\ way = "all" THEN Len(txt) + 1 - i ELSE i

CharOf(P, i, txt, way) == Shaped(txt[PlaceOf(P, i, txt, way)], Turns(P), Raised(P), Coined(P))

Plain(P, src, txt, way) ==
    /\ IsText(src)
    /\ Copied(src) = Len(txt)
    /\ upper \in P => Len(src) = Len(txt)
    /\ \A i \in 1..Len(txt) : src[i] = CharOf(P, i, txt, way)

Coded(P, src, txt, way) ==
    src = [i \in 1..2 * Room(txt) |-> Half(CharOf(P, (i + 1) \div 2, txt, way), i % 2)]

\* What the processors P, each in its turn, make of txt.
Composed(P, src, txt, way) ==
    IF Doing(P, "xor") = {} THEN Plain(P, src, txt, way) ELSE Coded(P, src, txt, way)

IsInput(txt) == IsText(txt) /\ Len(txt) < CAP /\ \A i \in 1..Len(txt) : txt[i] \in Chars
Ways == {"not", "words", "all"}

\* The place is one of the text.
LEMMA PlaceThere ==
    ASSUME NEW P, NEW txt, IsInput(txt), NEW way, NEW i \in 1..Len(txt)
    PROVE  PlaceOf(P, i, txt, way) \in 1..Len(txt) /\ txt[PlaceOf(P, i, txt, way)] \in Chars
<1>1. Opposite(txt, i) \in 1..Len(txt)
    BY OppositeThere DEF IsInput
<1>2. Len(txt) + 1 - i \in 1..Len(txt)
    BY DEF IsInput, IsText
<1> QED BY <1>1, <1>2 DEF PlaceOf, IsInput

\* Turns is a number, and the other two are switches.
LEMMA Numbers ==
    ASSUME NEW P, IsFiniteSet(P)
    PROVE  /\ Turns(P) \in Nat /\ Raised(P) \in 0..1 /\ Coined(P) \in 0..1
           /\ \A op : IsFiniteSet(Doing(P, op))
<1>1. \A op : IsFiniteSet(Doing(P, op))
  <2> TAKE op
  <2>1. Doing(P, op) \in SUBSET P
      BY DEF Doing
  <2> QED BY <2>1, FS_Subset
<1>2. Turns(P) \in Nat
    BY <1>1, FS_CardinalityType DEF Turns
<1> QED BY <1>1, <1>2 DEF Raised, Coined

\* A processor of the host has no part in what plugins do.
LEMMA HostAdds ==
    ASSUME NEW P, NEW p \in Hosts
    PROVE  /\ \A op : Doing(P \cup {p}, op) = Doing(P, op)
           /\ Turns(P \cup {p}) = Turns(P) /\ Coined(P \cup {p}) = Coined(P)
<1>1. p \notin Entries
    BY PluginAssumption
<1>2. \A op : Doing(P \cup {p}, op) = Doing(P, op)
    BY <1>1 DEF Doing
<1> QED BY <1>2 DEF Turns, Coined

-----------------------------------------------------------------------------
\* Before the first processor.
LEMMA NothingDone ==
    ASSUME NEW s, IsText(s), \A i \in 1..Len(s) : s[i] \in Chars, NEW way
    PROVE  Composed({}, s, Cut(s), way) /\ IsInput(Cut(s))
<1>1. IsInput(Cut(s))
    BY CutIs, TextAssumption DEF IsInput, Copied, IsText
<1>2. Turns({}) = 0 /\ Raised({}) = 0 /\ Coined({}) = 0 /\ \A op : Doing({}, op) = {}
    BY FS_EmptySet DEF Turns, Raised, Coined, Doing
<1>3. ASSUME NEW i \in 1..Len(Cut(s)) PROVE s[i] = CharOf({}, i, Cut(s), way)
  <2>1. PlaceOf({}, i, Cut(s), way) = i
      BY DEF PlaceOf
  <2>2. Cut(s)[i] \in Chars /\ Cut(s)[i] = s[i]
      BY <1>1, CutIs DEF IsInput
  <2>3. Shaped(Cut(s)[i], 0, 0, 0) = Cut(s)[i]
      BY <2>2, ShapedSteps
  <2> QED BY <1>2, <2>1, <2>2, <2>3 DEF CharOf
<1> QED BY <1>1, <1>2, <1>3, CutIs DEF Composed, Plain

\* What each processor reads: as many characters as txt has.
LEMMA CopiedAgain ==
    ASSUME NEW txt, IsInput(txt), NEW s, IsText(s), Len(s) = Len(txt)
    PROVE  Copied(s) = Len(txt)
BY TextAssumption DEF IsInput, IsText, Copied

\* A processor that changes each character where it stands.
LEMMA EachChanged ==
    ASSUME NEW P, NEW Q, NEW src, NEW txt, NEW way, NEW out, IsInput(txt),
           Plain(P, src, txt, way),
           out = [i \in 1..Copied(src) |-> out[i]],
           \A i \in 1..Len(txt) : out[i] = CharOf(Q, i, txt, way)
    PROVE  Plain(Q, out, txt, way)
<1>1. Copied(src) = Len(txt) /\ Len(txt) \in Nat
    BY DEF Plain, IsInput, IsText
<1>2. IsText(out) /\ Len(out) = Len(txt)
    BY <1>1 DEF IsText
<1>3. Copied(out) = Len(txt)
    BY <1>2, CopiedAgain
<1> QED BY <1>2, <1>3 DEF Plain

\* UpperCase, wherever it comes.
LEMMA UpperAdds ==
    ASSUME NEW P, IsFiniteSet(P), NEW src, NEW txt, NEW way, IsInput(txt),
           upper \notin P, Plain(P, src, txt, way)
    PROVE  Plain(P \cup {upper}, UpperCase(src), txt, way)
<1> DEFINE Q == P \cup {upper}
           out == UpperCase(src)
<1>1. upper \in Hosts /\ upper # rev
    BY PluginAssumption DEF Hosts
<1>2. Turns(Q) = Turns(P) /\ Coined(Q) = Coined(P) /\ Raised(P) = 0 /\ Raised(Q) = 1
    BY <1>1, HostAdds DEF Raised
<1>3. \A i : PlaceOf(Q, i, txt, way) = PlaceOf(P, i, txt, way)
    BY <1>1 DEF PlaceOf
<1>4. out = [i \in 1..Copied(src) |-> ToUpper(src[i])]
    BY DEF UpperCase
<1> HIDE DEF Q, out
<1>5. ASSUME NEW i \in 1..Len(txt) PROVE out[i] = CharOf(Q, i, txt, way)
  <2> DEFINE ch == txt[PlaceOf(P, i, txt, way)]
  <2>1. ch \in Chars
      BY PlaceThere
  <2>2. src[i] = Shaped(ch, Turns(P), 0, Coined(P)) /\ out[i] = ToUpper(src[i])
      BY <1>2, <1>4 DEF Plain, CharOf
  <2>3. CharOf(Q, i, txt, way) = Shaped(ch, Turns(P), 1, Coined(P))
      BY <1>2, <1>3 DEF CharOf
  <2>4. Turns(P) \in Nat /\ Coined(P) \in 0..1
      BY Numbers
  <2> HIDE DEF ch
  <2>5. ToUpper(Shaped(ch, Turns(P), 0, Coined(P))) = Shaped(ch, Turns(P), 1, Coined(P))
      BY <2>1, <2>4, ShapedSteps
  <2> QED BY <2>2, <2>3, <2>5
<1>6. out = [i \in 1..Copied(src) |-> out[i]]
    BY <1>4
<1>7. Plain(Q, out, txt, way)
    BY <1>5, <1>6, EachChanged, Zenon
<1> QED BY <1>7 DEF Q, out

\* Rot13 adds a turn: no letter is a digit yet.
LEMMA RotAdds ==
    ASSUME NEW P, IsFiniteSet(P), NEW src, NEW txt, NEW way, IsInput(txt),
           NEW e \in Entries, e \notin P, Plugin[Library[e]].op = "rot13",
           Doing(P, "leet") = {}, Plain(P, src, txt, way)
    PROVE  Plain(P \cup {e}, Rot13(src), txt, way)
<1> DEFINE Q == P \cup {e}
           out == Rot13(src)
<1>1. Doing(Q, "rot13") = Doing(P, "rot13") \cup {e} /\ Doing(Q, "leet") = {} /\ Raised(Q) = Raised(P)
      /\ (rev \in Q <=> rev \in P)
  <2>1. upper # e /\ rev # e
      BY PluginAssumption DEF Hosts
  <2>2. Doing(Q, "rot13") = Doing(P, "rot13") \cup {e}
      BY DEF Doing
  <2>3. Doing(Q, "leet") = Doing(P, "leet")
      BY DEF Doing
  <2> QED BY <2>1, <2>2, <2>3 DEF Raised
<1>2. Turns(Q) = Turns(P) + 1 /\ Coined(Q) = 0 /\ Coined(P) = 0
  <2>1. IsFiniteSet(Doing(P, "rot13")) /\ e \notin Doing(P, "rot13")
      BY Numbers DEF Doing
  <2>2. Cardinality(Doing(P, "rot13") \cup {e}) = Cardinality(Doing(P, "rot13")) + 1
      BY <2>1, FS_AddElement
  <2> QED BY <1>1, <2>2 DEF Turns, Coined
<1>3. \A i : PlaceOf(Q, i, txt, way) = PlaceOf(P, i, txt, way)
    BY <1>1 DEF PlaceOf
<1>4. out = [i \in 1..Copied(src) |-> Rotated(src[i])]
    BY DEF Rot13
<1> HIDE DEF Q, out
<1>5. ASSUME NEW i \in 1..Len(txt) PROVE out[i] = CharOf(Q, i, txt, way)
  <2> DEFINE ch == txt[PlaceOf(P, i, txt, way)]
  <2>1. ch \in Chars
      BY PlaceThere
  <2>2. src[i] = Shaped(ch, Turns(P), Raised(P), 0) /\ out[i] = Rotated(src[i])
      BY <1>2, <1>4 DEF Plain, CharOf
  <2>3. CharOf(Q, i, txt, way) = Shaped(ch, Turns(P) + 1, Raised(P), 0)
      BY <1>1, <1>2, <1>3 DEF CharOf
  <2>4. Turns(P) \in Nat /\ Raised(P) \in 0..1
      BY Numbers
  <2> HIDE DEF ch
  <2>5. Rotated(Shaped(ch, Turns(P), Raised(P), 0)) = Shaped(ch, Turns(P) + 1, Raised(P), 0)
      BY <2>1, <2>4, ShapedSteps
  <2> QED BY <2>2, <2>3, <2>5
<1>6. out = [i \in 1..Copied(src) |-> out[i]]
    BY <1>4
<1>7. Plain(Q, out, txt, way)
    BY <1>5, <1>6, EachChanged, Zenon
<1> QED BY <1>7 DEF Q, out

\* LeetSpeak, a second one changing nothing any more.
LEMMA LeetAdds ==
    ASSUME NEW P, IsFiniteSet(P), NEW src, NEW txt, NEW way, IsInput(txt),
           NEW e \in Entries, Plugin[Library[e]].op = "leet", Plain(P, src, txt, way)
    PROVE  Plain(P \cup {e}, LeetSpeak(src), txt, way)
<1> DEFINE Q == P \cup {e}
           out == LeetSpeak(src)
<1>1. Doing(Q, "rot13") = Doing(P, "rot13") /\ Doing(Q, "leet") = Doing(P, "leet") \cup {e}
      /\ Raised(Q) = Raised(P) /\ (rev \in Q <=> rev \in P)
  <2>1. upper # e /\ rev # e
      BY PluginAssumption DEF Hosts
  <2>2. Doing(Q, "rot13") = Doing(P, "rot13")
      BY DEF Doing
  <2>3. Doing(Q, "leet") = Doing(P, "leet") \cup {e}
      BY DEF Doing
  <2> QED BY <2>1, <2>2, <2>3 DEF Raised
<1>2. Turns(Q) = Turns(P) /\ Coined(Q) = 1
    BY <1>1 DEF Turns, Coined
<1>3. \A i : PlaceOf(Q, i, txt, way) = PlaceOf(P, i, txt, way)
    BY <1>1 DEF PlaceOf
<1>4. out = [i \in 1..Copied(src) |-> ToLeet(src[i])]
    BY DEF LeetSpeak
<1> HIDE DEF Q, out
<1>5. ASSUME NEW i \in 1..Len(txt) PROVE out[i] = CharOf(Q, i, txt, way)
  <2> DEFINE ch == txt[PlaceOf(P, i, txt, way)]
  <2>1. ch \in Chars
      BY PlaceThere
  <2>2. src[i] = Shaped(ch, Turns(P), Raised(P), Coined(P)) /\ out[i] = ToLeet(src[i])
      BY <1>2, <1>4 DEF Plain, CharOf
  <2>3. CharOf(Q, i, txt, way) = Shaped(ch, Turns(P), Raised(P), 1)
      BY <1>1, <1>2, <1>3 DEF CharOf
  <2>4. Turns(P) \in Nat /\ Raised(P) \in 0..1 /\ Coined(P) \in 0..1
      BY Numbers
  <2> HIDE DEF ch
  <2>5. ToLeet(Shaped(ch, Turns(P), Raised(P), Coined(P))) = Shaped(ch, Turns(P), Raised(P), 1)
      BY <2>1, <2>4, ShapedSteps
  <2> QED BY <2>2, <2>3, <2>5
<1>6. out = [i \in 1..Copied(src) |-> out[i]]
    BY <1>4
<1>7. Plain(Q, out, txt, way)
    BY <1>5, <1>6, EachChanged, Zenon
<1> QED BY <1>7 DEF Q, out

\* Reverse when it is disabled and the pipeline passes over it.
LEMMA SkipAdds ==
    ASSUME NEW P, NEW src, NEW txt, Composed(P, src, txt, "not")
    PROVE  Composed(P \cup {rev}, src, txt, "not")
<1> DEFINE Q == P \cup {rev}
<1>1. rev \in Hosts /\ rev # upper
    BY PluginAssumption DEF Hosts
<1>2. /\ \A op : Doing(Q, op) = Doing(P, op)
      /\ Turns(Q) = Turns(P) /\ Coined(Q) = Coined(P)
    BY <1>1, HostAdds
<1>3. Raised(Q) = Raised(P) /\ (upper \in Q <=> upper \in P)
    BY <1>1 DEF Raised
<1>4. \A i : PlaceOf(Q, i, txt, "not") = i /\ PlaceOf(P, i, txt, "not") = i
    BY DEF PlaceOf
<1> HIDE DEF Q
<1>5. \A i : CharOf(Q, i, txt, "not") = CharOf(P, i, txt, "not")
    BY <1>2, <1>3, <1>4 DEF CharOf
<1>6. Composed(Q, src, txt, "not")
  <2>1. CASE Doing(P, "xor") = {}
      BY <1>2, <1>3, <1>5, <2>1 DEF Composed, Plain
  <2>2. CASE Doing(P, "xor") # {}
      BY <1>2, <1>5, <2>2 DEF Composed, Coded
  <2> QED BY <2>1, <2>2
<1> QED BY <1>6 DEF Q

\* Reverse, by words or as a whole.
LEMMA RevAdds ==
    ASSUME NEW P, IsFiniteSet(P), NEW src, NEW txt, NEW way \in {"words", "all"}, IsInput(txt),
           rev \notin P, Plain(P, src, txt, way)
    PROVE  Plain(P \cup {rev}, IF way = "words" THEN ReverseWords(src) ELSE ReverseAll(src), txt, way)
<1> DEFINE Q == P \cup {rev}
           n == Len(txt)
           out == IF way = "words" THEN ReverseWords(src) ELSE ReverseAll(src)
<1>1. rev \in Hosts /\ rev # upper
    BY PluginAssumption DEF Hosts
<1>2. Turns(Q) = Turns(P) /\ Coined(Q) = Coined(P)
    BY <1>1, HostAdds
<1>3. Raised(Q) = Raised(P) /\ rev \in Q
    BY <1>1 DEF Raised
<1>4. IsText(src) /\ Copied(src) = n /\ n \in Nat /\ IsText(txt) /\ DOMAIN txt = 1..n
    BY DEF Plain, IsInput, IsText
<1>5. \A i : PlaceOf(P, i, txt, way) = i
    BY DEF PlaceOf
<1>6. Turns(P) \in Nat /\ Raised(P) \in 0..1 /\ Coined(P) \in 0..1
    BY Numbers
<1> HIDE DEF Q, n, out
<1>7. \A i \in 1..n : src[i] = Shaped(txt[i], Turns(P), Raised(P), Coined(P))
    BY <1>5 DEF Plain, CharOf, n
<1>8. \A i \in 1..n : src[i] = Space <=> txt[i] = Space
  <2> TAKE i \in 1..n
  <2>1. txt[i] \in Chars
      BY DEF IsInput, n
  <2>2. Shaped(txt[i], Turns(P), Raised(P), Coined(P)) = Space <=> txt[i] = Space
      BY <1>6, <2>1, ShapedSteps
  <2> QED BY <1>7, <2>2
<1>9. CASE way = "words"
  <2> DEFINE t == Cut(src)
  <2>1. DOMAIN t = 1..n /\ \A i \in 1..n : t[i] = src[i]
      BY <1>4, CutIs DEF IsText
  <2>2. out = [i \in 1..Copied(src) |-> t[Opposite(t, i)]]
      BY <1>4, <1>9, ReverseWordsIs DEF out
  <2> HIDE DEF t
  <2>3. ASSUME NEW i \in 1..n PROVE out[i] = CharOf(Q, i, txt, way)
    <3>1. Opposite(t, i) = Opposite(txt, i)
      <4>1. \A j \in DOMAIN t : t[j] = Space <=> txt[j] = Space
          BY <1>8, <2>1
      <4>2. DOMAIN t = DOMAIN txt /\ i \in DOMAIN t
          BY <1>4, <2>1
      <4> QED BY <4>1, <4>2, OppositeSame
    <3>2. Opposite(txt, i) \in 1..n
        BY <1>4, OppositeThere DEF n
    <3>3. out[i] = Shaped(txt[Opposite(txt, i)], Turns(P), Raised(P), Coined(P))
        BY <1>4, <1>7, <2>1, <2>2, <3>1, <3>2
    <3>4. PlaceOf(Q, i, txt, way) = Opposite(txt, i)
        BY <1>3, <1>9 DEF PlaceOf
    <3> QED BY <1>2, <1>3, <3>3, <3>4 DEF CharOf
  <2>4. out = [i \in 1..Copied(src) |-> out[i]]
      BY <2>2
  <2>5. Plain(Q, out, txt, way)
      BY <2>3, <2>4, EachChanged DEF n
  <2> QED BY <2>5 DEF Q, out
<1>10. CASE way = "all"
  <2>1. out = [i \in 1..Copied(src) |-> src[n + 1 - i]]
      BY <1>4, <1>10 DEF out, ReverseAll
  <2>3. ASSUME NEW i \in 1..n PROVE out[i] = CharOf(Q, i, txt, way)
    <3>1. n + 1 - i \in 1..n
        BY <1>4
    <3>2. out[i] = Shaped(txt[n + 1 - i], Turns(P), Raised(P), Coined(P))
        BY <1>4, <1>7, <2>1, <3>1
    <3>3. PlaceOf(Q, i, txt, way) = n + 1 - i
        BY <1>3, <1>10 DEF PlaceOf, n
    <3> QED BY <1>2, <1>3, <3>2, <3>3 DEF CharOf
  <2>4. out = [i \in 1..Copied(src) |-> out[i]]
      BY <2>1
  <2>5. Plain(Q, out, txt, way)
      BY <2>3, <2>4, EachChanged DEF n
  <2> QED BY <2>5 DEF Q, out
<1> QED BY <1>9, <1>10

\* XorCipher's room, as it computes it and as Room says it.
LEMMA RoomIs ==
    ASSUME NEW txt, IsInput(txt)
    PROVE  /\ Room(txt) \in 0..Len(txt)
           /\ Room(txt) = IF 2 * Len(txt) + 1 > CAP THEN (CAP - 1) \div 2 ELSE Len(txt)
           /\ \A i \in 1..2 * Room(txt) : (i + 1) \div 2 \in 1..Len(txt)
<1>1. Len(txt) \in Nat /\ Len(txt) < CAP /\ CAP \in Nat \ {0}
    BY TextAssumption DEF IsInput, IsText
<1>2. Room(txt) \in 0..Len(txt)
    BY <1>1 DEF Room
<1>3. \A i \in 1..2 * Room(txt) : (i + 1) \div 2 \in 1..Len(txt)
    BY <1>1, <1>2
<1> QED BY <1>1, <1>2, <1>3 DEF Room

\* XorCipher: two digits for each character there is room for.
LEMMA XorAdds ==
    ASSUME NEW P, NEW src, NEW txt, NEW way, IsInput(txt), upper \in P,
           NEW e \in Entries, Plugin[Library[e]].op = "xor", Plain(P, src, txt, way)
    PROVE  Composed(P \cup {e}, XorHex(src), txt, way)
<1> DEFINE Q == P \cup {e}
<1>1. Doing(Q, "rot13") = Doing(P, "rot13") /\ Doing(Q, "leet") = Doing(P, "leet")
      /\ Doing(Q, "xor") # {}
    BY DEF Doing
<1>2. upper # e /\ rev # e
    BY PluginAssumption DEF Hosts
<1>3. Turns(Q) = Turns(P) /\ Coined(Q) = Coined(P) /\ Raised(Q) = Raised(P)
    BY <1>1, <1>2 DEF Turns, Coined, Raised
<1>4. \A i : PlaceOf(Q, i, txt, way) = PlaceOf(P, i, txt, way)
    BY <1>2 DEF PlaceOf
<1> HIDE DEF Q
<1>5. \A i : CharOf(Q, i, txt, way) = CharOf(P, i, txt, way)
    BY <1>3, <1>4 DEF CharOf
<1>6. Len(src) = Len(txt) /\ \A i \in 1..Len(txt) : src[i] = CharOf(P, i, txt, way)
    BY DEF Plain
<1>7. XorHex(src) = [i \in 1..2 * Room(txt) |-> Half(src[(i + 1) \div 2], i % 2)]
    BY <1>6, RoomIs DEF XorHex
<1>8. \A i \in 1..2 * Room(txt) : src[(i + 1) \div 2] = CharOf(Q, (i + 1) \div 2, txt, way)
    BY <1>5, <1>6, RoomIs
<1>9. XorHex(src) = [i \in 1..2 * Room(txt) |-> Half(CharOf(Q, (i + 1) \div 2, txt, way), i % 2)]
    BY <1>7, <1>8
<1>10. Coded(Q, XorHex(src), txt, way)
    BY <1>9 DEF Coded
<1> QED BY <1>1, <1>10 DEF Q, Composed

-----------------------------------------------------------------------------
(***************************************************************************)
(* What Expected says is what all that is loaded makes of the text.        *)
(***************************************************************************)
Way == IF disabled THEN "not" ELSE IF word_mode THEN "words" ELSE "all"

\* The places of Turned are those of PlaceOf.
LEMMA TurnedIs ==
    ASSUME NEW P, rev \in P, IsText(Cut(text))
    PROVE  Turned = [i \in 1..Len(Cut(text)) |-> Cut(text)[PlaceOf(P, i, Cut(text), Way)]]
<1> DEFINE t == Cut(text)
<1>1. DOMAIN t = 1..Len(t) /\ t = [i \in 1..Len(t) |-> t[i]]
    BY DEF IsText
<1>2. CASE disabled
  <2>1. Turned = t
      BY <1>2 DEF Turned
  <2>2. Way = "not"
      BY <1>2 DEF Way
  <2>3. \A i : PlaceOf(P, i, t, Way) = i
      BY <2>2 DEF PlaceOf
  <2> HIDE DEF t
  <2>4. Turned = [i \in 1..Len(t) |-> t[PlaceOf(P, i, t, Way)]]
      BY <1>1, <2>1, <2>3
  <2> QED BY <2>4 DEF t
<1>3. CASE ~disabled /\ word_mode
  <2>1. Turned = WordsMirrored(t)
      BY <1>3 DEF Turned
  <2>2. Way = "words"
      BY <1>3 DEF Way
  <2>3. \A i : PlaceOf(P, i, t, Way) = Opposite(t, i)
      BY <2>2 DEF PlaceOf
  <2> HIDE DEF t
  <2>4. Turned = [i \in 1..Len(t) |-> t[PlaceOf(P, i, t, Way)]]
      BY <1>1, <2>1, <2>3 DEF WordsMirrored
  <2> QED BY <2>4 DEF t
<1>4. CASE ~disabled /\ ~word_mode
  <2>1. Turned = [i \in DOMAIN t |-> t[Len(t) + 1 - i]]
      BY <1>4 DEF Turned
  <2>2. Way = "all"
      BY <1>4 DEF Way
  <2>3. \A i : PlaceOf(P, i, t, Way) = Len(t) + 1 - i
      BY <2>2 DEF PlaceOf
  <2> HIDE DEF t
  <2>4. Turned = [i \in 1..Len(t) |-> t[PlaceOf(P, i, t, Way)]]
      BY <1>1, <2>1, <2>3
  <2> QED BY <2>4 DEF t
<1> QED BY <1>2, <1>3, <1>4

\* The characters of Written are those of Shaped.
LEMMA WrittenIs ==
    ASSUME NEW P, IsFiniteSet(P), upper \in P, Turns(P) = Cardinality(Loaded("rot13")),
           Doing(P, "leet") = {} <=> Loaded("leet") = {}, NEW ch \in Chars
    PROVE  Written(ch) = Shaped(ch, Turns(P), Raised(P), Coined(P))
<1>1. Capital(ch) = Shaped(ch, Turns(P), 1, 0)
    BY ShapedCapital DEF Capital, Shift
<1>2. Turns(P) \in Nat /\ Raised(P) = 1
    BY Numbers DEF Raised
<1>3. CASE Loaded("leet") = {}
    BY <1>1, <1>2, <1>3 DEF Written, Coined
<1>4. CASE Loaded("leet") # {}
  <2>1. ToLeet(Shaped(ch, Turns(P), 1, 0)) = Shaped(ch, Turns(P), 1, 1)
      BY <1>2, ShapedSteps
  <2> QED BY <1>1, <1>2, <1>4, <2>1 DEF Written, Coined
<1> QED BY <1>3, <1>4

\* Together.
LEMMA ExpectedIs ==
    ASSUME NEW P, IsFiniteSet(P), upper \in P, rev \in P, IsInput(Cut(text)),
           Turns(P) = Cardinality(Loaded("rot13")),
           Doing(P, "leet") = {} <=> Loaded("leet") = {},
           Doing(P, "xor") = {} <=> Loaded("xor") = {},
           NEW src, Composed(P, src, Cut(text), Way)
    PROVE  src = Expected
<1> DEFINE t == Cut(text)
           n == Len(Cut(text))
<1>1. Turned = [i \in 1..n |-> t[PlaceOf(P, i, t, Way)]]
    BY TurnedIs DEF IsInput
<1>2. \A i \in 1..n : Written(Turned[i]) = CharOf(P, i, t, Way)
  <2> TAKE i \in 1..n
  <2>1. t[PlaceOf(P, i, t, Way)] \in Chars
      BY PlaceThere
  <2>2. Turned[i] = t[PlaceOf(P, i, t, Way)]
      BY <1>1
  <2> QED BY <2>1, <2>2, WrittenIs DEF CharOf
<1>3. CASE Loaded("xor") = {}
  <2>1. Plain(P, src, t, Way)
      BY <1>3 DEF Composed
  <2>2. src = [i \in 1..n |-> src[i]]
      BY <2>1 DEF Plain, IsText
  <2>3. \A i \in 1..n : src[i] = CharOf(P, i, t, Way)
      BY <2>1 DEF Plain
  <2>4. DOMAIN Turned = 1..n
      BY <1>1
  <2>5. Expected = [i \in DOMAIN Turned |-> Written(Turned[i])]
      BY <1>3 DEF Expected
  <2> HIDE DEF t, n
  <2> QED BY <1>2, <2>2, <2>3, <2>4, <2>5
<1>4. CASE Loaded("xor") # {}
  <2>1. src = [i \in 1..2 * Room(t) |-> Half(CharOf(P, (i + 1) \div 2, t, Way), i % 2)]
      BY <1>4 DEF Composed, Coded
  <2>2. Expected = [i \in 1..2 * Room(t) |-> Half(Written(Turned[(i + 1) \div 2]), i % 2)]
      BY <1>4 DEF Expected
  <2>3. \A i \in 1..2 * Room(t) : (i + 1) \div 2 \in 1..n
      BY RoomIs
  <2> HIDE DEF t, n
  <2>4. \A i \in 1..2 * Room(t) : Written(Turned[(i + 1) \div 2]) = CharOf(P, (i + 1) \div 2, t, Way)
      BY <1>2, <2>3
  <2> QED BY <2>1, <2>2, <2>4
<1> QED BY <1>3, <1>4

-----------------------------------------------------------------------------
(***************************************************************************)
(* The invariant.  While execute runs, what the processors before pos have *)
(* made of the text is what that set of processors makes of it: the order  *)
(* among them is forgotten, which OrderAssumption and Sorted allow.        *)
(***************************************************************************)
Distinct(s) == \A i, j \in DOMAIN s : s[i] = s[j] => i = j

\* The processors execute has left behind.
Done == {all_[i] : i \in {j \in DOMAIN all_ : j < pos}}

Known ==
    /\ \E d \in Directories : dir \cup From(plugins_, 1) \subseteq d
    /\ \A i \in DOMAIN plugins_ : Loads(plugins_[i])

Working ==
    /\ Sorted(all_)
    /\ pos <= Len(all_) + 1
    /\ \A p \in Done : ~Fails(p)
    /\ Composed(Done, Content, Cut(text), Way)

OutInv ==
    /\ IInv
    /\ Known
    /\ pc \in {"load", "sort", "run"} => Distinct(all_)
    /\ pc \in {"start", "load", "sort", "run"} => ret = "none"
    /\ pc = "run" => Working
    /\ OutputIsComposition

\* Nothing execute reads or has written is changed.
Left == <<text, disabled, word_mode, plugins_, bufs, current_in, ret>>

LEMMA OutputLeft ==
    ASSUME OutputIsComposition, UNCHANGED Left
    PROVE  OutputIsComposition'
<1>1. /\ text' = text /\ disabled' = disabled /\ word_mode' = word_mode
      /\ plugins_' = plugins_ /\ bufs' = bufs /\ current_in' = current_in /\ ret' = ret
    BY DEF Left
<1>2. \A op : Loaded(op)' = Loaded(op)
    BY <1>1 DEF Loaded
<1>3. Content' = Content
    BY <1>1 DEF Content
<1>4. Turned' = Turned
    BY <1>1 DEF Turned
<1>5. Shift' = Shift
    BY <1>1 DEF Shift, Loaded
<1>6. Expected' = Expected
    BY <1>1, <1>4 DEF Expected, Written, Capital, Shift, Loaded
<1> QED BY <1>1, <1>2, <1>3, <1>6 DEF OutputIsComposition

-----------------------------------------------------------------------------
(***************************************************************************)
(* What is known while execute runs.                                       *)
(***************************************************************************)
\* The text of the command line.
LEMMA TextIs ==
    ASSUME TypeOK
    PROVE  IsText(text) /\ (\A i \in 1..Len(text) : text[i] \in Chars) /\ IsInput(Cut(text))
<1>1. text \in Seq(Chars)
    BY InputAssumption DEF TypeOK
<1>2. IsText(text) /\ \A i \in 1..Len(text) : text[i] \in Chars
  <2>1. Len(text) \in Nat /\ DOMAIN text = 1..Len(text) /\ text \in [1..Len(text) -> Chars]
      BY <1>1, LenProperties
  <2> QED BY <2>1 DEF IsText
<1> QED BY <1>2, NothingDone

\* Those of the host go by their own constants, plugins by what they return.
LEMMA PriorityIs ==
    /\ Priority(upper) = 10 /\ Priority(rev) = 20
    /\ \A e \in Entries : Priority(e) = Plugin[Library[e]].priority /\ Priority(e) \in Int
<1>1. upper # rev /\ \A e \in Entries : e # upper /\ e # rev
    BY PluginAssumption DEF Hosts
<1>2. \A e \in Entries : Priority(e) = Plugin[Library[e]].priority
    BY <1>1 DEF Priority
<1>3. Priority(upper) = 10 /\ Priority(rev) = 20
    BY <1>1 DEF Priority
<1>4. \A e \in Entries : Plugin[Library[e]].priority \in Int
    BY PluginAssumption
<1> QED BY <1>2, <1>3, <1>4

\* The plugins that are loaded, and the order OrderAssumption gives them.
LEMMA LoadedOnes ==
    ASSUME OutInv, NEW e \in From(plugins_, 1), NEW f \in From(plugins_, 1)
    PROVE  /\ e \in Entries
           /\ Plugin[Library[e]].op = "rot13" /\ Plugin[Library[f]].op = "leet" =>
                Priority(e) < Priority(f)
           /\ Plugin[Library[f]].op = "xor" => Priority(f) > Priority(rev)
           /\ Plugin[Library[e]].op \in {"rot13", "leet"} /\ Plugin[Library[f]].op = "xor" =>
                Priority(e) < Priority(f)
           /\ Plugin[Library[e]].op = "xor" /\ Plugin[Library[f]].op = "xor" => e = f
<1>1. PICK d \in Directories : From(plugins_, 1) \subseteq d
    BY DEF OutInv, Known
<1>2. Loads(e) /\ Loads(f)
    BY DEF OutInv, Known, From
<1>3. e \in d /\ f \in d /\ e \in Entries
    BY <1>1, PluginAssumption
<1>4. \A op : /\ Does(e, op) <=> Plugin[Library[e]].op = op
              /\ Does(f, op) <=> Plugin[Library[f]].op = op
    BY <1>2 DEF Does
<1>5. /\ Does(e, "rot13") /\ Does(f, "leet") => Priority(e) < Priority(f)
      /\ Does(f, "xor") => Priority(f) > Priority(rev)
      /\ (Does(e, "rot13") \/ Does(e, "leet")) /\ Does(f, "xor") => Priority(e) < Priority(f)
      /\ Does(e, "xor") /\ Does(f, "xor") => e = f
    BY <1>3, OrderAssumption
<1> QED BY <1>3, <1>4, <1>5

\* The processor at pos is one that is loaded, and of no lower priority than those before.
LEMMA AtPos ==
    ASSUME OutInv, pc = "run", pos <= Len(all_)
    PROVE  /\ pos \in DOMAIN all_
           /\ all_[pos] \in Hosts \cup From(plugins_, 1)
           /\ all_[pos] \notin Done
           /\ Done \subseteq Hosts \cup From(plugins_, 1)
           /\ {all_[i] : i \in {j \in DOMAIN all_ : j < pos + 1}} = Done \cup {all_[pos]}
           /\ \A f \in Done : Priority(f) <= Priority(all_[pos])
<1>1. /\ Len(all_) \in Nat /\ DOMAIN all_ = 1..Len(all_) /\ pos \in Nat \ {0}
    BY LenProperties DEF OutInv, IInv, TypeOK
<1>2. pos \in DOMAIN all_
    BY <1>1
<1>3. {all_[i] : i \in DOMAIN all_} = Hosts \cup From(plugins_, 1)
    BY DEF OutInv, IInv, Life
<1>4. Distinct(all_) /\ Sorted(all_)
    BY DEF OutInv, Working
<1>5. all_[pos] \notin Done
    BY <1>1, <1>2, <1>4 DEF Done, Distinct
<1>6. {all_[i] : i \in {j \in DOMAIN all_ : j < pos + 1}} = Done \cup {all_[pos]}
  <2>1. {j \in DOMAIN all_ : j < pos + 1} = {j \in DOMAIN all_ : j < pos} \cup {pos}
      BY <1>1
  <2> QED BY <2>1 DEF Done
<1>7. \A f \in Done : Priority(f) <= Priority(all_[pos])
    BY <1>2, <1>4 DEF Done, Sorted
<1> QED BY <1>2, <1>3, <1>5, <1>6, <1>7 DEF Done

LEMMA FiniteDone == ASSUME IInv PROVE IsFiniteSet(Done)
<1>1. /\ Len(all_) \in Nat /\ DOMAIN all_ = 1..Len(all_)
    BY LenProperties DEF IInv, TypeOK
<1> DEFINE D == {j \in DOMAIN all_ : j < pos}
           f == [i \in D |-> all_[i]]
<1>2. IsFiniteSet(D)
  <2>1. IsFiniteSet(1..Len(all_))
      BY <1>1, FS_Interval
  <2>2. D \in SUBSET (1..Len(all_))
      BY <1>1
  <2> QED BY <2>1, <2>2, FS_Subset
<1>3. f \in Surjection(D, Done)
    BY DEF Surjection, Done
<1> QED BY <1>2, <1>3, FS_Surjection

\* No text of digits yet, and every letter before it becomes a digit.
LEMMA BeforeIt ==
    ASSUME OutInv, pc = "run", pos <= Len(all_), ~Fails(all_[pos])
    PROVE  /\ Doing(Done, "xor") = {}
           /\ all_[pos] \in Entries /\ Plugin[Library[all_[pos]]].op = "rot13" =>
                Doing(Done, "leet") = {}
           /\ all_[pos] \in Entries /\ Plugin[Library[all_[pos]]].op = "xor" => upper \in Done
<1> DEFINE p == all_[pos]
           L == From(plugins_, 1)
<1>1. /\ p \in Hosts \cup L /\ p \notin Done /\ Done \subseteq Hosts \cup L
      /\ \A f \in Done : Priority(f) <= Priority(p)
    BY AtPos
<1>2. Hosts \cap Entries = {} /\ Hosts = {upper, rev}
    BY PluginAssumption DEF Hosts
<1>3. \A f \in Done \cap Entries : f \in L
    BY <1>1, <1>2
<1>4. L \subseteq Entries
    BY LoadedOnes
<1>5. p \in Hosts \/ (p \in L /\ Plugin[Library[p]].op \in {"rot13", "leet", "xor"})
  <2>1. ASSUME p \in L PROVE Plugin[Library[p]].op \in {"rot13", "leet", "xor"}
    <3>1. p \in Entries /\ Plugin[Library[p]].op # "error"
        BY <1>4, <2>1 DEF Fails
    <3> QED BY <3>1, PluginAssumption
  <2> QED BY <1>1, <2>1
<1>6. ASSUME NEW f \in Doing(Done, "xor") PROVE FALSE
  <2>1. f \in Done /\ f \in L /\ Plugin[Library[f]].op = "xor" /\ f \in Entries
      BY <1>3 DEF Doing
  <2>2. Priority(f) <= Priority(p) /\ Priority(f) \in Int
      BY <1>1, <2>1, PriorityIs
  <2>3. CASE p \in Hosts
    <3>1. Priority(p) <= 20
        BY <1>2, <2>3, PriorityIs
    <3>2. Priority(f) > 20
        BY <2>1, LoadedOnes, PriorityIs
    <3>3. Priority(p) \in Int
        BY <1>2, <2>3, PriorityIs
    <3> QED BY <2>2, <3>1, <3>2, <3>3
  <2>4. CASE p \in L /\ Plugin[Library[p]].op \in {"rot13", "leet"}
    <3>1. Priority(p) < Priority(f)
        BY <2>1, <2>4, LoadedOnes
    <3>2. Priority(p) \in Int
        BY <1>4, <2>4, PriorityIs
    <3> QED BY <2>2, <3>1, <3>2
  <2>5. CASE p \in L /\ Plugin[Library[p]].op = "xor"
    <3>1. p = f
        BY <2>1, <2>5, LoadedOnes
    <3> QED BY <1>1, <2>1, <3>1
  <2> QED BY <1>5, <2>3, <2>4, <2>5
<1>7. ASSUME p \in Entries, Plugin[Library[p]].op = "rot13", NEW f \in Doing(Done, "leet") PROVE FALSE
  <2>1. f \in Done /\ f \in L /\ Plugin[Library[f]].op = "leet" /\ f \in Entries
      BY <1>3 DEF Doing
  <2>2. Priority(f) <= Priority(p) /\ Priority(f) \in Int /\ Priority(p) \in Int
      BY <1>1, <1>7, <2>1, PriorityIs
  <2>3. p \in L
      BY <1>1, <1>2, <1>7
  <2>4. Priority(p) < Priority(f)
      BY <1>7, <2>1, <2>3, LoadedOnes
  <2> QED BY <2>2, <2>4
<1>8. ASSUME p \in Entries, Plugin[Library[p]].op = "xor" PROVE upper \in Done
  <2>1. p \in L
      BY <1>1, <1>2, <1>8
  <2>2. Priority(p) > 20 /\ Priority(p) \in Int
      BY <1>8, <2>1, LoadedOnes, PriorityIs
  <2>3. PICK i \in DOMAIN all_ : all_[i] = upper
    <3>1. {all_[i] : i \in DOMAIN all_} = Hosts \cup L
        BY DEF OutInv, IInv, Life
    <3> QED BY <1>2, <3>1
  <2>4. pos \in DOMAIN all_ /\ DOMAIN all_ \subseteq Nat
      BY AtPos, LenProperties DEF OutInv, IInv, TypeOK
  <2>5. ~(pos < i)
    <3> SUFFICES ASSUME pos < i PROVE FALSE
        OBVIOUS
    <3>1. Priority(p) <= Priority(upper)
        BY <2>3, <2>4 DEF OutInv, Working, Sorted
    <3> QED BY <2>2, <3>1, PriorityIs
  <2>6. i # pos
      BY <1>2, <1>8, <2>3
  <2>7. i < pos
      BY <2>4, <2>5, <2>6
  <2> QED BY <2>3, <2>7 DEF Done
<1> QED BY <1>6, <1>7, <1>8

-----------------------------------------------------------------------------
(***************************************************************************)
(* Each action keeps the invariant.                                        *)
(***************************************************************************)
LEMMA OutInit == Init => OutInv
<1> SUFFICES ASSUME Init PROVE OutInv
    OBVIOUS
<1>1. IInv
    BY IInvInit
<1>2. dir \in Directories /\ plugins_ = <<>> /\ pc = "start" /\ ret = "none"
    BY DEF Init
<1>3. DOMAIN <<>> = {} /\ From(<<>>, 1) = {}
    BY DEF From
<1>4. Known
    BY <1>2, <1>3 DEF Known
<1> QED BY <1>1, <1>2, <1>4 DEF OutInv, OutputIsComposition

LEMMA HostsDistinct == Distinct(<<upper, rev>>)
BY Pair DEF Distinct

\* Actions before execute.
LEMMA OutLoads ==
    ASSUME OutInv, IInv', AddInternals \/ LoadDone \/ \E e \in Entries : LoadPlugin(e)
    PROVE  OutInv'
<1>1. pc \in {"start", "load"} /\ pc' \in {"load", "sort"} /\ ret' = ret /\ ret = "none"
    BY DEF OutInv, AddInternals, LoadDone, LoadPlugin
<1>2. CASE AddInternals
  <2>1. all_' = <<upper, rev>> /\ UNCHANGED <<dir, plugins_>>
      BY <1>2 DEF AddInternals
  <2>2. Known'
      BY <2>1 DEF OutInv, Known
  <2> QED BY <1>1, <2>1, <2>2, HostsDistinct DEF OutInv, OutputIsComposition
<1>3. CASE LoadDone
  <2>1. UNCHANGED <<dir, plugins_, all_>> /\ pc = "load"
      BY <1>3 DEF LoadDone, objects
  <2>2. Known' /\ Distinct(all_)'
      BY <2>1 DEF OutInv, Known
  <2> QED BY <1>1, <2>2 DEF OutInv, OutputIsComposition
<1>4. ASSUME NEW e \in Entries, LoadPlugin(e) PROVE OutInv'
  <2>1. pc = "load" /\ e \in dir /\ dir' = dir \ {e} /\ Distinct(all_)
      BY <1>4 DEF LoadPlugin, OutInv
  <2>2. PICK d \in Directories : dir \cup From(plugins_, 1) \subseteq d
      BY DEF OutInv, Known
  <2>3. CASE ~Loads(e)
    <3>1. UNCHANGED <<plugins_, all_>>
        BY <1>4, <2>3 DEF LoadPlugin
    <3>2. Known' /\ Distinct(all_)'
        BY <2>1, <2>2, <3>1 DEF OutInv, Known
    <3> QED BY <1>1, <3>2 DEF OutInv, OutputIsComposition
  <2>4. CASE Loads(e)
    <3>1. plugins_' = Append(plugins_, e) /\ all_' = Append(all_, e)
        BY <1>4, <2>4 DEF LoadPlugin
    <3>2. plugins_ \in Seq(Entries) /\ all_ \in Seq(Processors) /\ e \in Processors
        BY DEF OutInv, IInv, TypeOK, Processors
    <3>3. From(plugins_', 1) = From(plugins_, 1) \cup {e}
        BY <3>1, <3>2, FromAppend
    <3>4. /\ DOMAIN plugins_' = 1..Len(plugins_) + 1
          /\ Len(plugins_) \in Nat /\ DOMAIN plugins_ = 1..Len(plugins_)
          /\ plugins_'[Len(plugins_) + 1] = e
          /\ \A i \in DOMAIN plugins_ : plugins_'[i] = plugins_[i]
        BY <3>1, <3>2, AppendProperties, LenProperties
    <3>5. \A i \in DOMAIN plugins_' : Loads(plugins_'[i])
        BY <2>4, <3>4 DEF OutInv, Known
    <3>6. Known'
        BY <2>1, <2>2, <3>3, <3>5 DEF Known
    <3>7. /\ DOMAIN all_' = 1..Len(all_) + 1
          /\ Len(all_) \in Nat /\ DOMAIN all_ = 1..Len(all_)
          /\ all_'[Len(all_) + 1] = e
          /\ \A i \in DOMAIN all_ : all_'[i] = all_[i]
        BY <3>1, <3>2, AppendProperties, LenProperties
    <3>8. \A i \in DOMAIN all_ : all_[i] # e
      <4>1. {all_[i] : i \in DOMAIN all_} = Hosts \cup From(plugins_, 1)
          BY <2>1 DEF OutInv, IInv, Life
      <4>2. e \notin Hosts
          BY PluginAssumption
      <4>3. e \notin From(plugins_, 1)
          BY <2>1 DEF OutInv, IInv, Once, From
      <4> QED BY <4>1, <4>2, <4>3
    <3>9. Distinct(all_')
        BY <2>1, <3>7, <3>8 DEF Distinct
    <3> QED BY <1>1, <3>6, <3>9 DEF OutInv, OutputIsComposition
  <2> QED BY <2>3, <2>4
<1> QED BY <1>2, <1>3, <1>4

\* std::sort: execute starts with nothing done.
LEMMA OutSorts ==
    ASSUME OutInv, IInv', Sort
    PROVE  OutInv'
<1>1. /\ pc = "sort" /\ pc' = "run" /\ pos' = 1 /\ current_in' = "text"
      /\ UNCHANGED <<dir, text, disabled, word_mode, plugins_, ret>>
    BY DEF Sort, arguments, objects
<1>2. ret = "none"
    BY <1>1 DEF OutInv
<1>3. Known'
    BY <1>1 DEF OutInv, Known
<1>4. Distinct(all_') /\ Sorted(all_')
    BY DEF Sort, Bijection, Injection, IsInjective, Distinct
<1>5. Len(all_') \in Nat /\ DOMAIN all_' = 1..Len(all_')
    BY LenProperties DEF IInv, TypeOK
<1>6. Done' = {}
    BY <1>1, <1>5 DEF Done
<1>7. Content' = text
    BY <1>1 DEF Content
<1>8. IsText(text) /\ \A i \in 1..Len(text) : text[i] \in Chars
    BY TextIs DEF OutInv, IInv
<1>9. Composed({}, text, Cut(text), Way')
    BY <1>8, NothingDone
<1>10. Working'
    BY <1>1, <1>4, <1>5, <1>6, <1>7, <1>9 DEF Working
<1> QED BY <1>1, <1>2, <1>3, <1>4, <1>10 DEF OutInv, OutputIsComposition

\* continue on a disabled one.
LEMMA OutSkips ==
    ASSUME OutInv, IInv', Skip
    PROVE  OutInv'
<1>1. /\ pc = "run" /\ pc' = "run" /\ pos <= Len(all_) /\ pos' = pos + 1 /\ ~Enabled(all_[pos])
      /\ UNCHANGED <<dir, text, disabled, word_mode, plugins_, all_, bufs, current_in, ret>>
    BY DEF Skip, AfterSkip, arguments, objects, buffers
<1>2. ret = "none" /\ Known' /\ Distinct(all_')
    BY <1>1 DEF OutInv, Known
<1>3. all_[pos] = rev /\ disabled
    BY <1>1 DEF Enabled
<1>4. Way = "not"
    BY <1>3 DEF Way
<1>5. Done' = Done \cup {rev}
    BY <1>1, <1>3, AtPos DEF Done
<1>6. Content' = Content /\ Way' = Way
    BY <1>1 DEF Content, Way
<1>7. Composed(Done \cup {rev}, Content, Cut(text), Way)
    BY <1>1, <1>4, SkipAdds DEF OutInv, Working
<1>8. ~Fails(rev)
    BY PluginAssumption DEF Fails, Hosts
<1>9. pos' <= Len(all_') + 1
    BY <1>1, LenProperties DEF OutInv, IInv, TypeOK
<1>10. Working'
    BY <1>1, <1>5, <1>6, <1>7, <1>8, <1>9 DEF OutInv, Working
<1> QED BY <1>1, <1>2, <1>10 DEF OutInv, OutputIsComposition

\* What the processor at hand does, added to what those before it have done.
LEMMA StepAdds ==
    ASSUME OutInv, pc = "run", pos <= Len(all_), Enabled(all_[pos]), ~Fails(all_[pos])
    PROVE  Composed(Done \cup {all_[pos]}, Processed(all_[pos], Content), Cut(text), Way)
<1> DEFINE p == all_[pos]
           P == Done
           t == Cut(text)
           out == Processed(p, Content)
<1>1. p \in Hosts \cup From(plugins_, 1) /\ p \notin P
    BY AtPos
<1>2. IsFiniteSet(P) /\ IsInput(t)
    BY FiniteDone, TextIs DEF OutInv, IInv
<1>3. Doing(P, "xor") = {}
    BY BeforeIt
<1>4. Plain(P, Content, t, Way)
    BY <1>3 DEF OutInv, Working, Composed
<1>5. From(plugins_, 1) \subseteq Entries /\ upper # rev /\ upper \notin Entries /\ rev \notin Entries
    BY LoadedOnes, PluginAssumption DEF Hosts
<1>6. CASE p = upper
  <2>1. out = UpperCase(Content)
      BY <1>5, <1>6 DEF Processed
  <2>2. Plain(P \cup {upper}, UpperCase(Content), t, Way)
      BY <1>1, <1>2, <1>4, <1>6, UpperAdds
  <2>3. Doing(P \cup {upper}, "xor") = {}
      BY <1>3, HostAdds DEF Hosts
  <2> QED BY <1>6, <2>1, <2>2, <2>3 DEF Composed
<1>7. CASE p = rev
  <2>1. ~disabled
      BY <1>7 DEF Enabled
  <2>9. /\ word_mode => out = ReverseWords(Content)
        /\ ~word_mode => out = ReverseAll(Content)
      BY <1>5, <1>7 DEF Processed
  <2>2. Doing(P \cup {rev}, "xor") = {}
      BY <1>3, HostAdds DEF Hosts
  <2>3. CASE word_mode
    <3>1. Way = "words" /\ out = ReverseWords(Content)
        BY <2>9, <2>1, <2>3 DEF Way
    <3>2. Plain(P \cup {rev}, ReverseWords(Content), t, Way)
        BY <1>1, <1>2, <1>4, <1>7, <3>1, RevAdds
    <3> QED BY <1>7, <2>2, <3>1, <3>2 DEF Composed
  <2>4. CASE ~word_mode
    <3>1. Way = "all" /\ out = ReverseAll(Content)
        BY <2>9, <2>1, <2>4 DEF Way
    <3>2. Plain(P \cup {rev}, ReverseAll(Content), t, Way)
        BY <1>1, <1>2, <1>4, <1>7, <3>1, RevAdds
    <3> QED BY <1>7, <2>2, <3>1, <3>2 DEF Composed
  <2> QED BY <2>3, <2>4
<1>8. CASE p \in Entries /\ Plugin[Library[p]].op = "rot13"
  <2>1. out = Rot13(Content)
      BY <1>5, <1>8 DEF Processed
  <2>2. Plain(P \cup {p}, Rot13(Content), t, Way)
      BY <1>1, <1>2, <1>4, <1>8, BeforeIt, RotAdds
  <2>3. Doing(P \cup {p}, "xor") = {}
      BY <1>3, <1>8 DEF Doing
  <2> QED BY <2>1, <2>2, <2>3 DEF Composed
<1>9. CASE p \in Entries /\ Plugin[Library[p]].op = "leet"
  <2>1. out = LeetSpeak(Content)
      BY <1>5, <1>9 DEF Processed
  <2>2. Plain(P \cup {p}, LeetSpeak(Content), t, Way)
      BY <1>2, <1>4, <1>9, LeetAdds
  <2>3. Doing(P \cup {p}, "xor") = {}
      BY <1>3, <1>9 DEF Doing
  <2> QED BY <2>1, <2>2, <2>3 DEF Composed
<1>10. CASE p \in Entries /\ Plugin[Library[p]].op = "xor"
  <2>1. out = XorHex(Content)
      BY <1>5, <1>10 DEF Processed
  <2>2. upper \in P
      BY <1>10, BeforeIt
  <2> QED BY <1>2, <1>4, <1>10, <2>1, <2>2, XorAdds
<1>11. p \in Entries => Plugin[Library[p]].op \in {"rot13", "leet", "xor"}
    BY PluginAssumption DEF Fails
<1> QED BY <1>1, <1>5, <1>6, <1>7, <1>8, <1>9, <1>10, <1>11 DEF Hosts

\* One process(): out becomes in.
LEMMA OutSteps ==
    ASSUME OutInv, IInv', Step
    PROVE  OutInv'
<1>1. /\ pc = "run" /\ pc' = "run" /\ pos <= Len(all_) /\ pos' = pos + 1
      /\ Enabled(all_[pos]) /\ ~Fails(all_[pos])
      /\ bufs' = [bufs EXCEPT ![current_out] = Processed(all_[pos], Content)]
      /\ current_in' = current_out
      /\ UNCHANGED <<dir, text, disabled, word_mode, plugins_, all_, ret>>
    BY DEF Step, arguments, objects
<1>2. ret = "none" /\ Known' /\ Distinct(all_')
    BY <1>1 DEF OutInv, Known
<1>3. Done' = Done \cup {all_[pos]}
    BY <1>1, AtPos DEF Done
<1>4. Content' = Processed(all_[pos], Content) /\ Way' = Way
  <2>1. current_out \in {"a", "b"} /\ DOMAIN bufs = {"a", "b"}
      BY DEF OutInv, IInv, TypeOK
  <2>2. current_in' # "text" /\ bufs'[current_in'] = Processed(all_[pos], Content)
      BY <1>1, <2>1
  <2>3. Content' = bufs'[current_in']
      BY <2>2 DEF Content
  <2> QED BY <1>1, <2>2, <2>3 DEF Way
<1>5. Composed(Done \cup {all_[pos]}, Processed(all_[pos], Content), Cut(text), Way)
    BY <1>1, StepAdds
<1>6. pos' <= Len(all_') + 1
    BY <1>1, LenProperties DEF OutInv, IInv, TypeOK
<1>7. Working'
    BY <1>1, <1>3, <1>4, <1>5, <1>6 DEF OutInv, Working
<1> QED BY <1>1, <1>2, <1>7 DEF OutInv, OutputIsComposition

\* What is loaded, by places and by entries.
LEMMA LoadedIs ==
    ASSUME IInv, pc = "run", NEW op
    PROVE  Doing(Hosts \cup From(plugins_, 1), op) = {plugins_[i] : i \in Loaded(op)}
<1>1. /\ plugins_ \in Seq(Entries) /\ DOMAIN plugins_ = 1..Len(plugins_) /\ Len(plugins_) \in Nat
      /\ \A i \in DOMAIN plugins_ : plugins_[i] \in Entries
    BY LenProperties DEF IInv, TypeOK
<1>2. Hosts \cap Entries = {}
    BY PluginAssumption
<1>3. From(plugins_, 1) = {plugins_[i] : i \in DOMAIN plugins_}
    BY <1>1 DEF From
<1> QED BY <1>1, <1>2, <1>3 DEF Doing, Loaded

\* No entry is loaded twice: as many turns as places with a rot13.
LEMMA LoadedCount ==
    ASSUME IInv, pc = "run"
    PROVE  Turns(Hosts \cup From(plugins_, 1)) = Cardinality(Loaded("rot13"))
<1> DEFINE D == Loaded("rot13")
           R == {plugins_[i] : i \in D}
           f == [i \in D |-> plugins_[i]]
<1>1. IsFiniteSet(D)
  <2>1. DOMAIN plugins_ = 1..Len(plugins_) /\ Len(plugins_) \in Nat
      BY LenProperties DEF IInv, TypeOK
  <2>2. IsFiniteSet(1..Len(plugins_))
      BY <2>1, FS_Interval
  <2>3. D \in SUBSET (1..Len(plugins_))
      BY <2>1 DEF Loaded
  <2> QED BY <2>2, <2>3, FS_Subset
<1>2. f \in Surjection(D, R)
    BY DEF Surjection
<1>3. f \in Injection(D, R)
  <2>1. \A i, j \in D : plugins_[i] = plugins_[j] => i = j
      BY DEF Loaded, IInv, Once
  <2> QED BY <2>1 DEF Injection, IsInjective
<1>4. Cardinality(R) = Cardinality(D)
    BY <1>1, <1>2, <1>3, FS_Surjection
<1>5. Doing(Hosts \cup From(plugins_, 1), "rot13") = R
    BY LoadedIs
<1> QED BY <1>4, <1>5 DEF Turns

\* One failed, and so it is loaded.
LEMMA OutFails ==
    ASSUME OutInv, IInv', StepFails
    PROVE  OutInv'
<1>1. /\ pc = "run" /\ pc' = "internals" /\ pos <= Len(all_) /\ Fails(all_[pos]) /\ ret' = "-1"
      /\ UNCHANGED <<dir, plugins_>>
    BY DEF StepFails, objects
<1>2. Known'
    BY <1>1 DEF OutInv, Known
<1>3. Loaded("error")' # {}
  <2>1. all_[pos] \in Doing(Hosts \cup From(plugins_, 1), "error")
      BY <1>1, AtPos DEF Fails, Doing
  <2>2. Loaded("error") # {}
      BY <1>1, <2>1, LoadedIs DEF OutInv
  <2> QED BY <1>1, <2>2 DEF Loaded
<1>4. OutputIsComposition'
    BY <1>1, <1>3 DEF OutputIsComposition
<1> QED BY <1>1, <1>2, <1>4 DEF OutInv

\* All have run: nothing is left of Hosts and plugins_.
LEMMA OutReports ==
    ASSUME OutInv, IInv', Report
    PROVE  OutInv'
<1> DEFINE P == Hosts \cup From(plugins_, 1)
<1>1. /\ pc = "run" /\ pc' = "internals" /\ pos > Len(all_) /\ ret' = "0"
      /\ UNCHANGED <<dir, text, disabled, word_mode, plugins_, bufs, current_in>>
    BY DEF Report, arguments, objects, buffers
<1>2. Known'
    BY <1>1 DEF OutInv, Known
<1>3. Done = P
  <2>1. DOMAIN all_ = 1..Len(all_) /\ Len(all_) \in Nat /\ pos \in Nat
      BY LenProperties DEF OutInv, IInv, TypeOK
  <2>2. {j \in DOMAIN all_ : j < pos} = DOMAIN all_
      BY <1>1, <2>1
  <2>3. {all_[i] : i \in DOMAIN all_} = P
      BY <1>1 DEF OutInv, IInv, Life
  <2> QED BY <2>2, <2>3 DEF Done
<1>4. IsFiniteSet(P) /\ upper \in P /\ rev \in P
    BY <1>3, FiniteDone DEF OutInv, Hosts
<1>5. \A op : Doing(P, op) = {} <=> Loaded(op) = {}
  <2> TAKE op
  <2>1. Doing(P, op) = {plugins_[i] : i \in Loaded(op)}
      BY <1>1, LoadedIs DEF OutInv
  <2> HIDE DEF P
  <2> QED BY <2>1
<1>6. Turns(P) = Cardinality(Loaded("rot13"))
    BY <1>1, LoadedCount DEF OutInv
<1>7. Composed(P, Content, Cut(text), Way)
    BY <1>1, <1>3 DEF OutInv, Working
<1>8. IsInput(Cut(text))
    BY TextIs DEF OutInv, IInv
<1> HIDE DEF P
<1>9. Content = Expected
    BY <1>4, <1>5, <1>6, <1>7, <1>8, ExpectedIs
<1>10. Loaded("error") = {}
  <2>1. \A p \in P : ~Fails(p)
      BY <1>1, <1>3 DEF OutInv, Working
  <2>2. Doing(P, "error") = {}
      BY <2>1 DEF Doing, Fails
  <2> QED BY <1>5, <2>2
<1>11. Content' = Content /\ Expected' = Expected /\ Loaded("error")' = Loaded("error")
  <2>1. Content' = Content /\ Turned' = Turned
      BY <1>1 DEF Content, Turned
  <2> QED BY <1>1, <2>1 DEF Expected, Written, Capital, Shift, Loaded
<1>12. OutputIsComposition'
    BY <1>1, <1>9, <1>10, <1>11 DEF OutputIsComposition
<1> QED BY <1>1, <1>2, <1>12 DEF OutInv

\* ~Pipeline touches neither the buffers nor the result.
LEMMA OutEnds ==
    ASSUME OutInv, IInv', DeleteInternal \/ DestroyPlugin \/ ClosePlugin \/ Exit
    PROVE  OutInv'
<1>1. UNCHANGED <<dir, text, disabled, word_mode, plugins_, bufs, current_in, ret>>
    BY DEF DeleteInternal, DestroyPlugin, ClosePlugin, Exit, arguments, objects, buffers
<1>2. pc' \in {"internals", "destroy", "dlclose", "exited"}
    BY DEF DeleteInternal, DestroyPlugin, ClosePlugin, Exit
<1>3. Known'
    BY <1>1 DEF OutInv, Known
<1>4. OutputIsComposition'
    BY <1>1, OutputLeft DEF OutInv, Left
<1> QED BY <1>2, <1>3, <1>4 DEF OutInv

\* Every step.
LEMMA OutNext ==
    ASSUME OutInv, [Next]_vars
    PROVE  OutInv'
<1>1. IInv'
    BY IInvNext DEF OutInv
<1>2. CASE UNCHANGED vars
  <2>1. UNCHANGED <<pc, dir, plugins_, all_, pos, text, disabled, word_mode, bufs, current_in, ret>>
      BY <1>2 DEF vars
  <2>2. OutputIsComposition'
      BY <2>1, OutputLeft DEF OutInv, Left
  <2>3. Known' /\ Done' = Done /\ Content' = Content /\ Way' = Way
      BY <2>1 DEF OutInv, Known, Done, Content, Way
  <2>4. Working => Working'
      BY <2>1, <2>3 DEF Working
  <2> QED BY <1>1, <2>1, <2>2, <2>3, <2>4 DEF OutInv
<1> QED BY <1>1, <1>2, OutLoads, OutSorts, OutSkips, OutSteps, OutFails, OutReports, OutEnds DEF Next

(***************************************************************************)
(* What the pipeline prints is its text, each letter through what is       *)
(* loaded in the order of priorities, whatever the order of the directory, *)
(* and execute fails exactly when a processor does (oop.cpp:269-325,       *)
(* plugin_beta.cpp:64-76).                                                 *)
(***************************************************************************)
THEOREM Output == Spec => []OutputIsComposition
<1>1. Init => OutInv
    BY OutInit
<1>2. OutInv /\ [Next]_vars => OutInv'
    BY OutNext
<1>3. OutInv => OutputIsComposition
    BY DEF OutInv
<1> QED BY <1>1, <1>2, <1>3, PTL DEF Spec
=============================================================================
