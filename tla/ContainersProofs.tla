--------------------------- MODULE ContainersProofs ---------------------------
(***************************************************************************)
(* Theorems about the container files, for all tables, names, texts, keys, *)
(* files, block sizes, directories and commands, and for every write after *)
(* which a command may die.  The parts:                                    *)
(*   - least numbers, sequences, recursion;                                *)
(*   - tables: where records lie, what is listed of them, what is shown;   *)
(*   - writes and scripts: a file written from end to end, and one that is *)
(*     overwritten from some place on and then in its first cell;          *)
(*   - what cmd_add and cmd_create have still to write makes a table;      *)
(*   - the block cipher: each round is undone, a chain of blocks too, and  *)
(*     a beginning of a container gives a beginning of the file;           *)
(*   - CRYPT24 files: padding, chaining, and what the script accepts;      *)
(*   - the bytes of files: where each cell begins, what a range holds;     *)
(*   - the sample files: none of their beginnings is a container, and what *)
(*     the patterns of chapter 6 place lies where they place it;           *)
(*   - the invariant: what each file is, and what each running command has *)
(*     still to write; every action keeps it; the properties of the        *)
(*     containers;                                                         *)
(*   - captures: no other program writes what the patterns look for;       *)
(*   - the sections of chapter 15: the parser's offset is where the        *)
(*     descriptors were put, and each section is what it is by itself.     *)
(***************************************************************************)
EXTENDS Containers, TLAPS

WF == INSTANCE WellFoundedInduction

\* A set of numbers that is not empty has a least one.
LEMMA LeastNumber ==
    ASSUME NEW T \in SUBSET Nat, T # {}
    PROVE  \E x \in T : \A y \in T : x <= y
<1> DEFINE R == WF!OpToRel(<, Nat)
<1>1. R = {ss \in Nat \X Nat : ss[1] < ss[2]}
    BY DEF WF!OpToRel
<1>2. WF!IsWellFoundedOn(R, Nat)
    BY WF!NatLessThanWellFounded
<1> HIDE DEF R
<1>3. PICK x \in T : \A y \in T : ~ (<<y, x>> \in R)
    BY <1>2, WF!WFMin
<1>5. \A y \in T : ~ (y < x)
    BY <1>1, <1>3
<1> QED BY <1>5

\* What holds of 0, and of a number when it holds of the one before, holds of every number.
LEMMA Induction ==
    ASSUME NEW T \in SUBSET Nat, 0 \in T, \A n \in T : n + 1 \in T
    PROVE  T = Nat
<1> SUFFICES ASSUME Nat \ T # {} PROVE FALSE
    OBVIOUS
<1>1. PICK n \in Nat \ T : \A m \in Nat \ T : n <= m
    BY LeastNumber
<1> QED BY <1>1

-----------------------------------------------------------------------------
(***************************************************************************)
(* Sequences.                                                              *)
(***************************************************************************)
LEMMA SequenceIn ==
    ASSUME NEW s, IsSequence(s)
    PROVE  s \in Seq({s[i] : i \in 1..Len(s)})
BY DEF IsSequence

\* The sequences of the library.
LEMMA SequenceOf ==
    ASSUME NEW S, NEW s \in Seq(S)
    PROVE  IsSequence(s)
BY DEF IsSequence

\* A function on 1..n is a sequence.
LEMMA FunctionIs ==
    ASSUME NEW n \in Nat, NEW f, f = [i \in 1..n |-> f[i]]
    PROVE  IsSequence(f) /\ Len(f) = n /\ DOMAIN f = 1..n
BY DEF IsSequence

\* Sequences of one length with the same elements are the same.
LEMMA SameSequence ==
    ASSUME NEW s, NEW t, IsSequence(s), IsSequence(t), Len(s) = Len(t),
           \A i \in 1..Len(s) : s[i] = t[i]
    PROVE  s = t
BY DEF IsSequence

\* What two sequences are one behind the other.
LEMMA Concatenated ==
    ASSUME NEW s, NEW t, IsSequence(s), IsSequence(t)
    PROVE  /\ IsSequence(s \o t) /\ Len(s \o t) = Len(s) + Len(t)
           /\ \A i \in 1..Len(s) : (s \o t)[i] = s[i]
           /\ \A i \in 1..Len(t) : (s \o t)[Len(s) + i] = t[i]
<1> DEFINE S == {s[i] : i \in 1..Len(s)} \cup {t[i] : i \in 1..Len(t)}
<1>1. s \in Seq(S) /\ t \in Seq(S)
    BY DEF IsSequence
<1> HIDE DEF S
<1>2. s \o t \in Seq(S)
    BY <1>1
<1>3. IsSequence(s \o t)
    BY <1>2, SequenceOf
<1> QED BY <1>1, <1>3 DEF IsSequence

\* u is s with t behind it.
Join(u, s, t) ==
    /\ IsSequence(u) /\ Len(s) \in Nat /\ Len(t) \in Nat /\ Len(u) = Len(s) + Len(t)
    /\ \A i \in 1..Len(s) : u[i] = s[i]
    /\ \A i \in 1..Len(t) : u[Len(s) + i] = t[i]

LEMMA Joined ==
    ASSUME NEW s, NEW t, IsSequence(s), IsSequence(t)
    PROVE  Join(s \o t, s, t)
BY Concatenated DEF IsSequence, Join

\* Append, place by place.
LEMMA AppendedAt ==
    ASSUME NEW s, NEW e, IsSequence(s)
    PROVE  /\ IsSequence(Append(s, e)) /\ Len(Append(s, e)) = Len(s) + 1
           /\ \A i \in 1..Len(s) : Append(s, e)[i] = s[i]
           /\ Append(s, e)[Len(s) + 1] = e
<1> DEFINE S == {s[i] : i \in 1..Len(s)} \cup {e}
<1>1. s \in Seq(S) /\ e \in S
    BY DEF IsSequence
<1> HIDE DEF S
<1>2. Append(s, e) \in Seq(S)
    BY <1>1
<1>3. IsSequence(Append(s, e))
    BY <1>2, SequenceOf
<1>4. Len(s) \in Nat
    BY DEF IsSequence
<1> QED BY <1>1, <1>3, <1>4

\* SubSeq, place by place.
LEMMA Slice ==
    ASSUME NEW s, IsSequence(s), NEW m \in Nat, NEW n \in Nat, 1 <= m, m <= n + 1, n <= Len(s)
    PROVE  /\ IsSequence(SubSeq(s, m, n)) /\ Len(SubSeq(s, m, n)) = n + 1 - m
           /\ \A i \in 1..n + 1 - m : SubSeq(s, m, n)[i] = s[m + i - 1]
<1> DEFINE S == {s[i] : i \in 1..Len(s)}
<1>1. s \in Seq(S)
    BY SequenceIn
<1>4. Len(s) \in Nat
    BY DEF IsSequence
<1> HIDE DEF S
<1>2. SubSeq(s, m, n) \in Seq(S)
    BY <1>1, <1>4
<1>3. IsSequence(SubSeq(s, m, n))
    BY <1>2, SequenceOf
<1> QED BY <1>1, <1>3, <1>4

LEMMA Beginning ==
    ASSUME NEW s, IsSequence(s), NEW n \in Nat, n <= Len(s)
    PROVE  /\ IsSequence(SubSeq(s, 1, n)) /\ Len(SubSeq(s, 1, n)) = n
           /\ \A i \in 1..n : SubSeq(s, 1, n)[i] = s[i]
<1>1. PICK m \in Nat : m = 1
    OBVIOUS
<1>2. 1 <= m /\ m <= n + 1 /\ n + 1 - m = n
    BY <1>1
<1> DEFINE t == SubSeq(s, m, n)
<1> HIDE DEF t
<1>4. IsSequence(t) /\ Len(t) = n /\ \A i \in 1..n : t[i] = s[i]
    BY <1>1, <1>2, Slice DEF t
<1> QED BY <1>1, <1>4 DEF t

LEMMA Sliced ==
    ASSUME NEW s, IsSequence(s), NEW m \in Nat, NEW n \in Nat, 1 <= m, m <= n + 1, n <= Len(s)
    PROVE  SubSeq(s, m, n) = [i \in 1..n + 1 - m |-> s[m + i - 1]]
<1> DEFINE S == {s[i] : i \in 1..Len(s)}
<1>1. s \in Seq(S)
    BY SequenceIn
<1>4. Len(s) \in Nat
    BY DEF IsSequence
<1> HIDE DEF S
<1> QED BY <1>1, <1>4

LEMMA EmptySequence ==
    /\ IsSequence(<<>>) /\ Len(<<>>) = 0
    /\ \A s : IsSequence(s) /\ Len(s) = 0 => s = <<>>
BY SameSequence DEF IsSequence

LEMMA SingleSequence ==
    ASSUME NEW e
    PROVE  IsSequence(<<e>>) /\ Len(<<e>>) = 1 /\ <<e>>[1] = e
BY DEF IsSequence

\* The places of a sequence.
LEMMA IndexSet ==
    ASSUME NEW s, IsSequence(s)
    PROVE  DOMAIN s = 1..Len(s) /\ Len(s) \in Nat
BY DEF IsSequence

\* A value for every number up to N, each made of the one before.
Recursive(f, N, S, a, step) ==
    f \in [0..N -> S] /\ f[0] = a /\ \A n \in 1..N : f[n] = step[n][f[n - 1]]

\* There are such values.
LEMMA Recursion ==
    ASSUME NEW N \in Nat, NEW S, NEW a \in S, NEW step \in [1..N -> [S -> S]]
    PROVE  \E f : Recursive(f, N, S, a, step)
<1> DEFINE Exist(k) == \E f \in [0..k -> S] : f[0] = a /\ \A n \in 1..k : f[n] = step[n][f[n - 1]]
           T == {k \in Nat : k <= N => Exist(k)}
<1>1. Exist(0)
  <2> DEFINE f == [k \in 0..0 |-> a]
  <2>1. f \in [0..0 -> S] /\ f[0] = a /\ \A n \in 1..0 : f[n] = step[n][f[n - 1]]
      OBVIOUS
  <2> QED BY <2>1
<1>2. ASSUME NEW k \in Nat, k + 1 <= N, Exist(k) PROVE Exist(k + 1)
  <2>1. PICK f \in [0..k -> S] : f[0] = a /\ \A n \in 1..k : f[n] = step[n][f[n - 1]]
      BY <1>2
  <2> DEFINE g == [n \in 0..k + 1 |-> IF n = k + 1 THEN step[k + 1][f[k]] ELSE f[n]]
  <2>2. step[k + 1][f[k]] \in S
      BY <1>2, <2>1
  <2>3. g \in [0..k + 1 -> S]
      BY <2>1, <2>2
  <2>4. \A n \in 0..k : g[n] = f[n]
      OBVIOUS
  <2>5. g[k + 1] = step[k + 1][f[k]]
      OBVIOUS
  <2> HIDE DEF g
  <2>6. \A n \in 1..k + 1 : g[n] = step[n][g[n - 1]]
    <3> TAKE n \in 1..k + 1
    <3>1. CASE n = k + 1
        BY <2>4, <2>5, <3>1
    <3>2. CASE n # k + 1
        BY <2>1, <2>4, <3>2
    <3> QED BY <3>1, <3>2
  <2>7. g[0] = a
      BY <1>2, <2>1, <2>4
  <2> QED BY <2>3, <2>6, <2>7, Zenon
<1> HIDE DEF Exist
<1>3. T = Nat
  <2>1. 0 \in T
      BY <1>1
  <2>2. \A k \in T : k + 1 \in T
    <3> TAKE k \in T
    <3>1. k \in Nat
        OBVIOUS
    <3>2. CASE k + 1 <= N
        BY <1>2, <3>1, <3>2
    <3>3. CASE ~(k + 1 <= N)
        BY <3>1, <3>3
    <3> QED BY <3>2, <3>3
  <2> HIDE DEF T
  <2>3. T \in SUBSET Nat
      BY DEF T
  <2> QED BY <2>1, <2>2, <2>3, Induction
<1>4. Exist(N)
    BY <1>3
<1> QED BY <1>4 DEF Exist, Recursive

-----------------------------------------------------------------------------
(***************************************************************************)
(* Records of a table and their places.                                    *)
(***************************************************************************)
RecordCell(rec) ==
    [kind |-> "record", name_len |-> NameLenByte(rec), data_len |-> IF rec.data = "" THEN 0 ELSE 1]
NameCell(rec) == [kind |-> "name", name |-> rec.name, len |-> NameLenByte(rec)]
DataCell(rec) == [kind |-> "data", data |-> rec.data]

\* write_record: one to three cells, the record header first (fileformat.c:163-182).
LEMMA CellsOfRecord ==
    ASSUME NEW rec
    PROVE  /\ IsSequence(RecordCells(rec)) /\ Len(RecordCells(rec)) \in 1..3
           /\ RecordCells(rec)[1] = RecordCell(rec)
           /\ NameLenByte(rec) # 0 =>
                 /\ RecordCells(rec)[2] = NameCell(rec)
                 /\ rec.data = "" => Len(RecordCells(rec)) = 2
                 /\ rec.data # "" =>
                       Len(RecordCells(rec)) = 3 /\ RecordCells(rec)[3] = DataCell(rec)
<1> DEFINE c == RecordCell(rec)
           n == IF NameLenByte(rec) = 0 THEN <<>> ELSE <<NameCell(rec)>>
           d == IF rec.data = "" THEN <<>> ELSE <<DataCell(rec)>>
<1>1. RecordCells(rec) = <<c>> \o n \o d
    BY DEF RecordCells, RecordCell, NameCell, DataCell
<1>2. IsSequence(<<c>>) /\ Len(<<c>>) = 1 /\ <<c>>[1] = c
    BY SingleSequence
<1>3. /\ IsSequence(n)
      /\ NameLenByte(rec) = 0 => Len(n) = 0
      /\ NameLenByte(rec) # 0 => Len(n) = 1 /\ n[1] = NameCell(rec)
    BY SingleSequence, EmptySequence
<1>4. /\ IsSequence(d)
      /\ rec.data = "" => Len(d) = 0
      /\ rec.data # "" => Len(d) = 1 /\ d[1] = DataCell(rec)
    BY SingleSequence, EmptySequence
<1> HIDE DEF c, n, d
<1> DEFINE u == <<c>> \o n
           v == u \o d
<1>5. Join(u, <<c>>, n)
    BY <1>2, <1>3, Joined
<1> HIDE DEF u
<1>6. IsSequence(u)
    BY <1>5 DEF Join
<1>7. Join(u, <<c>>, n) /\ Join(v, u, d)
    BY <1>4, <1>5, <1>6, Joined
<1> HIDE DEF v
<1>8. IsSequence(u) /\ Len(u) = 1 + Len(n) /\ u[1] = c /\ (Len(n) = 1 => u[2] = n[1])
    BY <1>2, <1>7 DEF Join
<1>9. /\ IsSequence(v) /\ Len(v) = 1 + Len(n) + Len(d) /\ v[1] = c
      /\ Len(n) = 1 => v[2] = n[1]
      /\ Len(n) = 1 /\ Len(d) = 1 => v[3] = d[1]
  <2>0. Len(n) \in Nat /\ Len(d) \in Nat /\ Len(u) \in Nat
      BY <1>3, <1>4, <1>8 DEF IsSequence
  <2>3. Len(n) = 1 /\ Len(d) = 1 => v[2 + 1] = d[1]
      BY <2>0, <1>8, <1>7 DEF Join
  <2> QED BY <1>7, <1>8, <2>0, <2>3 DEF Join
<1>10. RecordCells(rec) = v
    BY <1>1 DEF u, v
<1>11. v[1] = RecordCell(rec)
    BY <1>9 DEF c
<1>a. PICK p \in Nat, q \in Nat : p = Len(n) /\ q = Len(d)
    BY <1>3, <1>4 DEF IsSequence
<1>b. p \in 0..1 /\ q \in 0..1
  <2>1. p = 0 \/ p = 1
      BY <1>3, <1>a, Zenon
  <2>2. q = 0 \/ q = 1
      BY <1>4, <1>a, Zenon
  <2> QED BY <2>1, <2>2
<1>c. Len(v) = 1 + p + q
    BY <1>9, <1>a
<1>12. Len(v) \in 1..3
    BY <1>b, <1>c
<1>13. ASSUME NameLenByte(rec) # 0
       PROVE  /\ v[2] = NameCell(rec)
              /\ rec.data = "" => Len(v) = 2
              /\ rec.data # "" => Len(v) = 3 /\ v[3] = DataCell(rec)
  <2>1. p = 1 /\ n[1] = NameCell(rec)
      BY <1>3, <1>13, <1>a, Zenon
  <2>2. v[2] = NameCell(rec)
      BY <1>9, <1>a, <2>1, Zenon
  <2>3. ASSUME rec.data = "" PROVE Len(v) = 2
    <3>1. q = 0
        BY <1>4, <1>a, <2>3, Zenon
    <3> QED BY <1>c, <2>1, <3>1
  <2>4. ASSUME rec.data # "" PROVE Len(v) = 3 /\ v[3] = DataCell(rec)
    <3>1. q = 1 /\ d[1] = DataCell(rec)
        BY <1>4, <1>a, <2>4, Zenon
    <3>2. v[3] = DataCell(rec)
        BY <1>9, <1>a, <2>1, <3>1, Zenon
    <3> QED BY <1>c, <2>1, <3>1, <3>2
  <2> QED BY <2>2, <2>3, <2>4
<1> QED BY <1>9, <1>10, <1>11, <1>12, <1>13, Zenon

\* The records of a table lie one behind the other.
LEMMA OffsetDefined ==
    ASSUME NEW recs
    PROVE  /\ \A n \in Nat : OffsetOf(recs, n + 1) \in Nat
           /\ OffsetOf(recs, 1) = 1
           /\ \A n \in Nat \ {0} : OffsetOf(recs, n + 1) = OffsetOf(recs, n) + Len(RecordCells(recs[n]))
<1> DEFINE L(i) == Len(RecordCells(recs[i]))
<1>0. \A i : L(i) \in Nat
  <2> TAKE i
  <2>1. Len(RecordCells(recs[i])) \in 1..3
      BY CellsOfRecord, Zenon
  <2> QED BY <2>1
<1> HIDE DEF L
<1> DEFINE Places(n, g) == g = [i \in 0..n |-> IF i = 0 THEN 1 ELSE g[i - 1] + L(i)]
<1>1. \A n \in Nat : \E f \in [0..n -> Nat] : f[0] = 1 /\ \A i \in 1..n : f[i] = f[i - 1] + L(i)
  <2> TAKE n \in Nat
  <2> DEFINE step == [i \in 1..n |-> [x \in Nat |-> x + L(i)]]
  <2>1. step \in [1..n -> [Nat -> Nat]]
      BY <1>0
  <2>2. \A i \in 1..n : \A x \in Nat : step[i][x] = x + L(i)
      OBVIOUS
  <2> HIDE DEF step
  <2>a. PICK S : S = Nat
      OBVIOUS
  <2>b. step \in [1..n -> [S -> S]] /\ 1 \in S
      BY <2>1, <2>a
  <2>c. \E f : Recursive(f, n, S, 1, step)
      BY <2>b, Recursion, Zenon
  <2>3. PICK f \in [0..n -> Nat] : f[0] = 1 /\ \A i \in 1..n : f[i] = step[i][f[i - 1]]
      BY <2>a, <2>c DEF Recursive
  <2>4. \A i \in 1..n : f[i] = f[i - 1] + L(i)
    <3> TAKE i \in 1..n
    <3> QED BY <2>2, <2>3
  <2> QED BY <2>3, <2>4
<1>2. \A n \in Nat : \E g : Places(n, g)
  <2> TAKE n \in Nat
  <2>1. PICK f \in [0..n -> Nat] : f[0] = 1 /\ \A i \in 1..n : f[i] = f[i - 1] + L(i)
      BY <1>1
  <2>2. Places(n, f)
      BY <2>1
  <2> QED BY <2>2
<1>3. \A n \in Nat : \E g : Places(n, g) /\ OffsetOf(recs, n + 1) = g[n]
  <2> TAKE n \in Nat
  <2> DEFINE g == CHOOSE g : Places(n, g)
  <2>1. Places(n, g)
      BY <1>2
  <2>3. OffsetOf(recs, n + 1) = g[n]
      BY DEF OffsetOf, L
  <2> QED BY <2>1, <2>3
<1>4. ASSUME NEW n \in Nat, NEW g, Places(n, g)
      PROVE  g[0] = 1 /\ \A i \in 1..n : g[i] = g[i - 1] + L(i)
    BY <1>4
<1>5. ASSUME NEW n \in Nat, NEW g, NEW N \in Nat, NEW h, Places(n, g), Places(N, h), n <= N
      PROVE  \A i \in 0..n : g[i] = h[i] /\ h[i] \in Nat
  <2> DEFINE T == {i \in Nat : i <= n => g[i] = h[i] /\ h[i] \in Nat}
  <2>1. g[0] = 1 /\ \A i \in 1..n : g[i] = g[i - 1] + L(i)
      BY <1>4, <1>5
  <2>2. h[0] = 1 /\ \A i \in 1..N : h[i] = h[i - 1] + L(i)
      BY <1>4, <1>5
  <2>3. 0 \in T
      BY <2>1, <2>2
  <2>4. \A i \in T : i + 1 \in T
    <3> SUFFICES ASSUME NEW i \in T, i + 1 <= n PROVE g[i + 1] = h[i + 1] /\ h[i + 1] \in Nat
        OBVIOUS
    <3>1. i + 1 \in 1..n /\ i + 1 \in 1..N /\ (i + 1) - 1 = i /\ i <= n
        BY <1>5
    <3> QED BY <1>0, <3>1, <2>1, <2>2
  <2>5. T = Nat
    <3> HIDE DEF T
    <3> QED BY <2>3, <2>4, Induction DEF T
  <2> QED BY <2>5
<1> HIDE DEF Places
<1>6. OffsetOf(recs, 1) = 1
    BY <1>3, <1>4
<1>7. \A n \in Nat : OffsetOf(recs, n + 1) \in Nat
  <2> TAKE n \in Nat
  <2>1. PICK g : Places(n, g) /\ OffsetOf(recs, n + 1) = g[n]
      BY <1>3
  <2> QED BY <1>5, <2>1
<1>8. ASSUME NEW n \in Nat \ {0}
      PROVE  OffsetOf(recs, n + 1) = OffsetOf(recs, n) + L(n)
  <2>1. n - 1 \in Nat /\ (n - 1) + 1 = n /\ n - 1 <= n /\ n \in 1..n
      OBVIOUS
  <2>2. PICK g : Places(n - 1, g) /\ OffsetOf(recs, (n - 1) + 1) = g[n - 1]
      BY <1>3, <2>1
  <2>3. PICK h : Places(n, h) /\ OffsetOf(recs, n + 1) = h[n]
      BY <1>3
  <2>5. h[n] = h[n - 1] + L(n)
      BY <1>4, <2>1, <2>3
  <2> QED BY <2>1, <2>2, <2>3, <2>5, <1>5
<1> QED BY <1>6, <1>7, <1>8 DEF L

-----------------------------------------------------------------------------
(***************************************************************************)
(* What a table shows.                                                     *)
(***************************************************************************)
\* The first k records are in their places.
LaidOne(cells, recs, n) ==
    \A j \in 1..Len(RecordCells(recs[n])) : cells[OffsetOf(recs, n) + j] = RecordCells(recs[n])[j]

Laid(cells, recs, k) == \A n \in 1..k : LaidOne(cells, recs, n)

\* How many of the first n records come before one without a name.
IsVisible(recs, n, m) ==
    /\ \A i \in 1..m : NameLenByte(recs[i]) # 0
    /\ m < n => NameLenByte(recs[m + 1]) = 0

Visible(recs, n) == CHOOSE m \in 0..n : IsVisible(recs, n, m)

Listing(recs, m) ==
    [i \in 1..m |-> [name |-> NameCell(recs[i]), data |-> recs[i].data]]

\* There is such a number, and one only.
LEMMA VisibleIs ==
    ASSUME NEW recs, NEW n \in Nat
    PROVE  Visible(recs, n) \in 0..n /\ IsVisible(recs, n, Visible(recs, n))
<1> DEFINE T == {m \in 0..n : m = n \/ NameLenByte(recs[m + 1]) = 0}
<1>1. T \in SUBSET Nat /\ n \in T
    OBVIOUS
<1>2. PICK m \in T : \A y \in T : m <= y
  <2> HIDE DEF T
  <2> QED BY <1>1, LeastNumber
<1>3. ASSUME NEW i \in 1..m PROVE NameLenByte(recs[i]) # 0
    BY <1>2
<1> QED BY <1>3 DEF Visible, IsVisible

LEMMA VisibleUnique ==
    ASSUME NEW recs, NEW n \in Nat, NEW m \in 0..n, NEW k \in 0..n,
           IsVisible(recs, n, m), IsVisible(recs, n, k)
    PROVE  m = k
BY DEF IsVisible

\* One record more shows itself, if those before did and it has a name.
LEMMA VisibleNext ==
    ASSUME NEW recs, NEW n \in Nat
    PROVE  Visible(recs, n + 1) = IF Visible(recs, n) = n /\ NameLenByte(recs[n + 1]) # 0
                                  THEN n + 1 ELSE Visible(recs, n)
<1> DEFINE m == Visible(recs, n)
<1>1. m \in 0..n /\ IsVisible(recs, n, m)
    BY VisibleIs
<1>2. Visible(recs, n + 1) \in 0..n + 1 /\ IsVisible(recs, n + 1, Visible(recs, n + 1))
    BY VisibleIs
<1> HIDE DEF m
<1>3. CASE m = n /\ NameLenByte(recs[n + 1]) # 0
    BY <1>1, <1>3, <1>2, VisibleUnique DEF IsVisible, m
<1>4. CASE ~(m = n /\ NameLenByte(recs[n + 1]) # 0)
    BY <1>1, <1>4, <1>2, VisibleUnique DEF IsVisible, m
<1> QED BY <1>3, <1>4

LEMMA VisibleNone == \A recs : Visible(recs, 0) = 0
<1> TAKE recs
<1> QED BY VisibleIs

\* As many entries as records.
LEMMA ListingIs ==
    ASSUME NEW recs, NEW m \in Nat
    PROVE  /\ IsSequence(Listing(recs, m)) /\ Len(Listing(recs, m)) = m
           /\ \A i \in 1..m : Listing(recs, m)[i] = [name |-> NameCell(recs[i]), data |-> recs[i].data]
<1> DEFINE f == Listing(recs, m)
<1> HIDE DEF f
<1> QED BY FunctionIs DEF f, Listing

\* read_record, where a record was put.
LEMMA ReadLaid ==
    ASSUME NEW cells, NEW recs, NEW n \in Nat \ {0}, IsSequence(cells),
           LaidOne(cells, recs, n), OffsetOf(recs, n + 1) <= Len(cells)
    PROVE  ReadRecord(cells, OffsetOf(recs, n)) =
              IF NameLenByte(recs[n]) = 0 THEN NoRecord
              ELSE [ok |-> TRUE, next |-> OffsetOf(recs, n + 1),
                    name |-> NameCell(recs[n]), data |-> recs[n].data]
<1> DEFINE rec == recs[n]
           c == RecordCells(rec)
<1>1. PICK o \in Nat : o = OffsetOf(recs, n)
  <2>1. (n - 1) + 1 = n /\ n - 1 \in Nat
      OBVIOUS
  <2> QED BY <2>1, OffsetDefined
<1>2. PICK p \in 1..3 : p = Len(c)
    BY CellsOfRecord
<1>3. OffsetOf(recs, n + 1) = o + p
    BY <1>1, <1>2, OffsetDefined
<1>4. PICK l \in Nat : l = Len(cells)
    BY DEF IsSequence
<1>5. o + p <= l
    BY <1>3, <1>4
<1>7. \A j \in 0..2 : j < p => CellAt(cells, o + j) = c[j + 1]
  <2> TAKE j \in 0..2
  <2> HAVE j < p
  <2>1. j + 1 \in 1..p /\ o + j < l /\ (o + j) + 1 = o + (j + 1)
      BY <1>5
  <2> QED BY <2>1, <1>1, <1>2, <1>4 DEF LaidOne, CellAt
<1>8. CellAt(cells, o) = RecordCell(rec)
  <2>2. c[1] = RecordCell(rec)
      BY CellsOfRecord
  <2> QED BY <2>2, <1>7
<1>9. /\ RecordCell(rec).kind = "record" /\ RecordCell(rec).name_len = NameLenByte(rec)
      /\ RecordCell(rec).data_len = IF rec.data = "" THEN 0 ELSE 1
    BY DEF RecordCell
<1> DEFINE d == RecordCell(rec).data_len
<1> HIDE DEF rec, c
<1>10. CASE NameLenByte(rec) = 0
  <2>1. RecordCell(rec).kind = "record" /\ RecordCell(rec).name_len = 0
      BY <1>9, <1>10
  <2>2. ReadRecord(cells, o) = NoRecord
      BY <1>8, <2>1, Zenon DEF ReadRecord
  <2> QED BY <1>1, <1>10, <2>2 DEF rec
<1>11. CASE NameLenByte(rec) # 0
  <2>1. /\ c[2] = NameCell(rec)
        /\ rec.data = "" => p = 2
        /\ rec.data # "" => p = 3 /\ c[3] = DataCell(rec)
    <3>1. /\ c[2] = NameCell(rec)
          /\ rec.data = "" => Len(c) = 2
          /\ rec.data # "" => Len(c) = 3 /\ c[3] = DataCell(rec)
        BY <1>11, CellsOfRecord, Zenon DEF c
    <3>2. rec.data = "" => p = 2
        BY <1>2, <3>1, Zenon
    <3>3. rec.data # "" => p = 3
        BY <1>2, <3>1, Zenon
    <3>4. rec.data # "" => c[3] = DataCell(rec)
        BY <3>1, Zenon
    <3> QED BY <3>1, <3>2, <3>3, <3>4, Zenon
  <2>2. CellAt(cells, o + 1) = NameCell(rec)
    <3>a. p = 2 \/ p = 3
        BY <2>1, Zenon
    <3>1. 1 \in 0..2 /\ 1 < p /\ 1 + 1 = 2
        BY <3>a
    <3> QED BY <2>1, <3>1, <1>7
  <2> DEFINE rh == CellAt(cells, o)
             size == 2 + (IF rh.data_len = 0 THEN 0 ELSE 1)
  <2>3. rh.kind = "record" /\ rh.name_len # 0 /\ rh.data_len = IF rec.data = "" THEN 0 ELSE 1
      BY <1>8, <1>9, <1>11
  <2>4. size = p
    <3> HIDE DEF rh
    <3>1. CASE rec.data = ""
      <4>1. p = 2 /\ rh.data_len = 0
          BY <2>1, <2>3, <3>1, Zenon
      <4> QED BY <4>1
    <3>2. CASE rec.data # ""
      <4>1. p = 3 /\ rh.data_len = 1
          BY <2>1, <2>3, <3>2, Zenon
      <4> QED BY <4>1
    <3> QED BY <3>1, <3>2
  <2>5. rec.data # "" => CellAt(cells, o + 2) = DataCell(rec)
    <3>1. ASSUME p = 3 PROVE CellAt(cells, o + 2) = c[3]
        BY <3>1, <1>7
    <3> QED BY <2>1, <3>1, Zenon
  <2> DEFINE data == IF rh.data_len = 0 THEN "" ELSE CellAt(cells, o + 2).data
             it == [ok |-> TRUE, next |-> o + size, name |-> CellAt(cells, o + 1), data |-> data]
  <2>6. data = rec.data
    <3> HIDE DEF rh
    <3>2. CASE rec.data = ""
        BY <2>3, <3>2
    <3>3. CASE rec.data # ""
      <4>1. rh.data_len = 1 /\ CellAt(cells, o + 2) = DataCell(rec)
          BY <2>3, <2>5, <3>3, Zenon
      <4> QED BY <4>1 DEF DataCell
    <3> QED BY <3>2, <3>3
  <2>7. ~(o + size > Len(cells))
    <3> HIDE DEF size
    <3> QED BY <1>4, <1>5, <2>4
  <2>8. ReadRecord(cells, o) = it
    <3>1. ReadRecord(cells, o) = IF rh.kind # "record" THEN NoRecord
                                 ELSE IF rh.name_len = 0 \/ o + size > Len(cells) THEN NoRecord
                                 ELSE it
        BY Zenon DEF ReadRecord
    <3> HIDE DEF rh, size, it
    <3> QED BY <2>3, <2>7, <3>1
  <2>9. it = [ok |-> TRUE, next |-> OffsetOf(recs, n + 1), name |-> NameCell(rec), data |-> rec.data]
    <3> HIDE DEF data, size
    <3> QED BY <1>3, <2>2, <2>4, <2>6
  <2> HIDE DEF it
  <2> QED BY <1>1, <1>11, <2>8, <2>9 DEF rec
<1> QED BY <1>10, <1>11

\* Offsets grow with the records.
LEMMA OffsetGrows ==
    ASSUME NEW recs, NEW n \in Nat
    PROVE  \A m \in 0..n : OffsetOf(recs, m + 1) <= OffsetOf(recs, n + 1)
<1> DEFINE Off(m) == OffsetOf(recs, m + 1)
           T == {d \in Nat : \A m \in Nat : Off(m) <= Off(m + d)}
<1>1. \A m \in Nat : Off(m) \in Nat
    BY OffsetDefined
<1>2. \A m \in Nat : Off(m) <= Off(m + 1)
  <2> TAKE m \in Nat
  <2>3. Len(RecordCells(recs[m + 1])) \in 1..3
      BY CellsOfRecord, Zenon
  <2> QED BY <1>1, <2>3, OffsetDefined
<1> HIDE DEF At
<1>3. 0 \in T
    BY <1>1
<1>4. \A d \in T : d + 1 \in T
  <2> TAKE d \in T
  <2>1. \A m \in Nat : Off(m) <= Off(m + (d + 1))
    <3> TAKE m \in Nat
    <3>1. Off(m) <= Off(m + d) /\ Off(m + d) <= Off((m + d) + 1) /\ (m + d) + 1 = m + (d + 1)
        BY <1>2
    <3> QED BY <3>1, <1>1
  <2> QED BY <2>1
<1>5. T = Nat
  <2> HIDE DEF T
  <2> QED BY <1>3, <1>4, Induction DEF T
<1> TAKE m \in 0..n
<1>6. n - m \in Nat /\ m \in Nat /\ m + (n - m) = n
    OBVIOUS
<1> QED BY <1>6, <1>5 DEF At

\* What cmd_parse has found when it has looked for n records.
Stand(recs, n) ==
    [at |-> OffsetOf(recs, Visible(recs, n) + 1), stop |-> Visible(recs, n) < n,
     list |-> Listing(recs, Visible(recs, n))]

LEMMA ListingNext ==
    ASSUME NEW recs, NEW m \in Nat
    PROVE  Listing(recs, m + 1) =
              Append(Listing(recs, m), [name |-> NameCell(recs[m + 1]), data |-> recs[m + 1].data])
<1> DEFINE e == [name |-> NameCell(recs[m + 1]), data |-> recs[m + 1].data]
           s == Listing(recs, m)
           t == Listing(recs, m + 1)
<1>1. IsSequence(s) /\ Len(s) = m
    BY ListingIs
<1>2. IsSequence(Append(s, e)) /\ Len(Append(s, e)) = m + 1 /\ Append(s, e)[m + 1] = e
      /\ \A i \in 1..m : Append(s, e)[i] = s[i]
  <2> HIDE DEF s, e
  <2> QED BY <1>1, AppendedAt
<1>3. m + 1 \in Nat
    OBVIOUS
<1>4. IsSequence(t) /\ Len(t) = m + 1
    BY <1>3, ListingIs
<1>5. \A i \in 1..m : t[i] = s[i]
    BY DEF Listing
<1>6. t[m + 1] = e
    BY DEF Listing
<1> HIDE DEF s, t, e
<1>7. \A i \in 1..Len(t) : t[i] = Append(s, e)[i]
  <2> TAKE i \in 1..Len(t)
  <2> QED BY <1>2, <1>5, <1>6, <1>4
<1>8. t = Append(s, e)
    BY <1>2, <1>4, <1>7, SameSequence
<1> QED BY <1>8 DEF s, t, e

\* One turn of the loop of cmd_parse over records that lie where they were put.
LEMMA FollowLaid ==
    ASSUME NEW cells, NEW recs, NEW n \in Nat, IsSequence(cells),
           Laid(cells, recs, n + 1), OffsetOf(recs, n + 2) <= Len(cells)
    PROVE  Follow(cells, Stand(recs, n)) = Stand(recs, n + 1)
<1> DEFINE m == Visible(recs, n)
           rec == ReadRecord(cells, OffsetOf(recs, m + 1))
           s == Stand(recs, n)
<1>1. m \in 0..n /\ IsVisible(recs, n, m)
    BY VisibleIs
<1>2. Visible(recs, n + 1) = IF m = n /\ NameLenByte(recs[n + 1]) # 0 THEN n + 1 ELSE m
    BY VisibleNext
<1>3. /\ s.at = OffsetOf(recs, m + 1) /\ s.stop = (m < n) /\ s.list = Listing(recs, m)
      /\ s = [at |-> OffsetOf(recs, m + 1), stop |-> m < n, list |-> Listing(recs, m)]
    BY DEF Stand
<1>4. Follow(cells, s) =
         IF s.stop \/ ~rec.ok THEN [at |-> s.at, stop |-> TRUE, list |-> s.list]
         ELSE [at |-> rec.next, stop |-> FALSE,
               list |-> Append(s.list, [name |-> rec.name, data |-> rec.data])]
    BY <1>3, Zenon DEF Follow
<1>5. Stand(recs, n + 1) = [at |-> OffsetOf(recs, Visible(recs, n + 1) + 1),
                            stop |-> Visible(recs, n + 1) < n + 1,
                            list |-> Listing(recs, Visible(recs, n + 1))]
    BY DEF Stand
<1> HIDE DEF m, s, rec
<1>6. CASE m < n
  <2>1. Visible(recs, n + 1) = m
      BY <1>2, <1>6
  <2>2. m < n + 1 /\ (m < n) = TRUE /\ (m < n + 1) = TRUE
      BY <1>1, <1>6
  <2>3. s.stop = TRUE
      BY <1>3, <2>2
  <2>4. Follow(cells, s) = [at |-> s.at, stop |-> TRUE, list |-> s.list]
      BY <1>4, <2>3, Zenon
  <2>5. [at |-> s.at, stop |-> TRUE, list |-> s.list] = [at |-> OffsetOf(recs, m + 1), stop |-> TRUE, list |-> Listing(recs, m)]
    <3>1. s = [at |-> OffsetOf(recs, m + 1), stop |-> TRUE, list |-> Listing(recs, m)]
        BY <1>3, <2>2, Zenon
    <3> QED BY <3>1
  <2> QED BY <1>5, <2>1, <2>2, <2>4, <2>5 DEF s
<1>7. CASE m = n
  <2>1. n + 1 \in Nat \ {0} /\ (n + 1) + 1 = n + 2 /\ n + 1 \in 1..n + 1
      OBVIOUS
  <2>3. rec = IF NameLenByte(recs[n + 1]) = 0 THEN NoRecord
              ELSE [ok |-> TRUE, next |-> OffsetOf(recs, n + 2),
                    name |-> NameCell(recs[n + 1]), data |-> recs[n + 1].data]
      BY <2>1, ReadLaid, <1>7 DEF rec, Laid
  <2>4. (m < n) = FALSE /\ (m < n + 1) = TRUE /\ (n + 1 < n + 1) = FALSE
      BY <1>7
  <2>5. s.stop = FALSE
      BY <1>3, <2>4
  <2>6. CASE NameLenByte(recs[n + 1]) = 0
    <3>2. rec.ok = FALSE
        BY <2>3, <2>6 DEF NoRecord
    <3>3. Follow(cells, s) = [at |-> s.at, stop |-> TRUE, list |-> s.list]
        BY <1>4, <3>2, Zenon
    <3> QED BY <1>5, <2>4, <3>3, <1>3, <1>2, <2>6 DEF s
  <2>7. CASE NameLenByte(recs[n + 1]) # 0
    <3>2. rec.ok = TRUE /\ rec.next = OffsetOf(recs, n + 2) /\ rec.name = NameCell(recs[n + 1])
          /\ rec.data = recs[n + 1].data
        BY <2>3, <2>7
    <3>3. Follow(cells, s) = [at |-> rec.next, stop |-> FALSE,
                              list |-> Append(s.list, [name |-> rec.name, data |-> rec.data])]
        BY <1>4, <2>5, <3>2, Zenon
    <3>4. Visible(recs, n + 1) = n + 1
        BY <1>2, <1>7, <2>7
    <3>5. Listing(recs, n + 1) =
             Append(Listing(recs, n), [name |-> NameCell(recs[n + 1]), data |-> recs[n + 1].data])
        BY ListingNext
    <3>6. s.list = Listing(recs, n)
        BY <1>3, <1>7
    <3> QED BY <1>5, <2>1, <2>4, <3>2, <3>3, <3>4, <3>5, <3>6 DEF s
  <2> QED BY <2>6, <2>7
<1> QED BY <1>1, <1>6, <1>7

\* What cmd_parse lists of a table that counts k records.
LEMMA RecordsLaid ==
    ASSUME NEW cells, NEW recs, NEW k \in Nat, IsSequence(cells), cells[1].num_records = k,
           Laid(cells, recs, k), OffsetOf(recs, k + 1) <= Len(cells)
    PROVE  Records(cells) = Listing(recs, Visible(recs, k))
<1> DEFINE first == [at |-> 1, stop |-> FALSE, list |-> <<>>]
           Finds(g) == g = [n \in 0..k |-> IF n = 0 THEN first ELSE Follow(cells, g[n - 1])]
           f == [n \in 0..k |-> Stand(recs, n)]
<1>1. Stand(recs, 0) = first
  <2>1. Visible(recs, 0) = 0 /\ (0 < 0) = FALSE /\ 0 + 1 = 1
      BY VisibleNone
  <2>2. OffsetOf(recs, 1) = 1
      BY OffsetDefined
  <2>3. Listing(recs, 0) = <<>>
      BY ListingIs, EmptySequence
  <2> QED BY <2>1, <2>2, <2>3 DEF Stand
<1>2. \A n \in 1..k : Follow(cells, Stand(recs, n - 1)) = Stand(recs, n)
  <2> TAKE n \in 1..k
  <2>1. PICK j \in Nat : j = n - 1
      OBVIOUS
  <2>2. j + 1 = n /\ j + 2 = n + 1 /\ n \in 0..k
      BY <2>1
  <2>4. OffsetOf(recs, j + 2) <= Len(cells)
    <3>b. n \in Nat
        OBVIOUS
    <3>2. OffsetOf(recs, n + 1) \in Nat /\ OffsetOf(recs, k + 1) \in Nat /\ Len(cells) \in Nat
        BY <3>b, OffsetDefined DEF IsSequence
    <3> QED BY <2>2, <3>2, OffsetGrows
  <2> QED BY <2>1, <2>2, <2>4, FollowLaid DEF Laid
<1> HIDE DEF first
<1>4. Finds(f)
  <2>1. \A n \in 0..k : Stand(recs, n) = IF n = 0 THEN first ELSE Follow(cells, f[n - 1])
    <3> TAKE n \in 0..k
    <3>1. CASE n = 0
        BY <1>1, <3>1
    <3>2. CASE n # 0
        BY <3>2, <1>2
    <3> QED BY <3>1, <3>2
  <2> QED BY <2>1
<1> HIDE DEF f
<1> DEFINE g == CHOOSE h : Finds(h)
<1>5. Finds(g)
    BY <1>4
<1>6. Records(cells) = g[k].list
    BY DEF Records, first
<1> HIDE DEF g
<1>7. g[0] = first /\ \A n \in 1..k : g[n] = Follow(cells, g[n - 1])
    BY <1>5
<1> HIDE DEF Finds
<1> DEFINE T == {n \in Nat : n <= k => g[n] = Stand(recs, n)}
<1>8. 0 \in T
    BY <1>1, <1>7
<1>9. \A n \in T : n + 1 \in T
  <2> SUFFICES ASSUME NEW n \in T, n + 1 <= k PROVE g[n + 1] = Stand(recs, n + 1)
      OBVIOUS
  <2>1. n + 1 \in 1..k /\ (n + 1) - 1 = n /\ n <= k
      OBVIOUS
  <2> QED BY <2>1, <1>7, <1>2
<1>10. T = Nat
  <2> HIDE DEF T
  <2> QED BY <1>8, <1>9, Induction DEF T
<1>12. Stand(recs, k).list = Listing(recs, Visible(recs, k))
    BY DEF Stand
<1> QED BY <1>6, <1>12, <1>10

LEMMA LeastIs ==
    ASSUME NEW S \in SUBSET Nat, NEW m \in S, \A y \in S : m <= y
    PROVE  Min(S) = m
<1>2. Min(S) <= m /\ m <= Min(S) /\ m \in Nat /\ Min(S) \in Nat
    BY DEF Min
<1> QED BY <1>2

\* How many records the header of a table counts.
Counted(recs) == Min({Len(recs), MAX_RECORDS})

\* The header counts all records, or as many as its index holds.
LEMMA CountedIs ==
    ASSUME NEW recs, Len(recs) \in Nat
    PROVE  /\ Counted(recs) \in Nat /\ Counted(recs) <= Len(recs) /\ Counted(recs) <= MAX_RECORDS
           /\ Len(recs) <= MAX_RECORDS => Counted(recs) = Len(recs)
           /\ Len(recs) > MAX_RECORDS => Counted(recs) = MAX_RECORDS
BY TableAssumption, LeastIs DEF Counted

AreRecords(recs) == IsSequence(recs) /\ \A i \in 1..Len(recs) : IsRecord(recs[i])

\* What is listed of a table is what it shows.
LEMMA ListingShows ==
    ASSUME NEW recs, AreRecords(recs)
    PROVE  ShownIn(Listing(recs, Visible(recs, Counted(recs)))) = Shown(recs)
<1>1. IsSequence(recs) /\ Len(recs) \in Nat
    BY DEF AreRecords, IsSequence
<1>2. PICK k \in Nat : k = Counted(recs)
    BY <1>1, CountedIs
<1>3. k <= Len(recs)
    BY <1>1, <1>2, CountedIs
<1> DEFINE counted == SubSeq(recs, 1, k)
           hidden == {n \in DOMAIN counted : NameLenByte(counted[n]) = 0}
           m == Visible(recs, k)
           S == {n - 1 : n \in hidden} \cup {Len(counted)}
<1>4. IsSequence(counted) /\ Len(counted) = k /\ \A i \in 1..k : counted[i] = recs[i]
    BY <1>1, <1>3, Beginning
<1>5. DOMAIN counted = 1..k
    BY <1>4, IndexSet
<1>6. m \in 0..k /\ IsVisible(recs, k, m)
    BY VisibleIs
<1>7. Shown(recs) =
          LET t == SubSeq(counted, 1, Min(S))
          IN  [n \in DOMAIN t |->
                  [name |-> t[n].name, len |-> NameLenByte(t[n]), data |-> t[n].data]]
    BY <1>2 DEF Shown, Counted
<1> HIDE DEF counted, m
<1>8. S \in SUBSET Nat
    BY <1>4, <1>5
<1>9. m \in S
    BY <1>4, <1>6, <1>5 DEF IsVisible
<1>10. \A y \in S : m <= y
  <2>2. \A n \in hidden : m <= n - 1
    <3> TAKE n \in hidden
    <3> QED BY <1>6, <1>4, <1>5 DEF IsVisible
  <2> QED BY <2>2, <1>4, <1>6
<1>11. Min(S) = m
  <2> HIDE DEF S
  <2> QED BY <1>8, <1>9, <1>10, LeastIs
<1> DEFINE t == SubSeq(counted, 1, m)
<1>12. IsSequence(t) /\ Len(t) = m /\ \A i \in 1..m : t[i] = counted[i]
    BY <1>4, <1>6, Beginning
<1> HIDE DEF t
<1> DEFINE f == Listing(recs, m)
           g == ShownIn(f)
<1>13. /\ IsSequence(f) /\ Len(f) = m
       /\ \A i \in 1..m : f[i] = [name |-> NameCell(recs[i]), data |-> recs[i].data]
    BY <1>6, ListingIs
<1> HIDE DEF f
<1>14. DOMAIN f = 1..m
    BY <1>13, IndexSet
<1> DEFINE Rec(n) == [name |-> recs[n].name, len |-> NameLenByte(recs[n]), data |-> recs[n].data]
<1>15. g = [n \in 1..m |->
               [name |-> f[n].name.name, len |-> f[n].name.len, data |-> f[n].data]]
    BY <1>14 DEF ShownIn
<1>16. \A n \in 1..m : g[n] = Rec(n)
  <2> TAKE n \in 1..m
  <2>5. NameCell(recs[n]).name = recs[n].name /\ NameCell(recs[n]).len = NameLenByte(recs[n])
      BY DEF NameCell
  <2> QED BY <2>5, <1>15, <1>13
<1>17. DOMAIN t = 1..m /\ \A n \in 1..m : t[n] = recs[n]
    BY <1>4, <1>6, <1>12, IndexSet
<1>18. Shown(recs) = [n \in 1..m |-> Rec(n)]
    BY <1>7, <1>11, <1>17 DEF t
<1>19. g = [n \in 1..m |-> g[n]]
    BY <1>15
<1> HIDE DEF g
<1> QED BY <1>2, <1>16, <1>18, <1>19 DEF g, f, m

-----------------------------------------------------------------------------
(***************************************************************************)
(* Beginnings of sequences.                                                *)
(***************************************************************************)
Begins(s, t) ==
    /\ IsSequence(s) /\ IsSequence(t) /\ Len(s) <= Len(t)
    /\ \A i \in 1..Len(s) : s[i] = t[i]

\* What begins a sequence is a prefix of it.
LEMMA BeginningIsPrefix ==
    ASSUME NEW s, NEW t, Begins(s, t)
    PROVE  IsPrefix(s, t)
<1>1. IsSequence(s) /\ IsSequence(t) /\ Len(s) <= Len(t) /\ \A i \in 1..Len(s) : s[i] = t[i]
    BY DEF Begins
<1>2. Len(s) \in Nat /\ Len(t) \in Nat
    BY <1>1 DEF IsSequence
<1>3. PICK n \in Nat : n = Len(s)
    BY <1>2
<1> DEFINE a == SubSeq(s, 1, n)
           b == SubSeq(t, 1, n)
<1>4. IsSequence(a) /\ Len(a) = n /\ \A i \in 1..n : a[i] = s[i]
    BY <1>1, <1>2, <1>3, Beginning
<1>5. IsSequence(b) /\ Len(b) = n /\ \A i \in 1..n : b[i] = t[i]
    BY <1>1, <1>2, <1>3, Beginning
<1> HIDE DEF a, b
<1>6. a = b
    BY <1>1, <1>3, <1>4, <1>5, SameSequence
<1> QED BY <1>1, <1>3, <1>6 DEF IsPrefix, a, b

LEMMA BeginsItself == \A s : IsSequence(s) => Begins(s, s)
BY DEF Begins, IsSequence

LEMMA BeginsInTurn ==
    ASSUME NEW s, NEW t, NEW u, Begins(s, t), Begins(t, u)
    PROVE  Begins(s, u)
BY IndexSet DEF Begins

\* What begins as a sequence does has its first cell.
LEMMA FirstSame ==
    ASSUME NEW s, NEW t, Begins(s, t)
    PROVE  Len(s) >= 1 => s[1] = t[1]
BY IndexSet DEF Begins

\* Nothing is a beginning of anything.
LEMMA NothingBegins ==
    ASSUME NEW all, IsSequence(all)
    PROVE  Begins(<<>>, all) /\ Len(<<>>) = 0
<1>1. IsSequence(<<>>) /\ Len(<<>>) = 0 /\ Len(all) \in Nat
    BY EmptySequence, IndexSet
<1> DEFINE s == <<>>
<1> HIDE DEF s
<1> QED BY <1>1 DEF s, Begins

LEMMA BeginsWithSlice ==
    ASSUME NEW s, IsSequence(s), NEW n \in Nat, n <= Len(s)
    PROVE  Begins(SubSeq(s, 1, n), s)
<1> DEFINE a == SubSeq(s, 1, n)
<1> HIDE DEF a
<1> QED BY Beginning DEF Begins, a

LEMMA WholeSlice ==
    ASSUME NEW s, IsSequence(s)
    PROVE  SubSeq(s, 1, Len(s)) = s
<1>1. PICK n \in Nat : n = Len(s)
    BY DEF IsSequence
<1> DEFINE a == SubSeq(s, 1, n)
<1>2. IsSequence(a) /\ Len(a) = n /\ \A i \in 1..n : a[i] = s[i]
    BY <1>1, Beginning
<1> HIDE DEF a
<1>3. a = s
    BY <1>1, <1>2, SameSequence
<1> QED BY <1>1, <1>3 DEF a

\* A longer table lists what a shorter one does, and perhaps more.
LEMMA ListingGrows ==
    ASSUME NEW recs, NEW more, NEW k \in Nat, NEW n \in Nat, k <= n,
           \A i \in 1..k : recs[i] = more[i]
    PROVE  Begins(Listing(recs, Visible(recs, k)), Listing(more, Visible(more, n)))
<1> DEFINE m == Visible(recs, k)
           l == Visible(more, n)
<1>1. m \in 0..k /\ IsVisible(recs, k, m)
    BY VisibleIs
<1>2. l \in 0..n /\ IsVisible(more, n, l)
    BY VisibleIs
<1> HIDE DEF m, l
<1>3. m <= l
  <2> SUFFICES ASSUME l < m PROVE FALSE
      BY <1>1, <1>2
  <2>1. l + 1 \in 1..m /\ l + 1 \in 1..k /\ l < n
      BY <1>1, <1>2
  <2> QED BY <1>1, <2>1, <1>2 DEF IsVisible
<1> DEFINE s == Listing(recs, m)
           t == Listing(more, l)
<1>4. /\ IsSequence(s) /\ Len(s) = m
      /\ \A i \in 1..m : s[i] = [name |-> NameCell(recs[i]), data |-> recs[i].data]
    BY <1>1, ListingIs
<1>5. /\ IsSequence(t) /\ Len(t) = l
      /\ \A i \in 1..l : t[i] = [name |-> NameCell(more[i]), data |-> more[i].data]
    BY <1>2, ListingIs
<1> HIDE DEF s, t
<1>6. \A i \in 1..m : s[i] = t[i]
  <2> TAKE i \in 1..m
  <2> QED BY <1>4, <1>5, <1>1, <1>2, <1>3
<1>7. Begins(s, t)
    BY <1>1, <1>2, <1>3, <1>4, <1>5, <1>6 DEF Begins
<1> QED BY <1>7 DEF s, t, m, l

-----------------------------------------------------------------------------
(***************************************************************************)
(* Writes and scripts.                                                     *)
(***************************************************************************)
LEMMA WrittenEmptied == \A cells : Written(cells, Emptied) = <<>>
BY DEF Written, Emptied

\* fwrite at the end of a file.
LEMMA WrittenEnd ==
    ASSUME NEW cells, NEW c, IsSequence(cells)
    PROVE  Join(Written(cells, WriteEnd(<<c>>)), cells, <<c>>)
BY SingleSequence, Joined DEF Written, WriteEnd

\* What a write at a place leaves alone, and what it puts there.
Puts(d, cells, at, c) ==
    /\ IsSequence(d) /\ Len(d) >= Len(cells) /\ Len(d) >= at + Len(c)
    /\ \A i \in 1..at : d[i] = cells[i]
    /\ \A i \in 1..Len(c) : d[at + i] = c[i]
    /\ \A i \in at + Len(c) + 1..Len(cells) : d[i] = cells[i]
    /\ at + Len(c) <= Len(cells) => Len(d) = Len(cells)
    /\ at + Len(c) > Len(cells) => Len(d) = at + Len(c)

\* fwrite at a place of a file, or at its end.
LEMMA WrittenAt ==
    ASSUME NEW cells, NEW at \in Nat, NEW c, IsSequence(cells), IsSequence(c), at <= Len(cells)
    PROVE  Puts(Written(cells, WriteAt(at, c)), cells, at, c)
<1>1. PICK l \in Nat, p \in Nat : l = Len(cells) /\ p = Len(c)
    BY DEF IsSequence
<1> DEFINE a == SubSeq(cells, 1, at)
           b == SubSeq(cells, at + p + 1, l)
           d == a \o c \o b
<1>2. Written(cells, WriteAt(at, c)) = d
    BY <1>1 DEF Written, WriteAt
<1>3. IsSequence(a) /\ Len(a) = at /\ \A i \in 1..at : a[i] = cells[i]
    BY Beginning
<1>4. PICK q \in Nat : (at + p <= l => q = l - (at + p)) /\ (~(at + p <= l) => q = 0)
  <2>1. CASE at + p <= l
    <3>1. l - (at + p) \in Nat
        BY <2>1
    <3> QED BY <2>1, <3>1
  <2>2. CASE ~(at + p <= l)
      BY <2>2
  <2> QED BY <2>1, <2>2
<1>5. IsSequence(b) /\ Len(b) = q /\ \A i \in 1..q : b[i] = cells[at + p + i]
  <2>1. CASE at + p <= l
    <3>1. at + p + 1 \in Nat /\ 1 <= at + p + 1 /\ at + p + 1 <= l + 1 /\ l <= Len(cells)
        BY <1>1, <2>1
    <3> DEFINE x == at + p + 1
    <3> HIDE DEF x
    <3>2. x \in Nat /\ 1 <= x /\ x <= l + 1 /\ l <= Len(cells)
        BY <3>1 DEF x
    <3>3. /\ IsSequence(SubSeq(cells, x, l)) /\ Len(SubSeq(cells, x, l)) = l + 1 - x
          /\ \A i \in 1..l + 1 - x : SubSeq(cells, x, l)[i] = cells[x + i - 1]
        BY <1>1, <3>2, Slice
    <3>4. l + 1 - x = q /\ b = SubSeq(cells, x, l)
        BY <1>4, <2>1 DEF x
    <3>5. \A i \in 1..q : x + i - 1 = at + p + i
        BY DEF x
    <3> HIDE DEF b
    <3> QED BY <3>3, <3>4, <3>5
  <2>2. CASE ~(at + p <= l)
    <3>1. b = <<>>
      <4>1. cells \in Seq({cells[i] : i \in 1..Len(cells)})
          BY SequenceIn
      <4>2. b = [i \in 1..l + 1 - (at + p + 1) |-> cells[at + p + 1 + i - 1]]
          BY <1>1, <4>1
      <4>3. 1..l + 1 - (at + p + 1) = 1..0
          BY <1>1, <2>2
      <4>4. b = [i \in 1..0 |-> b[i]]
          BY <4>2, <4>3
      <4> HIDE DEF b
      <4>5. IsSequence(b) /\ Len(b) = 0
          BY <4>4, FunctionIs
      <4> QED BY <4>5, EmptySequence
    <3>2. q = 0
        BY <1>4, <2>2
    <3> HIDE DEF b
    <3>3. IsSequence(b) /\ Len(b) = 0
        BY <3>1, EmptySequence
    <3> QED BY <3>2, <3>3
  <2> QED BY <2>1, <2>2
<1> DEFINE u == a \o c
<1> HIDE DEF a, b
<1>6. Join(u, a, c)
    BY <1>3, Joined
<1>7. IsSequence(u)
    BY <1>6 DEF Join
<1> HIDE DEF u
<1>8. Join(d, u, b)
    BY <1>5, <1>7, Joined DEF u
<1> HIDE DEF d
<1>9. Len(u) = at + p /\ \A i \in 1..at : u[i] = cells[i]
    BY <1>1, <1>3, <1>6 DEF Join
<1>10. \A i \in 1..p : u[at + i] = c[i]
    BY <1>1, <1>3, <1>6 DEF Join
<1>11. IsSequence(d) /\ Len(d) = at + p + q /\ \A i \in 1..at + p : d[i] = u[i]
    BY <1>5, <1>8, <1>9 DEF Join
<1>12. \A i \in 1..q : d[at + p + i] = cells[at + p + i]
    BY <1>5, <1>8, <1>9 DEF Join
<1>13. Len(d) >= l
    BY <1>4, <1>11
<1>14. \A i \in 1..at : d[i] = cells[i]
    BY <1>9, <1>11
<1>15. \A i \in 1..p : d[at + i] = c[i]
  <2> TAKE i \in 1..p
  <2>1. at + i \in 1..at + p
      OBVIOUS
  <2> QED BY <1>10, <1>11, <2>1
<1>16. \A i \in at + p + 1..l : d[i] = cells[i]
  <2> TAKE i \in at + p + 1..l
  <2>1. i - (at + p) \in 1..q /\ at + p + (i - (at + p)) = i
      BY <1>4
  <2> QED BY <1>12, <2>1
<1>17. (at + p <= l => Len(d) = l) /\ (at + p > l => Len(d) = at + p)
    BY <1>4, <1>11
<1> QED BY <1>1, <1>2, <1>11, <1>13, <1>14, <1>15, <1>16, <1>17 DEF Puts

\* A sequence by its first element and the others.
LEMMA HeadTail ==
    ASSUME NEW s, IsSequence(s), s # <<>>
    PROVE  /\ Len(s) \in Nat \ {0} /\ Head(s) = s[1]
           /\ IsSequence(Tail(s)) /\ Len(Tail(s)) = Len(s) - 1
           /\ \A i \in 1..Len(s) - 1 : Tail(s)[i] = s[i + 1]
<1> DEFINE S == {s[i] : i \in 1..Len(s)}
<1>1. s \in Seq(S)
    BY SequenceIn
<1>2. Len(s) \in Nat
    BY DEF IsSequence
<1> HIDE DEF S
<1>3. Len(s) # 0
    BY EmptySequence
<1>4. Tail(s) \in Seq(S)
    BY <1>1
<1>5. IsSequence(Tail(s))
    BY <1>4, SequenceOf
<1> QED BY <1>1, <1>2, <1>3, <1>5

LEMMA ConsTail ==
    ASSUME NEW a, NEW s, IsSequence(s)
    PROVE  /\ IsSequence(<<a>> \o s) /\ <<a>> \o s # <<>> /\ Len(<<a>> \o s) = Len(s) + 1
           /\ (<<a>> \o s)[1] = a /\ Head(<<a>> \o s) = a /\ Tail(<<a>> \o s) = s
<1> DEFINE t == <<a>> \o s
<1>0. IsSequence(<<a>>) /\ Len(<<a>>) = 1 /\ <<a>>[1] = a
    BY SingleSequence
<1>1. Join(t, <<a>>, s)
    BY <1>0, Joined
<1> HIDE DEF t
<1>2. PICK n \in Nat : n = Len(s)
    BY DEF IsSequence
<1>3. IsSequence(t) /\ Len(t) = 1 + n /\ t[1] = a
    BY <1>0, <1>1, <1>2 DEF Join
<1>5. t # <<>>
  <2> SUFFICES ASSUME t = <<>> PROVE FALSE
      OBVIOUS
  <2>1. Len(t) = 0
      BY EmptySequence
  <2> QED BY <1>3, <2>1
<1>6. /\ Head(t) = t[1] /\ IsSequence(Tail(t)) /\ Len(Tail(t)) = n
      /\ \A i \in 1..n : Tail(t)[i] = t[i + 1]
    BY <1>3, <1>5, HeadTail
<1>7. Tail(t) = s
  <2>1. \A i \in 1..n : Tail(t)[i] = s[i]
      BY <1>6, <1>0, <1>1, <1>2 DEF Join
  <2> HIDE DEF t
  <2> QED BY <1>2, <1>6, <2>1, SameSequence
<1> QED BY <1>2, <1>3, <1>5, <1>6, <1>7 DEF t

\* One entry of a script for each write.
LEMMA IntoIs ==
    ASSUME NEW file, NEW writes, IsSequence(writes)
    PROVE  /\ IsSequence(Into(file, writes)) /\ Len(Into(file, writes)) = Len(writes)
           /\ \A i \in 1..Len(writes) : Into(file, writes)[i] = [file |-> file, write |-> writes[i]]
<1>1. DOMAIN writes = 1..Len(writes) /\ Len(writes) \in Nat
    BY IndexSet
<1> DEFINE f == Into(file, writes)
<1> HIDE DEF f
<1> QED BY <1>1, FunctionIs DEF f, Into

\* What is left of a script when its first cell has reached the disk.
NextScript(script) == Into(Head(script).file, RestOf(Head(script).write)) \o Tail(script)

\* A write of one cell is gone when it has been made,
LEMMA NextIsTail ==
    ASSUME NEW script, IsSequence(script), script # <<>>, ~Several(script[1].write)
    PROVE  NextScript(script) = Tail(script) /\ FirstOf(Head(script).write) = script[1].write
<1>1. Head(script) = script[1] /\ IsSequence(Tail(script))
    BY HeadTail
<1>2. FirstOf(Head(script).write) = script[1].write /\ RestOf(Head(script).write) = <<>>
    BY <1>1 DEF FirstOf, RestOf
<1> DEFINE t == Tail(script)
           u == <<>> \o t
<1> HIDE DEF t
<1>5. IsSequence(t)
    BY <1>1 DEF t
<1>6. Join(u, <<>>, t)
    BY <1>5, EmptySequence, Joined
<1> HIDE DEF u
<1>7. IsSequence(u) /\ Len(u) = Len(t) /\ \A i \in 1..Len(t) : u[i] = t[i]
    BY <1>5, EmptySequence, <1>6 DEF IsSequence, Join
<1>8. u = t
    BY <1>5, <1>7, SameSequence
<1> QED BY <1>2, <1>8, EmptySequence, IntoIs DEF NextScript, t, u

\* A script begins with a write at a place.
PutsFirst(script, file, at, c) == script[1] = [file |-> file, write |-> WriteAt(at, c)]

\* and one of several leaves a write of the others.
LEMMA NextIsSeveral ==
    ASSUME NEW script, IsSequence(script), script # <<>>, NEW at, NEW c, NEW file,
           PutsFirst(script, file, at, c), Several(script[1].write)
    PROVE  /\ FirstOf(Head(script).write) = WriteAt(at, <<Head(c)>>)
           /\ IsSequence(NextScript(script)) /\ Len(NextScript(script)) = Len(script)
           /\ NextScript(script)[1] = [file |-> file, write |-> WriteAt(at + 1, Tail(c))]
           /\ \A i \in 2..Len(script) : NextScript(script)[i] = script[i]
<1>1. /\ Len(script) \in Nat \ {0} /\ Head(script) = script[1]
      /\ IsSequence(Tail(script)) /\ Len(Tail(script)) = Len(script) - 1
      /\ \A i \in 1..Len(script) - 1 : Tail(script)[i] = script[i + 1]
    BY HeadTail
<1>2. Head(script).file = file /\ Head(script).write = WriteAt(at, c)
    BY <1>1 DEF PutsFirst
<1> DEFINE w == WriteAt(at, c)
           v == WriteAt(at + 1, Tail(c))
<1>4. FirstOf(w) = WriteAt(at, <<Head(c)>>) /\ RestOf(w) = <<v>>
  <2>1. Several(w)
      BY <1>1, <1>2
  <2> QED BY <2>1 DEF FirstOf, RestOf, WriteAt
<1> HIDE DEF v, w
<1> DEFINE a == Into(file, <<v>>)
           t == Tail(script)
           u == a \o t
<1>5. IsSequence(a) /\ Len(a) = 1 /\ a[1] = [file |-> file, write |-> v]
  <2>1. IsSequence(<<v>>) /\ Len(<<v>>) = 1 /\ <<v>>[1] = v
      BY SingleSequence
  <2>3. IsSequence(a) /\ Len(a) = Len(<<v>>)
      BY <2>1, IntoIs
  <2>5. a[1] = [file |-> file, write |-> <<v>>[1]]
      BY <2>1, IntoIs
  <2> HIDE DEF a
  <2> QED BY <2>1, <2>3, <2>5
<1> HIDE DEF a, t
<1>6. Join(u, a, t)
    BY <1>1, <1>5, Joined DEF t
<1> HIDE DEF u
<1>7. PICK n \in Nat : n = Len(t)
  <2>1. PICK k \in Nat \ {0} : k = Len(script)
      BY <1>1
  <2>2. k - 1 \in Nat /\ Len(t) = k - 1
      BY <1>1, <2>1 DEF t
  <2> QED BY <2>2
<1>8. Len(script) = n + 1 /\ \A i \in 1..n : t[i] = script[i + 1]
    BY <1>1, <1>7 DEF t
<1>9. IsSequence(u) /\ Len(u) = 1 + n /\ u[1] = a[1] /\ \A i \in 1..n : u[1 + i] = t[i]
    BY <1>5, <1>6, <1>7 DEF Join
<1>10. \A i \in 2..Len(script) : u[i] = script[i]
  <2> TAKE i \in 2..Len(script)
  <2>1. i - 1 \in 1..n /\ 1 + (i - 1) = i /\ (i - 1) + 1 = i
      BY <1>8
  <2> QED BY <2>1, <1>8, <1>9
<1>11. NextScript(script) = u
    BY <1>2, <1>4 DEF NextScript, u, a, t, w
<1> QED BY <1>2, <1>4, <1>5, <1>8, <1>9, <1>10, <1>11 DEF v, w

-----------------------------------------------------------------------------
(***************************************************************************)
(* A file that is written from its beginning to its end.                   *)
(***************************************************************************)
Opens(script, file, all) ==
    /\ Len(script) = Len(all) + 1 /\ script[1] = [file |-> file, write |-> Emptied]
    /\ \A i \in 1..Len(all) : script[i + 1] = [file |-> file, write |-> WriteEnd(<<all[i]>>)]

Goes(cells, script, file, all) ==
    /\ Begins(cells, all) /\ Len(cells) + Len(script) = Len(all)
    /\ \A i \in 1..Len(script) :
          script[i] = [file |-> file, write |-> WriteEnd(<<all[Len(cells) + i]>>)]

Streams(cells, script, file, all) ==
    /\ IsSequence(script) /\ IsSequence(all)
    /\ Opens(script, file, all) \/ Goes(cells, script, file, all)

\* fopen, and an fwrite for each cell.
LEMMA WriteAllIs ==
    ASSUME NEW all, IsSequence(all)
    PROVE  /\ IsSequence(WriteAll(all)) /\ Len(WriteAll(all)) = Len(all) + 1
           /\ WriteAll(all)[1] = Emptied
           /\ \A i \in 1..Len(all) : WriteAll(all)[i + 1] = WriteEnd(<<all[i]>>)
<1> DEFINE t == [i \in DOMAIN all |-> WriteEnd(<<all[i]>>)]
           u == <<Emptied>> \o t
<1>1. DOMAIN all = 1..Len(all) /\ Len(all) \in Nat
    BY IndexSet
<1>2. t = [i \in 1..Len(all) |-> t[i]] /\ \A i \in 1..Len(all) : t[i] = WriteEnd(<<all[i]>>)
    BY <1>1
<1>3. WriteAll(all) = u
    BY DEF WriteAll
<1> HIDE DEF t
<1>4. IsSequence(t) /\ Len(t) = Len(all)
    BY <1>1, <1>2, FunctionIs
<1>5. IsSequence(<<Emptied>>) /\ Len(<<Emptied>>) = 1 /\ <<Emptied>>[1] = Emptied
    BY SingleSequence
<1>6. Join(u, <<Emptied>>, t)
    BY <1>4, <1>5, Joined
<1> HIDE DEF u
<1>7. PICK n \in Nat : n = Len(all)
    BY <1>1
<1>8. IsSequence(u) /\ Len(u) = 1 + n /\ u[1] = Emptied /\ \A i \in 1..n : u[1 + i] = t[i]
    BY <1>4, <1>5, <1>6, <1>7 DEF Join
<1>9. \A i \in 1..n : u[i + 1] = WriteEnd(<<all[i]>>)
  <2> TAKE i \in 1..n
  <2> QED BY <1>2, <1>7, <1>8
<1> QED BY <1>3, <1>7, <1>8, <1>9

\* A script made by WriteAll writes all of its cells,
LEMMA StreamStarts ==
    ASSUME NEW cells, NEW file, NEW all, IsSequence(all)
    PROVE  Streams(cells, Into(file, WriteAll(all)), file, all) /\ Into(file, WriteAll(all)) # <<>>
<1> DEFINE w == WriteAll(all)
           script == Into(file, w)
<1>1. /\ IsSequence(w) /\ Len(w) = Len(all) + 1 /\ w[1] = Emptied
      /\ \A i \in 1..Len(all) : w[i + 1] = WriteEnd(<<all[i]>>)
    BY WriteAllIs
<1> HIDE DEF w
<1>2. /\ IsSequence(script) /\ Len(script) = Len(w)
      /\ \A i \in 1..Len(w) : script[i] = [file |-> file, write |-> w[i]]
    BY <1>1, IntoIs
<1> HIDE DEF script
<1>3. PICK n \in Nat : n = Len(all)
    BY DEF IsSequence
<1>5. \A i \in 1..n : script[i + 1] = [file |-> file, write |-> WriteEnd(<<all[i]>>)]
  <2> TAKE i \in 1..n
  <2> QED BY <1>1, <1>2, <1>3
<1>6. Opens(script, file, all)
    BY <1>1, <1>2, <1>3, <1>5 DEF Opens
<1>7. script # <<>>
  <2> SUFFICES ASSUME script = <<>> PROVE FALSE
      OBVIOUS
  <2>1. Len(script) = 0
      BY EmptySequence
  <2> QED BY <1>1, <1>2, <1>3, <2>1
<1> QED BY <1>2, <1>6, <1>7 DEF Streams, script, w

\* each write puts the next of them,
LEMMA StreamNext ==
    ASSUME NEW cells, NEW script, NEW file, NEW all, Streams(cells, script, file, all), script # <<>>
    PROVE  LET d == Written(cells, FirstOf(Head(script).write))
           IN  /\ Head(script).file = file /\ IsSequence(NextScript(script))
               /\ Goes(d, NextScript(script), file, all)
<1> DEFINE d == Written(cells, FirstOf(Head(script).write))
           next == NextScript(script)
<1>1. IsSequence(script) /\ IsSequence(all)
    BY DEF Streams
<1>2. /\ Len(script) \in Nat \ {0} /\ Head(script) = script[1]
      /\ IsSequence(Tail(script)) /\ Len(Tail(script)) = Len(script) - 1
      /\ \A i \in 1..Len(script) - 1 : Tail(script)[i] = script[i + 1]
    BY <1>1, HeadTail
<1>3. PICK n \in Nat : n = Len(all)
    BY <1>1 DEF IsSequence
<1>4. PICK q \in Nat : Len(script) = q + 1
  <2>1. PICK k \in Nat \ {0} : k = Len(script)
      BY <1>2
  <2> QED BY <2>1
<1>5. SUFFICES ASSUME ~Several(script[1].write)
               PROVE  Head(script).file = file /\ Goes(d, Tail(script), file, all)
  <2>1. ~Several(script[1].write)
      BY <1>4 DEF Opens, Several, Emptied, Goes, WriteEnd, Streams
  <2> HIDE DEF next, d
  <2> QED BY <1>2, <1>5, <2>1, <1>1, NextIsTail DEF next, d
<1>7. d = Written(cells, script[1].write)
    BY <1>1, <1>5, NextIsTail
<1> HIDE DEF d
<1>8. Len(Tail(script)) = q /\ \A i \in 1..q : Tail(script)[i] = script[i + 1]
    BY <1>2, <1>4
<1>9. CASE Opens(script, file, all)
  <2>1. script[1] = [file |-> file, write |-> Emptied] /\ q = n
      BY <1>3, <1>4, <1>9 DEF Opens
  <2>2. Head(script).file = file
      BY <1>2, <2>1
  <2>3. d = <<>>
      BY <1>7, <2>1, WrittenEmptied
  <2>4. IsSequence(d) /\ Len(d) = 0
      BY <2>3, EmptySequence
  <2>5. \A i \in 1..q : Tail(script)[i] = [file |-> file, write |-> WriteEnd(<<all[0 + i]>>)]
    <3> TAKE i \in 1..q
    <3> QED BY <1>8, <1>3, <1>9, <2>1 DEF Opens
  <2>6. Begins(d, all)
      BY <1>1, <1>3, <2>4 DEF Begins
  <2> QED BY <1>3, <1>8, <2>1, <2>2, <2>4, <2>5, <2>6 DEF Goes
<1>10. CASE Goes(cells, script, file, all)
  <2>1. /\ IsSequence(cells) /\ Len(cells) <= n /\ \A i \in 1..Len(cells) : cells[i] = all[i]
        /\ Len(cells) + (q + 1) = n
        /\ \A i \in 1..q + 1 : script[i] = [file |-> file, write |-> WriteEnd(<<all[Len(cells) + i]>>)]
      BY <1>3, <1>4, <1>10 DEF Goes, Begins
  <2>2. PICK k \in Nat : k = Len(cells)
      BY <2>1 DEF IsSequence
  <2>3. script[1] = [file |-> file, write |-> WriteEnd(<<all[k + 1]>>)]
      BY <2>1, <2>2
  <2>4. Head(script).file = file
      BY <1>2, <2>3
  <2>7. IsSequence(d) /\ Len(d) = k + 1 /\ (\A i \in 1..k : d[i] = cells[i]) /\ d[k + 1] = all[k + 1]
      BY <2>2, <1>7, <2>1, <2>3, WrittenEnd, SingleSequence DEF Join
  <2>8. \A i \in 1..k + 1 : d[i] = all[i]
    <3> TAKE i \in 1..k + 1
    <3> QED BY <2>1, <2>2, <2>7
  <2>9. Begins(d, all)
      BY <1>1, <1>3, <2>1, <2>2, <2>7, <2>8 DEF Begins
  <2>10. \A i \in 1..q : Tail(script)[i] = [file |-> file, write |-> WriteEnd(<<all[Len(d) + i]>>)]
    <3> TAKE i \in 1..q
    <3> QED BY <1>8, <2>1, <2>2, <2>7
  <2> QED BY <1>3, <1>8, <2>1, <2>2, <2>4, <2>7, <2>9, <2>10 DEF Goes
<1> QED BY <1>9, <1>10 DEF Streams

\* and behind the last there is nothing to write.
LEMMA StreamEnds ==
    ASSUME NEW cells, NEW file, NEW all, IsSequence(all), Goes(cells, <<>>, file, all)
    PROVE  cells = all
<1>1. Begins(cells, all) /\ Len(cells) + 0 = Len(all)
    BY EmptySequence DEF Goes
<1>2. IsSequence(cells) /\ Len(cells) = Len(all)
  <2>1. IsSequence(cells) /\ Len(cells) \in Nat
      BY <1>1 DEF Begins, IsSequence
  <2> QED BY <1>1, <2>1
<1> QED BY <1>1, <1>2, SameSequence DEF Begins

-----------------------------------------------------------------------------
(***************************************************************************)
(* A file that is overwritten from some place to its end, and after that   *)
(* in its first cell.                                                      *)
(***************************************************************************)
\* Where the j-th write begins.
Place(script, goal, j) == IF j < Len(script) THEN script[j].write.at ELSE Len(goal)

IsPiece(script, file, goal, j) ==
    /\ script[j] = [file |-> file, write |-> WriteAt(script[j].write.at, script[j].write.cells)]
    /\ script[j].write.at \in Nat /\ IsSequence(script[j].write.cells)
    /\ Place(script, goal, j + 1) = script[j].write.at + Len(script[j].write.cells)
    /\ \A i \in 1..Len(script[j].write.cells) :
          goal[script[j].write.at + i] = script[j].write.cells[i]

Agrees(cells, goal, n) == n \in Nat /\ n <= Len(cells) /\ \A i \in 1..n : cells[i] = goal[i]

Lays(cells, script, file, goal, head) ==
    /\ IsSequence(cells) /\ IsSequence(goal) /\ IsSequence(script) /\ Len(script) >= 1
    /\ script[Len(script)] = [file |-> file, write |-> WriteAt(0, <<head>>)]
    /\ \A j \in 1..Len(script) - 1 : IsPiece(script, file, goal, j)
    /\ Agrees(cells, goal, Place(script, goal, 1))

Same(cells, d, n) == Len(d) >= Len(cells) /\ \A i \in 1..n : d[i] = cells[i]

\* A write before the last changes nothing before its place,
LEMMA LaysNext ==
    ASSUME NEW cells, NEW script, NEW file, NEW goal, NEW head,
           Lays(cells, script, file, goal, head), Len(script) # 1
    PROVE  LET d == Written(cells, FirstOf(Head(script).write))
           IN  /\ Head(script).file = file /\ Lays(d, NextScript(script), file, goal, head)
               /\ Place(script, goal, 1) \in Nat
               /\ Place(NextScript(script), goal, 1) >= Place(script, goal, 1)
               /\ Same(cells, d, Place(script, goal, 1))
<1> DEFINE d == Written(cells, FirstOf(Head(script).write))
           next == NextScript(script)
           at == script[1].write.at
           c == script[1].write.cells
<1>1. /\ IsSequence(cells) /\ IsSequence(goal) /\ IsSequence(script) /\ Len(script) >= 1
      /\ script[Len(script)] = [file |-> file, write |-> WriteAt(0, <<head>>)]
      /\ \A j \in 1..Len(script) - 1 : IsPiece(script, file, goal, j)
      /\ Agrees(cells, goal, Place(script, goal, 1))
    BY DEF Lays
<1>2. PICK q \in Nat : Len(script) = q + 1 /\ q >= 1
  <2>1. PICK k \in Nat : k = Len(script)
      BY <1>1 DEF IsSequence
  <2>2. k - 1 \in Nat /\ k = (k - 1) + 1 /\ k - 1 >= 1
      BY <1>1, <2>1
  <2> QED BY <2>1, <2>2
<1>3. script # <<>>
  <2> SUFFICES ASSUME script = <<>> PROVE FALSE
      OBVIOUS
  <2>1. Len(script) = 0
      BY EmptySequence
  <2> QED BY <1>2, <2>1
<1>4. /\ Head(script) = script[1]
      /\ IsSequence(Tail(script)) /\ Len(Tail(script)) = q
      /\ \A i \in 1..q : Tail(script)[i] = script[i + 1]
    BY <1>1, <1>2, <1>3, HeadTail
<1>5. IsPiece(script, file, goal, 1)
  <2>1. 1 \in 1..Len(script) - 1
      BY <1>2
  <2> QED BY <1>1, <2>1
<1>6. /\ script[1] = [file |-> file, write |-> WriteAt(at, c)]
      /\ at \in Nat /\ IsSequence(c)
      /\ Place(script, goal, 2) = at + Len(c)
      /\ \A i \in 1..Len(c) : goal[at + i] = c[i]
  <2>1. 1 + 1 = 2
      OBVIOUS
  <2> HIDE DEF at, c
  <2> QED BY <1>5, <2>1 DEF IsPiece, at, c
<1>7. Place(script, goal, 1) = at
  <2>1. 1 < Len(script)
      BY <1>2
  <2> QED BY <2>1 DEF Place
<1>8. Head(script).file = file
    BY <1>4, <1>6
<1> HIDE DEF at, c
<1>9. at <= Len(cells) /\ \A i \in 1..at : cells[i] = goal[i]
    BY <1>1, <1>7 DEF Agrees
<1>10. PICK p \in Nat, l \in Nat : p = Len(c) /\ l = Len(cells)
    BY <1>1, <1>6 DEF IsSequence
<1>11. /\ WriteAt(at, c).op = "at" /\ WriteAt(at, c).at = at /\ WriteAt(at, c).cells = c
       /\ script[1].write = WriteAt(at, c)
    BY <1>6 DEF WriteAt
<1>12. CASE Several(script[1].write)
  <2>1. p > 1
      BY <1>10, <1>11, <1>12 DEF Several
  <2>2. c # <<>>
    <3> SUFFICES ASSUME c = <<>> PROVE FALSE
        OBVIOUS
    <3>1. Len(c) = 0
        BY EmptySequence
    <3> QED BY <1>10, <2>1, <3>1
  <2>3. /\ Head(c) = c[1] /\ IsSequence(Tail(c)) /\ Len(Tail(c)) = p - 1
        /\ \A i \in 1..p - 1 : Tail(c)[i] = c[i + 1]
      BY <1>6, <1>10, <2>2, HeadTail
  <2>4. /\ FirstOf(Head(script).write) = WriteAt(at, <<Head(c)>>)
        /\ IsSequence(next) /\ Len(next) = Len(script)
        /\ next[1] = [file |-> file, write |-> WriteAt(at + 1, Tail(c))]
        /\ \A i \in 2..Len(script) : next[i] = script[i]
    <3>1. PutsFirst(script, file, at, c)
        BY <1>6 DEF PutsFirst
    <3> QED BY <1>1, <1>3, <1>12, <3>1, NextIsSeveral
  <2> HIDE DEF next
  <2>5. d = Written(cells, WriteAt(at, <<c[1]>>))
      BY <2>3, <2>4
  <2> HIDE DEF d
  <2>6. IsSequence(<<c[1]>>) /\ Len(<<c[1]>>) = 1 /\ <<c[1]>>[1] = c[1]
      BY SingleSequence
  <2>7. Puts(d, cells, at, <<c[1]>>)
      BY <1>1, <1>6, <1>9, <2>5, <2>6, WrittenAt
  <2>8. /\ IsSequence(d) /\ Len(d) >= Len(cells) /\ Len(d) >= at + 1
        /\ \A i \in 1..at : d[i] = cells[i]
        /\ d[at + 1] = c[1]
      BY <1>6, <2>6, <2>7 DEF Puts
  <2>9. next[1].write = WriteAt(at + 1, Tail(c)) /\ next[1].write.at = at + 1 /\ next[1].write.cells = Tail(c)
      BY <2>4 DEF WriteAt
  <2>10. Place(next, goal, 1) = at + 1
      BY <1>2, <2>4, <2>9 DEF Place
  <2>11. \A j \in 2..Len(script) : Place(next, goal, j) = Place(script, goal, j)
    <3> TAKE j \in 2..Len(script)
    <3>1. next[j] = script[j]
        BY <2>4
    <3> QED BY <2>4, <3>1 DEF Place
  <2>12. IsPiece(next, file, goal, 1)
    <3>1. 1 + 1 = 2 /\ 2 \in 2..Len(script)
        BY <1>2
    <3>2. Place(next, goal, 1 + 1) = (at + 1) + (p - 1)
        BY <1>6, <1>10, <2>11, <3>1
    <3>3. at + 1 \in Nat
        BY <1>6
    <3>4. \A i \in 1..p - 1 : goal[(at + 1) + i] = Tail(c)[i]
      <4> TAKE i \in 1..p - 1
      <4>1. i + 1 \in 1..Len(c) /\ at + (i + 1) = (at + 1) + i
          BY <1>6, <1>10
      <4>2. goal[at + (i + 1)] = c[i + 1]
          BY <1>6, <4>1
      <4> QED BY <2>3, <4>1, <4>2
    <3> QED BY <2>3, <2>4, <2>9, <3>2, <3>3, <3>4 DEF IsPiece
  <2>13. \A j \in 2..Len(script) - 1 : IsPiece(next, file, goal, j)
    <3> TAKE j \in 2..Len(script) - 1
    <3>1. j \in 1..Len(script) - 1 /\ j \in 2..Len(script) /\ j + 1 \in 2..Len(script)
        BY <1>2
    <3>2. next[j] = script[j] /\ Place(next, goal, j + 1) = Place(script, goal, j + 1)
        BY <2>4, <2>11, <3>1
    <3>3. IsPiece(script, file, goal, j)
        BY <1>1, <3>1
    <3> QED BY <3>2, <3>3 DEF IsPiece
  <2>14. \A j \in 1..Len(next) - 1 : IsPiece(next, file, goal, j)
    <3> TAKE j \in 1..Len(next) - 1
    <3>1. j = 1 \/ j \in 2..Len(script) - 1
        BY <1>2, <2>4
    <3> QED BY <2>12, <2>13, <3>1
  <2>15. Agrees(d, goal, at + 1)
    <3>1. goal[at + 1] = c[1]
      <4>1. 1 \in 1..Len(c)
          BY <1>10, <2>1
      <4> QED BY <1>6, <4>1
    <3>2. \A i \in 1..at + 1 : d[i] = goal[i]
      <4> TAKE i \in 1..at + 1
      <4>1. i \in 1..at \/ i = at + 1
          BY <1>6
      <4> QED BY <1>9, <2>8, <3>1, <4>1
    <3> QED BY <1>6, <2>8, <3>2 DEF Agrees
  <2>16. next[Len(next)] = [file |-> file, write |-> WriteAt(0, <<head>>)]
    <3>1. Len(script) \in 2..Len(script)
        BY <1>2
    <3> QED BY <1>1, <2>4, <3>1
  <2>17. Lays(d, next, file, goal, head)
      BY <1>1, <1>2, <2>4, <2>8, <2>10, <2>14, <2>15, <2>16 DEF Lays
  <2>18. Same(cells, d, at)
      BY <2>8 DEF Same
  <2> QED BY <1>6, <1>7, <1>8, <2>10, <2>17, <2>18 DEF d, next
<1>13. CASE ~Several(script[1].write)
  <2>2. next = Tail(script) /\ FirstOf(Head(script).write) = script[1].write
      BY <1>1, <1>3, <1>13, NextIsTail
  <2>3. d = Written(cells, WriteAt(at, c))
      BY <1>11, <2>2
  <2> HIDE DEF next, d
  <2>4. Puts(d, cells, at, c)
      BY <1>1, <1>6, <1>9, <2>3, WrittenAt
  <2>5. /\ IsSequence(d) /\ Len(d) >= Len(cells) /\ Len(d) >= at + p
        /\ \A i \in 1..at : d[i] = cells[i]
        /\ \A i \in 1..p : d[at + i] = c[i]
      BY <1>10, <2>4 DEF Puts
  <2>6. IsSequence(next) /\ Len(next) = q /\ \A i \in 1..q : next[i] = script[i + 1]
      BY <1>4, <2>2
  <2>7. \A j \in 1..q : Place(next, goal, j) = Place(script, goal, j + 1)
    <3> TAKE j \in 1..q
    <3>1. next[j] = script[j + 1] /\ (j < q <=> j + 1 < q + 1)
        BY <2>6
    <3> QED BY <1>2, <2>6, <3>1 DEF Place
  <2>8. Place(next, goal, 1) = at + p
    <3>1. 1 \in 1..q /\ 1 + 1 = 2
        BY <1>2
    <3> QED BY <1>6, <1>10, <2>7, <3>1
  <2>9. \A j \in 1..Len(next) - 1 : IsPiece(next, file, goal, j)
    <3> TAKE j \in 1..Len(next) - 1
    <3>1. j \in 1..q /\ j + 1 \in 1..q /\ j + 1 \in 1..Len(script) - 1
        BY <1>2, <2>6
    <3>2. next[j] = script[j + 1] /\ Place(next, goal, j + 1) = Place(script, goal, (j + 1) + 1)
        BY <2>6, <2>7, <3>1
    <3>3. IsPiece(script, file, goal, j + 1)
        BY <1>1, <3>1
    <3> QED BY <3>2, <3>3 DEF IsPiece
  <2>10. Agrees(d, goal, at + p)
    <3>1. \A i \in 1..at + p : d[i] = goal[i]
      <4> TAKE i \in 1..at + p
      <4>1. CASE i \in 1..at
          BY <1>9, <2>5, <4>1
      <4>2. CASE ~(i \in 1..at)
        <5>1. i - at \in 1..p /\ at + (i - at) = i
            BY <1>6, <4>2
        <5>2. d[at + (i - at)] = c[i - at] /\ goal[at + (i - at)] = c[i - at]
            BY <1>6, <1>10, <2>5, <5>1
        <5> QED BY <5>1, <5>2
      <4> QED BY <4>1, <4>2
    <3> QED BY <1>6, <2>5, <3>1 DEF Agrees
  <2>11. next[Len(next)] = [file |-> file, write |-> WriteAt(0, <<head>>)]
    <3>1. q \in 1..q
        BY <1>2
    <3> QED BY <1>1, <1>2, <2>6, <3>1
  <2>12. Lays(d, next, file, goal, head)
      BY <1>1, <1>2, <2>5, <2>6, <2>8, <2>9, <2>10, <2>11 DEF Lays
  <2>13. Same(cells, d, at)
      BY <2>5 DEF Same
  <2> QED BY <1>6, <1>7, <1>8, <2>8, <2>12, <2>13 DEF d, next
<1> QED BY <1>12, <1>13

\* and the last, of the first cell, completes the file.
LEMMA LaysEnd ==
    ASSUME NEW cells, NEW script, NEW file, NEW goal, NEW head,
           Lays(cells, script, file, goal, head), Len(script) = 1, Len(goal) >= 1
    PROVE  /\ Head(script).file = file /\ NextScript(script) = <<>>
           /\ Begins([goal EXCEPT ![1] = head], Written(cells, FirstOf(Head(script).write)))
<1> DEFINE d == Written(cells, FirstOf(Head(script).write))
<1>1. /\ IsSequence(cells) /\ IsSequence(goal) /\ IsSequence(script)
      /\ script[Len(script)] = [file |-> file, write |-> WriteAt(0, <<head>>)]
      /\ Agrees(cells, goal, Place(script, goal, 1))
    BY DEF Lays
<1>2. script[1] = [file |-> file, write |-> WriteAt(0, <<head>>)]
    BY <1>1
<1>3. script # <<>>
  <2> SUFFICES ASSUME script = <<>> PROVE FALSE
      OBVIOUS
  <2>1. Len(script) = 0
      BY EmptySequence
  <2> QED BY <2>1
<1>4. Head(script) = script[1] /\ IsSequence(Tail(script)) /\ Len(Tail(script)) = 1 - 1
    BY <1>1, <1>3, HeadTail
<1>5. IsSequence(<<head>>) /\ Len(<<head>>) = 1 /\ <<head>>[1] = head
    BY SingleSequence
<1>6. ~Several(script[1].write)
  <2>1. script[1].write.cells = <<head>>
      BY <1>2 DEF WriteAt
  <2> QED BY <1>5, <2>1 DEF Several
<1>7. NextScript(script) = Tail(script) /\ FirstOf(Head(script).write) = WriteAt(0, <<head>>)
    BY <1>1, <1>2, <1>3, <1>6, NextIsTail
<1>8. Tail(script) = <<>>
  <2>1. Len(Tail(script)) = 0
      BY <1>4
  <2> QED BY <1>4, <2>1, EmptySequence
<1>9. d = Written(cells, WriteAt(0, <<head>>))
    BY <1>7
<1> HIDE DEF d
<1>10. PICK l \in Nat, g \in Nat : l = Len(cells) /\ g = Len(goal)
    BY <1>1 DEF IsSequence
<1>11. g <= l /\ \A i \in 1..g : cells[i] = goal[i]
    BY <1>10, <1>1 DEF Place, Agrees
<1>12. Puts(d, cells, 0, <<head>>)
    BY <1>10, <1>1, <1>5, <1>9, WrittenAt
<1>13. /\ IsSequence(d) /\ Len(d) >= l /\ d[1] = head /\ \A i \in 2..l : d[i] = cells[i]
    BY <1>10, <1>12, <1>5 DEF Puts
<1> DEFINE h == [goal EXCEPT ![1] = head]
<1>14. DOMAIN goal = 1..g
    BY <1>1, <1>10, IndexSet
<1>15. h = [i \in 1..g |-> h[i]] /\ h[1] = head /\ \A i \in 2..g : h[i] = goal[i]
  <2>1. 1 \in 1..g /\ \A i \in 2..g : i \in 1..g /\ i # 1
      BY <1>10
  <2> QED BY <1>14, <2>1
<1> HIDE DEF h
<1>17. PICK m \in Nat : m = Len(d)
    BY <1>13 DEF IsSequence
<1>18. \A i \in 1..g : h[i] = d[i]
  <2> TAKE i \in 1..g
  <2>1. i = 1 \/ (i \in 2..g /\ i \in 2..l)
      BY <1>11
  <2> QED BY <1>11, <1>13, <1>15, <2>1
<1>19. Begins(h, d)
    BY <1>11, <1>13, <1>17, <1>18, <1>15, FunctionIs DEF Begins
<1> QED BY <1>2, <1>4, <1>7, <1>8, <1>19 DEF h, d

-----------------------------------------------------------------------------
(***************************************************************************)
(* Tables.                                                                 *)
(***************************************************************************)
\* Where records are depends on those before only.
LEMMA OffsetSame ==
    ASSUME NEW recs, NEW more, NEW n \in Nat, \A i \in 1..n : recs[i] = more[i]
    PROVE  \A m \in 0..n : OffsetOf(recs, m + 1) = OffsetOf(more, m + 1)
<1> DEFINE T == {m \in Nat : m <= n => OffsetOf(recs, m + 1) = OffsetOf(more, m + 1)}
<1>1. 0 \in T
    BY OffsetDefined
<1>2. \A m \in T : m + 1 \in T
  <2> SUFFICES ASSUME NEW m \in T, m + 1 <= n
               PROVE  OffsetOf(recs, (m + 1) + 1) = OffsetOf(more, (m + 1) + 1)
      OBVIOUS
  <2>1. m + 1 \in Nat \ {0} /\ m + 1 \in 1..n /\ m <= n
      OBVIOUS
  <2>4. OffsetOf(recs, m + 1) = OffsetOf(more, m + 1) /\ recs[m + 1] = more[m + 1]
      BY <2>1
  <2> QED BY <2>4, <2>1, OffsetDefined
<1>3. T = Nat
  <2> HIDE DEF T
  <2> QED BY <1>1, <1>2, Induction DEF T
<1> TAKE m \in 0..n
<1>4. m \in T
  <2> HIDE DEF T
  <2> QED BY <1>3
<1> QED BY <1>4

\* Every cell of the first n records lies behind the header and before the next record.
LEMMA RecordPlace ==
    ASSUME NEW recs, NEW n \in Nat, NEW m \in 1..n, NEW j \in 1..Len(RecordCells(recs[m]))
    PROVE  /\ OffsetOf(recs, m) \in Nat /\ OffsetOf(recs, m) + j \in 2..OffsetOf(recs, n + 1)
           /\ OffsetOf(recs, n + 1) \in Nat \ {0}
<1>1. PICK k \in Nat : k + 1 = m
    OBVIOUS
<1>2. PICK p \in 1..3 : p = Len(RecordCells(recs[m]))
    BY CellsOfRecord, Zenon
<1>3. OffsetOf(recs, k + 1) \in Nat /\ OffsetOf(recs, n + 1) \in Nat
    BY OffsetDefined
<1>4. OffsetOf(recs, 0 + 1) <= OffsetOf(recs, k + 1)
  <2>1. 0 \in 0..k
      OBVIOUS
  <2> QED BY <2>1, OffsetGrows
<1>5. OffsetOf(recs, 0 + 1) = 1
    BY OffsetDefined
<1>6. OffsetOf(recs, m + 1) = OffsetOf(recs, m) + p
    BY <1>2, OffsetDefined
<1>7. OffsetOf(recs, m + 1) <= OffsetOf(recs, n + 1)
    BY OffsetGrows
<1>8. j \in 1..p
    BY <1>2
<1> QED BY <1>1, <1>3, <1>4, <1>5, <1>6, <1>7, <1>8

\* Records lie where they lay in whatever has the same cells there.
LEMMA LaidExtends ==
    ASSUME NEW cells, NEW d, NEW recs, NEW n \in Nat, Laid(cells, recs, n),
           \A i \in 2..OffsetOf(recs, n + 1) : d[i] = cells[i]
    PROVE  Laid(d, recs, n)
<1> SUFFICES ASSUME NEW m \in 1..n, NEW j \in 1..Len(RecordCells(recs[m]))
             PROVE  d[OffsetOf(recs, m) + j] = RecordCells(recs[m])[j]
    BY DEF Laid, LaidOne
<1> QED BY RecordPlace DEF Laid, LaidOne

LEMMA LaidSame ==
    ASSUME NEW cells, NEW recs, NEW more, NEW n \in Nat, Laid(cells, recs, n),
           \A i \in 1..n : recs[i] = more[i]
    PROVE  Laid(cells, more, n)
<1> SUFFICES ASSUME NEW m \in 1..n PROVE LaidOne(cells, more, m)
    BY DEF Laid
<1>2. OffsetOf(recs, m) = OffsetOf(more, m)
    BY OffsetSame
<1> QED BY <1>2 DEF LaidOne, Laid

\* The next record behind those that lie in their places.
LEMMA LaidNext ==
    ASSUME NEW g, NEW recs, NEW n \in Nat, IsSequence(g), Len(g) = OffsetOf(recs, n + 1),
           Laid(g, recs, n)
    PROVE  /\ Join(g \o RecordCells(recs[n + 1]), g, RecordCells(recs[n + 1]))
           /\ Len(g \o RecordCells(recs[n + 1])) = OffsetOf(recs, n + 2)
           /\ Laid(g \o RecordCells(recs[n + 1]), recs, n + 1)
<1> DEFINE c == RecordCells(recs[n + 1])
           h == g \o c
<1>1. PICK o \in Nat, p \in 1..3 : o = OffsetOf(recs, n + 1) /\ p = Len(c)
  <2>2. Len(c) \in 1..3
      BY CellsOfRecord, Zenon
  <2> HIDE DEF c
  <2> QED BY <2>2, OffsetDefined
<1>2. IsSequence(c)
    BY CellsOfRecord, Zenon
<1> HIDE DEF c
<1>4. Join(h, g, c)
    BY <1>2, Joined
<1> HIDE DEF h
<1>5. Len(h) = o + p /\ (\A i \in 1..o : h[i] = g[i]) /\ \A i \in 1..p : h[o + i] = c[i]
    BY <1>1, <1>4 DEF Join
<1>6. Laid(h, recs, n)
    BY <1>1, <1>5, LaidExtends
<1>8. Laid(h, recs, n + 1)
  <2> SUFFICES ASSUME NEW m \in 1..n + 1 PROVE LaidOne(h, recs, m)
      BY DEF Laid
  <2>1. m \in 1..n \/ m = n + 1
      OBVIOUS
  <2> QED BY <1>6, <2>1, <1>1, <1>5 DEF Laid, LaidOne, c
<1> QED BY <1>4, <1>5, <1>8, OffsetDefined, <1>1 DEF h, c

\* Where the index of a table begins.
Behind(recs) == OffsetOf(recs, Len(recs) + 1)

IndexLies(cells, recs) ==
    \A n \in 1..Counted(recs) :
        Behind(recs) + n <= Len(cells) /\ cells[Behind(recs) + n] = Entry(OffsetOf(recs, n))

\* A file that is a table of these records; "sound", its index points at them.
TableHolds(cells, recs, sound) ==
    /\ IsSequence(cells) /\ AreRecords(recs)
    /\ cells[1] = Header(Counted(recs), Behind(recs)) /\ Behind(recs) <= Len(cells)
    /\ Laid(cells, recs, Len(recs))
    /\ sound => IndexLies(cells, recs)

\* The records end behind the header.
LEMMA BehindIs ==
    ASSUME NEW recs, Len(recs) \in Nat
    PROVE  Behind(recs) \in Nat /\ Behind(recs) >= 1
<1>1. PICK n \in Nat : n = Len(recs)
    OBVIOUS
<1>2. OffsetOf(recs, 0 + 1) <= OffsetOf(recs, n + 1)
    BY OffsetGrows
<1>3. OffsetOf(recs, 0 + 1) = 1 /\ OffsetOf(recs, n + 1) \in Nat
    BY OffsetDefined
<1> QED BY <1>1, <1>2, <1>3 DEF Behind

LEMMA RecordsCount == ASSUME NEW recs, AreRecords(recs) PROVE IsSequence(recs) /\ Len(recs) \in Nat
BY DEF AreRecords, IsSequence

\* What keeps the records and the header keeps the table.
LEMMA TableKept ==
    ASSUME NEW cells, NEW d, NEW recs, NEW sound, TableHolds(cells, recs, sound),
           IsSequence(d), Same(cells, d, Behind(recs))
    PROVE  TableHolds(d, recs, FALSE)
<1>1. /\ IsSequence(cells) /\ AreRecords(recs)
      /\ cells[1] = Header(Counted(recs), Behind(recs)) /\ Behind(recs) <= Len(cells)
      /\ Laid(cells, recs, Len(recs))
    BY DEF TableHolds
<1>2. PICK n \in Nat : n = Len(recs)
    BY <1>1, RecordsCount
<1>3. PICK b \in Nat, l \in Nat : b = Behind(recs) /\ l = Len(cells) /\ b >= 1
    BY <1>1, <1>2, BehindIs DEF IsSequence
<1>4. PICK m \in Nat : m = Len(d)
    BY DEF IsSequence
<1>5. m >= l /\ \A i \in 1..b : d[i] = cells[i]
    BY <1>3, <1>4 DEF Same
<1>7. Laid(d, recs, n)
    BY <1>2, <1>3, <1>5, <1>1, LaidExtends DEF Behind
<1> QED BY <1>1, <1>2, <1>3, <1>4, <1>7, <1>5 DEF TableHolds

\* Whatever lies behind it.
LEMMA TableExtends ==
    ASSUME NEW cells, NEW d, NEW recs, NEW sound, TableHolds(cells, recs, sound), Begins(cells, d)
    PROVE  TableHolds(d, recs, sound)
<1>1. /\ IsSequence(cells) /\ AreRecords(recs)
      /\ cells[1] = Header(Counted(recs), Behind(recs)) /\ Behind(recs) <= Len(cells)
      /\ Laid(cells, recs, Len(recs)) /\ (sound => IndexLies(cells, recs))
    BY DEF TableHolds
<1>2. IsSequence(d) /\ Len(cells) <= Len(d) /\ \A i \in 1..Len(cells) : cells[i] = d[i]
    BY DEF Begins
<1>3. PICK b \in Nat, l \in Nat, m \in Nat : b = Behind(recs) /\ l = Len(cells) /\ m = Len(d)
    BY <1>1, <1>2, BehindIs, RecordsCount DEF IsSequence
<1>4. Same(cells, d, Behind(recs))
    BY <1>1, <1>2, <1>3 DEF Same
<1>6. sound => IndexLies(d, recs)
  <2> SUFFICES ASSUME sound, NEW n \in 1..Counted(recs)
               PROVE  Behind(recs) + n <= Len(d) /\ d[Behind(recs) + n] = Entry(OffsetOf(recs, n))
      BY DEF IndexLies
  <2>1. Behind(recs) + n <= Len(cells) /\ cells[Behind(recs) + n] = Entry(OffsetOf(recs, n))
      BY <1>1 DEF IndexLies
  <2> QED BY <1>2, <1>3, <2>1, <1>1, CountedIs, RecordsCount
<1> QED BY <1>6, <1>2, <1>4, TableKept DEF TableHolds

\* What cmd_parse lists of a table.
LEMMA TableListed ==
    ASSUME NEW cells, NEW recs, NEW sound, TableHolds(cells, recs, sound)
    PROVE  IsTable(cells) /\ cells # <<>> /\ Listed(cells) = Listing(recs, Visible(recs, Counted(recs)))
<1>1. /\ IsSequence(cells) /\ AreRecords(recs)
      /\ cells[1] = Header(Counted(recs), Behind(recs)) /\ Behind(recs) <= Len(cells)
      /\ Laid(cells, recs, Len(recs))
    BY DEF TableHolds
<1>2. PICK n \in Nat : n = Len(recs)
    BY <1>1, RecordsCount
<1>3. PICK k \in Nat : k = Counted(recs)
    BY <1>2, CountedIs
<1>4. k <= n
    BY <1>2, <1>3, CountedIs
<1>5. PICK b \in Nat, l \in Nat : b = Behind(recs) /\ l = Len(cells) /\ b >= 1
    BY <1>1, <1>2, BehindIs DEF IsSequence
<1>6. cells # <<>>
  <2> SUFFICES ASSUME cells = <<>> PROVE FALSE
      OBVIOUS
  <2>1. Len(cells) = 0
      BY EmptySequence
  <2> QED BY <1>1, <1>5, <2>1
<1>7. cells[1].kind = "header" /\ cells[1].magic = "CDAT" /\ cells[1].num_records = k
    BY <1>1, <1>3 DEF Header
<1>10. OffsetOf(recs, k + 1) <= Len(cells)
  <2>1. k \in 0..n
      BY <1>4
  <2>3. OffsetOf(recs, k + 1) \in Nat
      BY OffsetDefined
  <2> QED BY <1>1, <1>5, <2>3, <1>2, <2>1, OffsetGrows DEF Behind
<1>11. Records(cells) = Listing(recs, Visible(recs, k))
    BY <1>1, <1>7, <1>10, RecordsLaid, <1>2, <1>4 DEF Laid
<1> QED BY <1>3, <1>6, <1>11, <1>7 DEF Listed, IsTable

\* The index of a sound table is true.
LEMMA TableIndexed ==
    ASSUME NEW cells, NEW recs, TableHolds(cells, recs, TRUE)
    PROVE  IndexIsTrue(cells, recs)
<1>1. /\ IsSequence(cells) /\ AreRecords(recs)
      /\ cells[1] = Header(Counted(recs), Behind(recs)) /\ IndexLies(cells, recs)
    BY DEF TableHolds
<1>3. PICK b \in Nat, l \in Nat : b = Behind(recs) /\ l = Len(cells)
    BY <1>1, BehindIs, RecordsCount DEF IsSequence
<1> SUFFICES ASSUME NEW n \in 1..Counted(recs)
             PROVE  CellAt(cells, b + n - 1) = Entry(OffsetOf(recs, n))
    BY <1>3, <1>1 DEF IndexIsTrue, Header
<1>5. b + n <= l /\ cells[b + n] = Entry(OffsetOf(recs, n))
    BY <1>1, <1>3 DEF IndexLies
<1> QED BY <1>3, <1>5, <1>1, CountedIs, RecordsCount DEF CellAt

\* The index a writer has: an entry for each record it counts; "sound", the right ones.
IsIndex(index, recs, sound) ==
    /\ IsSequence(index) /\ Len(index) = Counted(recs)
    /\ sound => \A i \in 1..Counted(recs) : index[i] = Entry(OffsetOf(recs, i))

\* What cmd_add reads back is the index that was written (fileformat.c:507-516).
LEMMA OldIndexIs ==
    ASSUME NEW cells, NEW recs, NEW sound, TableHolds(cells, recs, sound)
    PROVE  IsIndex(OldIndex(cells), recs, sound)
<1>1. /\ IsSequence(cells) /\ AreRecords(recs)
      /\ cells[1] = Header(Counted(recs), Behind(recs)) /\ (sound => IndexLies(cells, recs))
    BY DEF TableHolds
<1>2. Len(recs) \in Nat
    BY <1>1, RecordsCount
<1>3. PICK k \in Nat, b \in Nat : k = Counted(recs) /\ b = Behind(recs)
    BY <1>2, CountedIs, BehindIs
<1>5. cells[1].num_records = k /\ cells[1].index_offset = b
    BY <1>1, <1>3 DEF Header
<1> DEFINE f == [i \in 1..k |-> IF b + i <= Len(cells) THEN cells[b + i] ELSE Unread]
           o == OldIndex(cells)
<1>6. o = IF k \in 1..MAX_RECORDS THEN f ELSE <<>>
    BY <1>5, Zenon DEF OldIndex
<1>7. /\ f = [i \in 1..k |-> f[i]]
      /\ \A i \in 1..k : b + i <= Len(cells) => f[i] = cells[b + i]
    OBVIOUS
<1> HIDE DEF f, o
<1>9. CASE k = 0
    BY <1>9, <1>6, EmptySequence, <1>3 DEF IsIndex, o
<1>10. CASE k # 0
  <2>2. o = f
      BY <1>6, <1>10, <1>2, <1>3, CountedIs, TableAssumption
  <2>3. sound => \A i \in 1..k : f[i] = Entry(OffsetOf(recs, i))
      BY <1>1, <1>3, <1>7 DEF IndexLies
  <2> QED BY <1>3, <2>2, <2>3, <1>7, FunctionIs DEF IsIndex, o
<1> QED BY <1>9, <1>10

\* One record more is counted while the index has room.
LEMMA CountedNext ==
    ASSUME NEW recs, NEW more, Len(recs) \in Nat, Len(more) = Len(recs) + 1
    PROVE  /\ Counted(recs) \in Nat /\ Counted(more) \in Nat
           /\ Counted(recs) < MAX_RECORDS => Counted(more) = Counted(recs) + 1 /\ Counted(recs) = Len(recs)
           /\ ~(Counted(recs) < MAX_RECORDS) => Counted(more) = Counted(recs)
BY TableAssumption, CountedIs

\* index_add enters the place of the next record, or nothing (fileformat.c:150-157).
LEMMA IndexAddIs ==
    ASSUME NEW recs, NEW more, NEW index, NEW sound, NEW n \in Nat, Len(recs) = n, Len(more) = n + 1,
           \A i \in 1..n : recs[i] = more[i], IsIndex(index, recs, sound)
    PROVE  IsIndex(IndexAdd(index, OffsetOf(recs, n + 1)), more, sound)
<1> DEFINE e == Entry(OffsetOf(recs, n + 1))
           x == IndexAdd(index, OffsetOf(recs, n + 1))
<1>1. PICK k \in Nat, m \in Nat : k = Counted(recs) /\ m = Counted(more) /\ k <= n
    BY CountedNext, CountedIs
<1>2. /\ k < MAX_RECORDS => m = k + 1 /\ k = n
      /\ ~(k < MAX_RECORDS) => m = k
    BY <1>1, CountedNext
<1>3. /\ IsSequence(index) /\ Len(index) = k
      /\ sound => \A i \in 1..k : index[i] = Entry(OffsetOf(recs, i))
    BY <1>1 DEF IsIndex
<1>4. \A i \in 1..n + 1 : OffsetOf(recs, i) = OffsetOf(more, i)
  <2> TAKE i \in 1..n + 1
  <2> QED BY OffsetSame, SMTT(30)
<1>5. CASE k < MAX_RECORDS
  <2>1. x = Append(index, e)
      BY <1>3, <1>5 DEF IndexAdd
  <2> HIDE DEF x, e
  <2>2. IsSequence(x) /\ Len(x) = k + 1 /\ (\A i \in 1..k : x[i] = index[i]) /\ x[k + 1] = e
      BY <1>3, <2>1, AppendedAt
  <2>3. m = k + 1 /\ k = n
      BY <1>2, <1>5
  <2>4. sound => \A i \in 1..m : x[i] = Entry(OffsetOf(more, i))
    <3> SUFFICES ASSUME sound, NEW i \in 1..m PROVE x[i] = Entry(OffsetOf(more, i))
        OBVIOUS
    <3>1. CASE i = k + 1
        BY <1>4, <2>2, <2>3, <3>1 DEF e
    <3>2. CASE i # k + 1
        BY <2>3, <3>2, <1>3, <1>4, <2>2
    <3> QED BY <3>1, <3>2
  <2> QED BY <1>1, <2>2, <2>3, <2>4 DEF IsIndex, x
<1>6. CASE ~(k < MAX_RECORDS)
  <2>1. x = index /\ m = k
      BY <1>2, <1>3, <1>6 DEF IndexAdd
  <2> HIDE DEF x
  <2>2. sound => \A i \in 1..m : x[i] = Entry(OffsetOf(more, i))
    <3> SUFFICES ASSUME sound, NEW i \in 1..m PROVE x[i] = Entry(OffsetOf(more, i))
        OBVIOUS
    <3> QED BY <1>3, <1>4, <2>1, <1>1
  <2> QED BY <1>1, <1>3, <2>1, <2>2 DEF IsIndex, x
<1> QED BY <1>5, <1>6

\* Records, an index behind them and a header before them are a table.
LEMMA TableMade ==
    ASSUME NEW g, NEW recs, NEW index, NEW sound, AreRecords(recs), IsSequence(g),
           Len(g) = Behind(recs), Laid(g, recs, Len(recs)), IsIndex(index, recs, sound)
    PROVE  /\ Join(g \o index, g, index)
           /\ TableHolds([g \o index EXCEPT ![1] = Header(Counted(recs), Behind(recs))], recs, sound)
<1> DEFINE goal == g \o index
           head == Header(Counted(recs), Behind(recs))
           h == [goal EXCEPT ![1] = head]
<1>1. PICK n \in Nat : n = Len(recs)
    BY RecordsCount
<1>2. PICK k \in Nat, b \in Nat : k = Counted(recs) /\ b = Behind(recs) /\ b >= 1
    BY <1>1, CountedIs, BehindIs
<1>3. /\ IsSequence(index) /\ Len(index) = k
      /\ sound => \A i \in 1..k : index[i] = Entry(OffsetOf(recs, i))
    BY <1>2 DEF IsIndex
<1>4. Join(goal, g, index)
    BY <1>3, Joined
<1> HIDE DEF goal, head
<1>5. /\ IsSequence(goal) /\ Len(goal) = b + k /\ (\A i \in 1..b : goal[i] = g[i])
      /\ \A i \in 1..k : goal[b + i] = index[i]
    BY <1>2, <1>3, <1>4 DEF Join
<1>7. 1 \in 1..b + k
    BY <1>2
<1>8. h = [i \in 1..b + k |-> h[i]] /\ h[1] = head /\ \A i \in 2..b + k : h[i] = goal[i]
  <2>1. \A i \in 2..b + k : i \in 1..b + k /\ i # 1
      OBVIOUS
  <2> QED BY <1>7, <2>1, <1>5, IndexSet
<1> HIDE DEF h
<1>9. IsSequence(h) /\ Len(h) = b + k
    BY <1>8, FunctionIs
<1>10. Laid(h, recs, n)
  <2>1. \A i \in 2..OffsetOf(recs, n + 1) : h[i] = g[i]
    <3> TAKE i \in 2..OffsetOf(recs, n + 1)
    <3>1. i \in 2..b
        BY <1>1, <1>2 DEF Behind
    <3>2. i \in 2..b + k /\ i \in 1..b
        BY <3>1
    <3> QED BY <1>5, <1>8, <3>2
  <2> QED BY <1>1, <2>1, LaidExtends
<1>11. sound => IndexLies(h, recs)
  <2> SUFFICES ASSUME sound, NEW i \in 1..k
               PROVE  b + i <= Len(h) /\ h[b + i] = Entry(OffsetOf(recs, i))
      BY <1>2 DEF IndexLies
  <2>1. b + i \in 2..b + k
      BY <1>2
  <2>2. h[b + i] = goal[b + i]
      BY <1>8, <2>1
  <2>4. index[i] = Entry(OffsetOf(recs, i))
      BY <1>3
  <2> QED BY <1>9, <2>1, <2>2, <2>4, <1>5
<1>12. TableHolds(h, recs, sound)
    BY <1>1, <1>2, <1>8, <1>9, <1>10, <1>11 DEF TableHolds, head
<1> QED BY <1>4, <1>12 DEF h, goal, head

\* Two more writes: the index, and the header.
LEMMA FinishedIs ==
    ASSUME NEW w, IsSequence(w.writes)
    PROVE  /\ IsSequence(TableFinished(w)) /\ Len(TableFinished(w)) = Len(w.writes) + 2
           /\ \A i \in 1..Len(w.writes) : TableFinished(w)[i] = w.writes[i]
           /\ TableFinished(w)[Len(w.writes) + 1] = WriteAt(w.end, w.index)
           /\ TableFinished(w)[Len(w.writes) + 2] = WriteAt(0, <<Header(Len(w.index), w.end)>>)
<1> DEFINE a == WriteAt(w.end, w.index)
           b == WriteAt(0, <<Header(Len(w.index), w.end)>>)
           s == w.writes
           u == s \o <<a, b>>
<1>1. TableFinished(w) = u
    BY DEF TableFinished
<1> HIDE DEF a, b, s
<1>2. IsSequence(<<a, b>>) /\ Len(<<a, b>>) = 2 /\ <<a, b>>[1] = a /\ <<a, b>>[2] = b
    BY DEF IsSequence
<1>3. Join(u, s, <<a, b>>)
    BY <1>2, Joined DEF s
<1> HIDE DEF u
<1>4. PICK n \in Nat : n = Len(s)
    BY <1>3 DEF Join
<1>5. IsSequence(u) /\ Len(u) = n + 2 /\ (\A i \in 1..n : u[i] = s[i]) /\ u[n + 1] = a /\ u[n + 2] = b
    BY <1>2, <1>3, <1>4 DEF Join
<1> QED BY <1>1, <1>4, <1>5 DEF a, b, s

\* What cmd_add is about to write makes a table with one record more.
LEMMA AddStarts ==
    ASSUME NEW cells, NEW recs, NEW sound, NEW rec, NEW file,
           TableHolds(cells, recs, sound), IsRecord(rec)
    PROVE  \E goal, head :
              LET script == Into(file, AddWrites(cells, rec))
              IN  /\ Lays(cells, script, file, goal, head) /\ Len(goal) >= 1
                  /\ Place(script, goal, 1) = Behind(recs)
                  /\ TableHolds([goal EXCEPT ![1] = head], Append(recs, rec), sound)
<1>1. /\ IsSequence(cells) /\ AreRecords(recs)
      /\ cells[1] = Header(Counted(recs), Behind(recs)) /\ Behind(recs) <= Len(cells)
      /\ Laid(cells, recs, Len(recs))
    BY DEF TableHolds
<1>2. PICK n \in Nat : n = Len(recs)
    BY <1>1, RecordsCount
<1>3. PICK b \in Nat, l \in Nat : b = Behind(recs) /\ b >= 1 /\ l = Len(cells) /\ b <= l
    BY <1>1, <1>2, BehindIs DEF IsSequence
<1> DEFINE more == Append(recs, rec)
           R == RecordCells(rec)
           old == OldIndex(cells)
           index == IndexAdd(old, b)
<1>4. IsSequence(more) /\ Len(more) = n + 1 /\ (\A i \in 1..n : more[i] = recs[i]) /\ more[n + 1] = rec
    BY <1>1, <1>2, AppendedAt DEF AreRecords
<1> HIDE DEF more
<1>5. AreRecords(more)
  <2> SUFFICES ASSUME NEW i \in 1..Len(more) PROVE IsRecord(more[i])
      BY <1>4 DEF AreRecords
  <2> QED BY <1>1, <1>2, <1>4 DEF AreRecords
<1>6. IsIndex(old, recs, sound)
    BY OldIndexIs
<1>7. IsIndex(index, more, sound)
  <2> HIDE DEF old
  <2> QED BY <1>2, <1>4, <1>6, IndexAddIs, <1>3 DEF Behind
<1>8. PICK k \in Nat : k = Counted(more) /\ k = Len(index) /\ IsSequence(index)
  <2> HIDE DEF index
  <2> QED BY <1>7, <1>4, CountedIs DEF IsIndex
<1>9. PICK p \in 1..3 : p = Len(R)
    BY CellsOfRecord
<1>10. IsSequence(R)
    BY CellsOfRecord
<1>11. Behind(more) = b + p
  <2>2. OffsetOf(more, (n + 1) + 1) = OffsetOf(more, n + 1) + Len(RecordCells(more[n + 1]))
      BY OffsetDefined
  <2>3. OffsetOf(recs, n + 1) = OffsetOf(more, n + 1)
      BY <1>4, OffsetSame
  <2> QED BY <1>2, <1>3, <1>4, <1>9, <2>2, <2>3 DEF Behind
<1> DEFINE a == SubSeq(cells, 1, b)
           g == a \o R
           goal == g \o index
           head == Header(k, b + p)
<1>12. IsSequence(a) /\ Len(a) = b /\ \A i \in 1..b : a[i] = cells[i]
    BY <1>1, <1>3, Beginning
<1> HIDE DEF a
<1>13. Len(a) = OffsetOf(more, n + 1) /\ Laid(a, more, n)
  <2>1. OffsetOf(recs, n + 1) = OffsetOf(more, n + 1)
      BY <1>4, OffsetSame
  <2>2. Laid(a, recs, n)
      BY <1>2, <1>3, <1>12, <1>1, LaidExtends DEF Behind
  <2>3. \A i \in 1..n : recs[i] = more[i]
      BY <1>4
  <2> QED BY <1>2, <1>3, <1>12, <2>1, <2>2, <2>3, LaidSame DEF Behind
<1>14. Join(g, a, R) /\ Len(g) = OffsetOf(more, n + 2) /\ Laid(g, more, n + 1)
    BY <1>4, <1>12, <1>13, LaidNext
<1>15. IsSequence(g) /\ Len(g) = Behind(more) /\ Laid(g, more, Len(more))
  <2> HIDE DEF g
  <2> QED BY <1>4, <1>14 DEF Join, Behind
<1> HIDE DEF g, R, old, index
<1>16. Join(goal, g, index) /\ TableHolds([goal EXCEPT ![1] = Header(Counted(more), Behind(more))], more, sound)
    BY <1>5, <1>7, <1>15, TableMade
<1>17. TableHolds([goal EXCEPT ![1] = head], more, sound)
    BY <1>8, <1>11, <1>16
<1> HIDE DEF goal, head
<1>18. /\ IsSequence(goal) /\ Len(goal) = b + p + k
       /\ \A i \in 1..b : goal[i] = cells[i]
       /\ \A i \in 1..p : goal[b + i] = R[i]
       /\ \A i \in 1..k : goal[b + p + i] = index[i]
  <2>1. Len(g) = b + p
      BY <1>11, <1>15
  <2>2. /\ IsSequence(goal) /\ Len(goal) = b + p + k /\ (\A i \in 1..b + p : goal[i] = g[i])
        /\ \A i \in 1..k : goal[b + p + i] = index[i]
      BY <1>8, <1>16, <2>1 DEF Join
  <2>5. \A i \in 1..p : b + i \in 1..b + p
      OBVIOUS
  <2> QED BY <1>12, <2>2, <2>5, <1>9, <1>14 DEF Join
<1> DEFINE w1 == WriteAt(b, R)
           w2 == WriteAt(b + p, index)
           w3 == WriteAt(0, <<head>>)
           writes == AddWrites(cells, rec)
           script == Into(file, writes)
<1>19. IsSequence(writes) /\ Len(writes) = 3 /\ writes[1] = w1 /\ writes[2] = w2 /\ writes[3] = w3
  <2> DEFINE w0 == [writes |-> <<>>, end |-> cells[1].index_offset, index |-> OldIndex(cells)]
             w == PutRecord(w0, rec)
  <2>2. w0.writes = <<>> /\ w0.end = b /\ w0.index = old
      BY <1>1, <1>3 DEF old, Header
  <2>3. writes = TableFinished(w)
      BY DEF AddWrites
  <2> HIDE DEF w0
  <2>5. w.writes = Append(<<>>, w1) /\ w.end = b + p /\ w.index = index
      BY <1>9, <2>2 DEF PutRecord, R, index
  <2> HIDE DEF w, w1, w2, writes
  <2>6. IsSequence(Append(<<>>, w1)) /\ Len(Append(<<>>, w1)) = 1 /\ Append(<<>>, w1)[1] = w1
    <3>1. IsSequence(<<>>) /\ Len(<<>>) = 0
        BY EmptySequence
    <3>2. /\ IsSequence(Append(<<>>, w1)) /\ Len(Append(<<>>, w1)) = Len(<<>>) + 1
          /\ Append(<<>>, w1)[Len(<<>>) + 1] = w1
        BY <3>1, AppendedAt
    <3>3. Len(<<>>) + 1 = 1
        BY <3>1
    <3> QED BY <3>2, <3>3
  <2>8. Len(w.writes) + 1 = 2 /\ Len(w.writes) + 2 = 3 /\ 1 \in 1..Len(w.writes)
      BY <2>5, <2>6
  <2>9. WriteAt(0, <<Header(Len(w.index), w.end)>>) = w3
      BY <1>8, <2>5 DEF head
  <2> HIDE DEF w3
  <2> QED BY <2>3, <2>5, <2>6, <2>8, <2>9, FinishedIs DEF w2
<1> HIDE DEF writes
<1>20. /\ IsSequence(script) /\ Len(script) = 3
       /\ script[1] = [file |-> file, write |-> w1] /\ script[2] = [file |-> file, write |-> w2]
       /\ script[3] = [file |-> file, write |-> w3]
  <2>1. /\ IsSequence(script) /\ Len(script) = Len(writes)
        /\ \A i \in 1..Len(writes) : script[i] = [file |-> file, write |-> writes[i]]
      BY <1>19, IntoIs
  <2> HIDE DEF w1, w2, w3, script
  <2> QED BY <1>19, <2>1
<1> HIDE DEF script
<1>21. /\ script[1].write.at = b /\ script[1].write.cells = R
       /\ script[2].write.at = b + p /\ script[2].write.cells = index
    BY <1>20 DEF WriteAt
<1>22. Place(script, goal, 1) = b /\ Place(script, goal, 2) = b + p /\ Place(script, goal, 3) = b + p + k
    BY <1>18, <1>20, <1>21 DEF Place
<1>23. IsPiece(script, file, goal, 1)
  <2>1. 1 + 1 = 2
      OBVIOUS
  <2> QED BY <1>9, <1>10, <1>18, <1>20, <1>21, <1>22, <2>1 DEF IsPiece, R
<1>24. IsPiece(script, file, goal, 2)
  <2>1. 2 + 1 = 3 /\ b + p \in Nat
      OBVIOUS
  <2> QED BY <1>8, <1>18, <1>20, <1>21, <1>22, <2>1 DEF IsPiece
<1>25. Agrees(cells, goal, b)
    BY <1>3, <1>18 DEF Agrees
<1>26. Lays(cells, script, file, goal, head)
  <2>1. \A j \in 1..Len(script) - 1 : IsPiece(script, file, goal, j)
    <3> TAKE j \in 1..Len(script) - 1
    <3> QED BY <1>23, <1>24, <1>20
  <2> QED BY <1>1, <1>18, <1>20, <1>22, <1>25, <2>1 DEF Lays
<1>27. Len(goal) >= 1
    BY <1>3, <1>18
<1> QED BY <1>3, <1>17, <1>22, <1>26, <1>27 DEF script, writes, more

\* Some records in their places behind a first cell.
LEMMA LaidExist ==
    ASSUME NEW recs, NEW first, NEW n \in Nat
    PROVE  \E g : IsSequence(g) /\ Len(g) = OffsetOf(recs, n + 1) /\ g[1] = first /\ Laid(g, recs, n)
<1> DEFINE Lies(g, m) == IsSequence(g) /\ Len(g) = OffsetOf(recs, m + 1) /\ g[1] = first /\ Laid(g, recs, m)
           T == {m \in Nat : \E g : Lies(g, m)}
<1>1. 0 \in T
  <2>1. IsSequence(<<first>>) /\ Len(<<first>>) = 1 /\ <<first>>[1] = first
      BY SingleSequence
  <2>2. OffsetOf(recs, 0 + 1) = 1
      BY OffsetDefined
  <2>3. Laid(<<first>>, recs, 0)
      BY DEF Laid
  <2>4. Lies(<<first>>, 0)
      BY <2>1, <2>2, <2>3
  <2> HIDE DEF Lies
  <2> QED BY <2>4
<1>2. \A m \in T : m + 1 \in T
  <2> TAKE m \in T
  <2>1. m \in Nat /\ \E g : Lies(g, m)
      OBVIOUS
  <2>2. PICK g : Lies(g, m)
      BY <2>1
  <2> DEFINE c == RecordCells(recs[m + 1])
             h == g \o c
  <2>3. Join(h, g, c) /\ Len(h) = OffsetOf(recs, m + 2) /\ Laid(h, recs, m + 1)
      BY <2>1, <2>2, LaidNext
  <2>4. 1 \in 1..Len(g)
    <3>1. OffsetOf(recs, m + 1) \in Nat /\ OffsetOf(recs, 0 + 1) <= OffsetOf(recs, m + 1)
      <4>1. 0 \in 0..m
          BY <2>1
      <4> QED BY <2>1, <4>1, OffsetDefined, OffsetGrows
    <3>2. OffsetOf(recs, 0 + 1) = 1
        BY OffsetDefined
    <3> QED BY <2>2, <3>1, <3>2
  <2> HIDE DEF h, c
  <2>5. IsSequence(h) /\ h[1] = first
      BY <2>2, <2>3, <2>4 DEF Join
  <2>6. (m + 1) + 1 = m + 2 /\ m + 1 \in Nat
      BY <2>1
  <2>7. Lies(h, m + 1)
      BY <2>3, <2>5, <2>6
  <2> HIDE DEF Lies
  <2> QED BY <2>6, <2>7
<1>3. T = Nat
  <2> HIDE DEF T
  <2>1. T \in SUBSET Nat
      BY DEF T
  <2> QED BY <1>1, <1>2, <2>1, Induction
<1>4. n \in T
  <2> HIDE DEF T
  <2> QED BY <1>3
<1> QED BY <1>4

\* What cmd_create has prepared when it has put n records.
RecordWrite(recs, i) == WriteAt(OffsetOf(recs, i), RecordCells(recs[i]))

WritesOf(recs, n) ==
    [j \in 1..n + 2 |-> IF j = 1 THEN Emptied
                        ELSE IF j = 2 THEN WriteAt(0, <<Placeholder>>) ELSE RecordWrite(recs, j - 2)]

CutTo(n) == IF n <= MAX_RECORDS THEN n ELSE MAX_RECORDS

IndexOf(recs, n) == [i \in 1..CutTo(n) |-> Entry(OffsetOf(recs, i))]

Prepared(recs, n) ==
    [writes |-> WritesOf(recs, n), end |-> OffsetOf(recs, n + 1), index |-> IndexOf(recs, n)]

\* The writes of cmd_create, one by one.
LEMMA WritesOfIs ==
    ASSUME NEW recs, NEW n \in Nat
    PROVE  /\ IsSequence(WritesOf(recs, n)) /\ Len(WritesOf(recs, n)) = n + 2
           /\ WritesOf(recs, n)[1] = Emptied /\ WritesOf(recs, n)[2] = WriteAt(0, <<Placeholder>>)
           /\ \A i \in 1..n : WritesOf(recs, n)[i + 2] = RecordWrite(recs, i)
<1> DEFINE f == WritesOf(recs, n)
<1>1. f = [j \in 1..n + 2 |-> f[j]]
    BY DEF WritesOf
<1>2. 1 \in 1..n + 2 /\ 2 \in 1..n + 2 /\ n + 2 \in Nat
    OBVIOUS
<1>4. \A i \in 1..n : f[i + 2] = RecordWrite(recs, i)
  <2> TAKE i \in 1..n
  <2> QED BY DEF WritesOf
<1> HIDE DEF f
<1> QED BY <1>4, <1>2, <1>1, FunctionIs DEF f, WritesOf

LEMMA CutToIs ==
    ASSUME NEW n \in Nat
    PROVE  /\ CutTo(n) \in Nat /\ CutTo(n) <= n
           /\ CutTo(n) < MAX_RECORDS => CutTo(n) = n /\ CutTo(n + 1) = n + 1
           /\ ~(CutTo(n) < MAX_RECORDS) => CutTo(n + 1) = CutTo(n)
BY TableAssumption DEF CutTo

LEMMA IndexOfIs ==
    ASSUME NEW recs, NEW n \in Nat
    PROVE  /\ IsSequence(IndexOf(recs, n)) /\ Len(IndexOf(recs, n)) = CutTo(n)
           /\ \A i \in 1..CutTo(n) : IndexOf(recs, n)[i] = Entry(OffsetOf(recs, i))
<1> DEFINE f == IndexOf(recs, n)
<1> HIDE DEF f
<1>2. CutTo(n) \in Nat
    BY CutToIs
<1> QED BY <1>2, FunctionIs DEF f, IndexOf

\* cmd_create puts the records one behind the other (fileformat.c:355-378),
LEMMA PreparedNext ==
    ASSUME NEW recs, NEW n \in Nat
    PROVE  PutRecord(Prepared(recs, n), recs[n + 1]) = Prepared(recs, n + 1)
<1> DEFINE w == Prepared(recs, n)
           rec == recs[n + 1]
           e == Entry(OffsetOf(recs, n + 1))
           a == Append(WritesOf(recs, n), RecordWrite(recs, n + 1))
           x == IndexAdd(IndexOf(recs, n), OffsetOf(recs, n + 1))
<1>3. OffsetOf(recs, (n + 1) + 1) = OffsetOf(recs, n + 1) + Len(RecordCells(rec))
    BY OffsetDefined
<1>4. a = WritesOf(recs, n + 1)
  <2> DEFINE s == WritesOf(recs, n)
             t == WritesOf(recs, n + 1)
             z == RecordWrite(recs, n + 1)
  <2>1. /\ IsSequence(s) /\ Len(s) = n + 2 /\ s[1] = Emptied /\ s[2] = WriteAt(0, <<Placeholder>>)
        /\ \A i \in 1..n : s[i + 2] = RecordWrite(recs, i)
      BY WritesOfIs
  <2>2. n + 1 \in Nat /\ (n + 1) + 2 = n + 3 /\ (n + 2) + 1 = n + 3
      OBVIOUS
  <2>3. /\ IsSequence(t) /\ Len(t) = n + 3 /\ t[1] = Emptied /\ t[2] = WriteAt(0, <<Placeholder>>)
        /\ \A i \in 1..n + 1 : t[i + 2] = RecordWrite(recs, i)
      BY <2>2, WritesOfIs
  <2>4. /\ IsSequence(Append(s, z)) /\ Len(Append(s, z)) = n + 3 /\ Append(s, z)[n + 3] = z
        /\ \A i \in 1..n + 2 : Append(s, z)[i] = s[i]
    <3> HIDE DEF s, z
    <3> QED BY <2>1, <2>2, AppendedAt
  <2>5. t[n + 3] = z
      BY <2>3
  <2>6. \A i \in 1..n + 2 : t[i] = s[i]
    <3> TAKE i \in 1..n + 2
    <3>1. CASE i = 1 \/ i = 2
        BY <2>1, <2>3, <3>1
    <3>2. CASE ~(i = 1 \/ i = 2)
      <4>1. i - 2 \in 1..n /\ i - 2 \in 1..n + 1 /\ (i - 2) + 2 = i
          BY <3>2
      <4> QED BY <4>1, <2>1, <2>3
    <3> QED BY <3>1, <3>2
  <2> HIDE DEF s, t, z
  <2>7. \A i \in 1..Len(t) : Append(s, z)[i] = t[i]
    <3> TAKE i \in 1..Len(t)
    <3> QED BY <2>4, <2>5, <2>6, <2>3
  <2>8. Append(s, z) = t
      BY <2>3, <2>4, <2>7, SameSequence
  <2> QED BY <2>8 DEF s, t, z
<1>5. x = IndexOf(recs, n + 1)
  <2> DEFINE s == IndexOf(recs, n)
             t == IndexOf(recs, n + 1)
  <2>1. PICK k \in Nat, m \in Nat : k = CutTo(n) /\ m = CutTo(n + 1)
      BY CutToIs
  <2>2. /\ k < MAX_RECORDS => k = n /\ m = n + 1
        /\ ~(k < MAX_RECORDS) => m = k
      BY <2>1, CutToIs
  <2>3. IsSequence(s) /\ Len(s) = k /\ \A i \in 1..k : s[i] = Entry(OffsetOf(recs, i))
      BY <2>1, IndexOfIs
  <2>5. IsSequence(t) /\ Len(t) = m /\ \A i \in 1..m : t[i] = Entry(OffsetOf(recs, i))
      BY <2>1, IndexOfIs
  <2> HIDE DEF s, t
  <2>6. CASE k < MAX_RECORDS
    <3>2. IsSequence(Append(s, e)) /\ Len(Append(s, e)) = k + 1 /\ Append(s, e)[k + 1] = e
          /\ \A i \in 1..k : Append(s, e)[i] = s[i]
      <4> HIDE DEF e
      <4> QED BY <2>3, AppendedAt
    <3>3. k = n /\ m = k + 1
        BY <2>2, <2>6
    <3>4. \A i \in 1..Len(t) : Append(s, e)[i] = t[i]
      <4> TAKE i \in 1..Len(t)
      <4> QED BY <2>3, <2>5, <3>2, <3>3
    <3>5. Append(s, e) = t
        BY <2>5, <3>2, <3>3, <3>4, SameSequence
    <3> QED BY <3>5, <2>3, <2>6 DEF t, IndexAdd, s
  <2>7. CASE ~(k < MAX_RECORDS)
    <3>1. x = s /\ m = k
        BY <2>2, <2>3, <2>7 DEF IndexAdd, s
    <3>2. s = t
        BY <2>3, <2>5, <3>1, SameSequence
    <3> QED BY <3>1, <3>2 DEF t
  <2> QED BY <2>6, <2>7
<1> QED BY <1>3, <1>4, <1>5 DEF Prepared, PutRecord, RecordWrite

\* beginning with none,
LEMMA PreparedFirst ==
    \A recs : Prepared(recs, 0) = Started(<<Emptied, WriteAt(0, <<Placeholder>>)>>)
<1> TAKE recs
<1> DEFINE a == Emptied
           b == WriteAt(0, <<Placeholder>>)
           s == WritesOf(recs, 0)
<1>1. IsSequence(s) /\ Len(s) = 0 + 2 /\ s[1] = a /\ s[2] = b
    BY WritesOfIs
<1> HIDE DEF a, b, s
<1>2. IsSequence(<<a, b>>) /\ Len(<<a, b>>) = 2 /\ <<a, b>>[1] = a /\ <<a, b>>[2] = b
    BY DEF IsSequence
<1>3. s = <<a, b>>
    BY <1>1, <1>2, SameSequence
<1>4. OffsetOf(recs, 0 + 1) = 1
    BY OffsetDefined
<1>5. IndexOf(recs, 0) = <<>>
    BY CutToIs, IndexOfIs, EmptySequence
<1> QED BY <1>3, <1>4, <1>5 DEF Prepared, Started, a, b, s

\* and finishes the table.
LEMMA CreateWritesIs == CreateWrites = TableFinished(Prepared(Sample, Len(Sample)))
<1>1. PICK N \in Nat : N = Len(Sample)
    BY TableAssumption DEF IsSequence
<1> DEFINE first == Started(<<Emptied, WriteAt(0, <<Placeholder>>)>>)
           Writes(g) == g = [n \in 0..N |-> IF n = 0 THEN first ELSE PutRecord(g[n - 1], Sample[n])]
           f == [n \in 0..N |-> Prepared(Sample, n)]
<1>2. Prepared(Sample, 0) = first
    BY PreparedFirst
<1>3. \A n \in 1..N : PutRecord(Prepared(Sample, n - 1), Sample[n]) = Prepared(Sample, n)
  <2> TAKE n \in 1..N
  <2> QED BY PreparedNext
<1> HIDE DEF first
<1>4. Writes(f)
  <2>1. \A n \in 0..N : Prepared(Sample, n) = IF n = 0 THEN first ELSE PutRecord(f[n - 1], Sample[n])
    <3> TAKE n \in 0..N
    <3>1. CASE n = 0
        BY <1>2, <3>1
    <3>2. CASE n # 0
      <4>1. n \in 1..N /\ n - 1 \in 0..N
          BY <3>2
      <4>2. f[n - 1] = Prepared(Sample, n - 1)
          BY <4>1
      <4> HIDE DEF f
      <4> QED BY <1>3, <3>2, <4>1, <4>2
    <3> QED BY <3>1, <3>2
  <2> QED BY <2>1
<1> HIDE DEF f
<1> DEFINE g == CHOOSE h : Writes(h)
<1>5. Writes(g)
    BY <1>4
<1>6. CreateWrites = TableFinished(g[N])
    BY <1>1 DEF CreateWrites, first
<1> HIDE DEF g
<1>7. g[0] = first /\ \A n \in 1..N : g[n] = PutRecord(g[n - 1], Sample[n])
    BY <1>5
<1> HIDE DEF Writes
<1> DEFINE T == {n \in Nat : n <= N => g[n] = Prepared(Sample, n)}
<1>8. 0 \in T
    BY <1>2, <1>7
<1>9. \A n \in T : n + 1 \in T
  <2> SUFFICES ASSUME NEW n \in T, n + 1 <= N PROVE g[n + 1] = Prepared(Sample, n + 1)
      OBVIOUS
  <2>1. n + 1 \in 1..N /\ (n + 1) - 1 = n /\ n <= N
      OBVIOUS
  <2> QED BY <2>1, <1>7, <1>3
<1>10. T = Nat
  <2> HIDE DEF T
  <2> QED BY <1>8, <1>9, Induction DEF T
<1> QED BY <1>1, <1>6, <1>10

OpenEntry(file) == [file |-> file, write |-> Emptied]
PlaceholderEntry(file) == [file |-> file, write |-> WriteAt(0, <<Placeholder>>)]

\* The records, the index and the header, over a placeholder.
Creates(script, file, goal, head) ==
    /\ Lays(<<Placeholder>>, script, file, goal, head) /\ Len(goal) >= 1
    /\ Place(script, goal, 1) = 1
    /\ TableHolds([goal EXCEPT ![1] = head], Sample, TRUE)

\* The writes of cmd_create: open, placeholder, and the rest of a sound table.
LEMMA CreateStarts ==
    ASSUME NEW file
    PROVE  \E goal, head, rest :
              /\ IsSequence(rest) /\ Creates(rest, file, goal, head)
              /\ Into(file, CreateWrites) = <<OpenEntry(file)>> \o (<<PlaceholderEntry(file)>> \o rest)
<1>1. PICK N \in Nat : N = Len(Sample)
    BY TableAssumption DEF IsSequence
<1>2. AreRecords(Sample)
    BY TableAssumption, IndexSet DEF AreRecords
<1>3. PICK k \in Nat, b \in Nat : k = CutTo(N) /\ b = Behind(Sample) /\ b >= 1
    BY <1>1, CutToIs, BehindIs
<1>4. k = Counted(Sample)
    BY <1>1, CountedIs, <1>3, TableAssumption DEF CutTo
<1>5. b = OffsetOf(Sample, N + 1)
    BY <1>1, <1>3 DEF Behind
<1> DEFINE index == IndexOf(Sample, N)
<1>6. IsSequence(index) /\ Len(index) = k /\ \A i \in 1..k : index[i] = Entry(OffsetOf(Sample, i))
    BY <1>3, IndexOfIs
<1> HIDE DEF index
<1>7. IsIndex(index, Sample, TRUE)
    BY <1>4, <1>6 DEF IsIndex
<1>8. PICK g : IsSequence(g) /\ Len(g) = b /\ g[1] = Placeholder /\ Laid(g, Sample, N)
    BY <1>5, LaidExist
<1> DEFINE goal == g \o index
           head == Header(k, b)
<1>9. Join(goal, g, index) /\ TableHolds([goal EXCEPT ![1] = head], Sample, TRUE)
    BY <1>1, <1>2, <1>3, <1>4, <1>7, <1>8, TableMade
<1> HIDE DEF goal
<1>10. /\ IsSequence(goal) /\ Len(goal) = b + k /\ (\A i \in 1..b : goal[i] = g[i])
       /\ \A i \in 1..k : goal[b + i] = index[i]
    BY <1>6, <1>8, <1>9 DEF Join
<1> DEFINE w == Prepared(Sample, N)
           s == WritesOf(Sample, N)
           writes == CreateWrites
           script == Into(file, writes)
           w3 == WriteAt(0, <<head>>)
<1>11. w.writes = s /\ w.end = b /\ w.index = index
    BY <1>5 DEF Prepared, index
<1>12. /\ IsSequence(s) /\ Len(s) = N + 2 /\ s[1] = Emptied /\ s[2] = WriteAt(0, <<Placeholder>>)
       /\ \A i \in 1..N : s[i + 2] = RecordWrite(Sample, i)
    BY WritesOfIs
<1> HIDE DEF w, s, head
<1>13. /\ IsSequence(writes) /\ Len(writes) = N + 4
       /\ \A i \in 1..N + 2 : writes[i] = s[i]
       /\ writes[N + 3] = WriteAt(b, index) /\ writes[N + 4] = w3
  <2>1. writes = TableFinished(w)
      BY <1>1, CreateWritesIs DEF w
  <2>3. Len(w.writes) = N + 2 /\ (N + 2) + 2 = N + 4 /\ (N + 2) + 1 = N + 3
      BY <1>11, <1>12
  <2>4. WriteAt(0, <<Header(Len(w.index), w.end)>>) = w3
      BY <1>6, <1>11 DEF head
  <2> HIDE DEF writes, w3
  <2> QED BY <1>11, <2>1, <2>3, <2>4, <1>12, FinishedIs
<1> HIDE DEF writes
<1>14. /\ IsSequence(script) /\ Len(script) = N + 4
       /\ \A i \in 1..N + 4 : script[i] = [file |-> file, write |-> writes[i]]
    BY <1>13, IntoIs
<1> HIDE DEF script
<1>15. script[1] = OpenEntry(file) /\ script[2] = PlaceholderEntry(file)
    BY <1>12, <1>13, <1>14 DEF OpenEntry, PlaceholderEntry
<1> DEFINE rest == [j \in 1..N + 2 |-> script[j + 2]]
<1>16. rest = [j \in 1..N + 2 |-> rest[j]] /\ \A j \in 1..N + 2 : rest[j] = script[j + 2]
    OBVIOUS
<1> HIDE DEF rest
<1>17. IsSequence(rest) /\ Len(rest) = N + 2
    BY <1>16, FunctionIs
<1>18. script = <<OpenEntry(file)>> \o (<<PlaceholderEntry(file)>> \o rest)
  <2> DEFINE a == OpenEntry(file)
             c == PlaceholderEntry(file)
             u == <<c>> \o rest
             v == <<a>> \o u
  <2> HIDE DEF a, c
  <2>1. IsSequence(<<a>>) /\ Len(<<a>>) = 1 /\ <<a>>[1] = a /\ IsSequence(<<c>>) /\ Len(<<c>>) = 1 /\ <<c>>[1] = c
      BY SingleSequence
  <2>2. Join(u, <<c>>, rest)
      BY <1>17, <2>1, Joined
  <2> HIDE DEF u
  <2>3. IsSequence(u)
      BY <2>2 DEF Join
  <2>4. Join(v, <<a>>, u)
      BY <2>1, <2>3, Joined
  <2> HIDE DEF v
  <2>5. Len(u) = N + 3 /\ u[1] = c /\ \A i \in 1..N + 2 : u[1 + i] = rest[i]
      BY <1>17, <2>1, <2>2 DEF Join
  <2>6. IsSequence(v) /\ Len(v) = N + 4 /\ v[1] = a /\ \A i \in 1..N + 3 : v[1 + i] = u[i]
      BY <2>1, <2>4, <2>5 DEF Join
  <2>7. \A i \in 1..Len(v) : script[i] = v[i]
    <3> TAKE i \in 1..Len(v)
    <3>1. CASE i = 1
        BY <1>15, <2>6, <3>1 DEF a
    <3>2. CASE i = 2
        BY <2>5, <2>6, <1>15, <3>2 DEF c
    <3>3. CASE i # 1 /\ i # 2
      <4>1. i - 1 \in 1..N + 3 /\ i - 2 \in 1..N + 2 /\ 1 + (i - 1) = i /\ 1 + (i - 2) = i - 1 /\ (i - 2) + 2 = i
          BY <2>6, <3>3
      <4>3. u[1 + (i - 2)] = rest[i - 2]
          BY <2>5, <4>1
      <4>4. rest[i - 2] = script[(i - 2) + 2]
          BY <1>16, <4>1
      <4> QED BY <4>1, <4>3, <4>4, <2>6
    <3> QED BY <3>1, <3>2, <3>3
  <2>8. script = v
      BY <1>14, <2>6, <2>7, SameSequence
  <2> QED BY <2>8 DEF v, u, a, c
<1>19. /\ \A j \in 1..N : rest[j] = [file |-> file, write |-> RecordWrite(Sample, j)]
       /\ rest[N + 1] = [file |-> file, write |-> WriteAt(b, index)]
       /\ rest[N + 2] = [file |-> file, write |-> w3]
  <2>1. ASSUME NEW j \in 1..N PROVE rest[j] = [file |-> file, write |-> RecordWrite(Sample, j)]
    <3>1. j \in 1..N + 2 /\ j + 2 \in 1..N + 2 /\ j + 2 \in 1..N + 4
        OBVIOUS
    <3> QED BY <1>12, <1>13, <1>14, <1>16, <3>1
  <2>2. N + 1 \in 1..N + 2 /\ N + 2 \in 1..N + 2 /\ (N + 1) + 2 = N + 3 /\ (N + 2) + 2 = N + 4
        /\ N + 3 \in 1..N + 4 /\ N + 4 \in 1..N + 4
      OBVIOUS
  <2>3. rest[N + 1] = script[N + 3] /\ rest[N + 2] = script[N + 4]
      BY <1>16, <2>2
  <2> HIDE DEF w3
  <2> QED BY <1>13, <1>14, <2>1, <2>2, <2>3
<1>20. /\ \A j \in 1..N : rest[j].write.at = OffsetOf(Sample, j) /\ rest[j].write.cells = RecordCells(Sample[j])
       /\ rest[N + 1].write.at = b /\ rest[N + 1].write.cells = index
  <2>1. ASSUME NEW j \in 1..N
        PROVE  rest[j].write.at = OffsetOf(Sample, j) /\ rest[j].write.cells = RecordCells(Sample[j])
    <3>1. rest[j] = [file |-> file, write |-> RecordWrite(Sample, j)]
        BY <1>19
    <3>2. rest[j].write = RecordWrite(Sample, j)
        BY <3>1
    <3>3. rest[j].write = [op |-> "at", at |-> OffsetOf(Sample, j), cells |-> RecordCells(Sample[j])]
        BY <3>2, Zenon DEF RecordWrite, WriteAt
    <3> QED BY <3>3
  <2>2. rest[N + 1].write = WriteAt(b, index)
      BY <1>19
  <2>3. rest[N + 1].write = [op |-> "at", at |-> b, cells |-> index]
      BY <2>2, Zenon DEF WriteAt
  <2> QED BY <2>1, <2>3
<1>21. \A j \in 1..N + 1 : Place(rest, goal, j) = OffsetOf(Sample, j)
  <2> TAKE j \in 1..N + 1
  <2> QED BY <1>5, <1>20, <1>17 DEF Place
<1>23. \A j \in 1..N : IsPiece(rest, file, goal, j)
  <2> TAKE j \in 1..N
  <2> DEFINE R == RecordCells(Sample[j])
  <2>1. rest[j] = [file |-> file, write |-> WriteAt(OffsetOf(Sample, j), R)]
      BY <1>19 DEF RecordWrite
  <2>2. rest[j].write.at = OffsetOf(Sample, j) /\ rest[j].write.cells = R
      BY <1>20
  <2>3. IsSequence(R) /\ Len(R) \in 1..3
      BY CellsOfRecord
  <2>6. Place(rest, goal, j + 1) = OffsetOf(Sample, j) + Len(R)
      BY <1>21, OffsetDefined
  <2>7. ASSUME NEW i \in 1..Len(R)
        PROVE  goal[OffsetOf(Sample, j) + i] = R[i] /\ OffsetOf(Sample, j) \in Nat
      BY <1>5, RecordPlace, <1>8, <1>10 DEF Laid, LaidOne
  <2>8. OffsetOf(Sample, j) \in Nat
      BY <2>3, <2>7
  <2> HIDE DEF R
  <2> QED BY <2>1, <2>2, <2>3, <2>6, <2>7, <2>8 DEF IsPiece
<1>24. IsPiece(rest, file, goal, N + 1)
    BY <1>6, <1>10, <1>19, <1>20, <1>17 DEF IsPiece, Place
<1>25. Place(rest, goal, 1) = 1
    BY <1>21, OffsetDefined
<1>26. IsSequence(<<Placeholder>>) /\ Agrees(<<Placeholder>>, goal, 1)
  <2> HIDE DEF goal
  <2> QED BY SingleSequence, <1>3, <1>8, <1>10 DEF Agrees
<1>27. Lays(<<Placeholder>>, rest, file, goal, head)
  <2>1. \A j \in 1..Len(rest) - 1 : IsPiece(rest, file, goal, j)
    <3> TAKE j \in 1..Len(rest) - 1
    <3> QED BY <1>23, <1>24, <1>17
  <2> QED BY <1>10, <1>17, <1>19, <1>25, <1>26, <2>1 DEF Lays
<1>28. Len(goal) >= 1
    BY <1>3, <1>10
<1>29. Creates(rest, file, goal, head)
    BY <1>9, <1>25, <1>27, <1>28 DEF Creates, head
<1> QED BY <1>17, <1>18, <1>29 DEF script, writes

-----------------------------------------------------------------------------
(***************************************************************************)
(* The block cipher.                                                       *)
(***************************************************************************)
Block == [1..BLOCK_SIZE -> Bytes]

LEMMA Remainder ==
    ASSUME NEW n \in Nat, NEW m \in Nat \ {0}
    PROVE  n % m \in 0..m - 1
OBVIOUS

\* sbox_inv undoes sbox (crypto.c:82-98).
LEMMA SboxIs ==
    ASSUME NEW v \in Bytes
    PROVE  Sbox(v) \in Bytes /\ SboxInv(v) \in Bytes /\ SboxInv(Sbox(v)) = v
<1> DEFINE w == v * SBOX[1] + SBOX[2]
<1>1. SBOX[1] \in Nat /\ SBOX[2] \in Nat /\ SBOX[3] \in Bytes
    BY KeyAssumption
<1>2. v \in Nat /\ BYTES \in Nat \ {0}
    BY CipherAssumption DEF Bytes
<1>3. w \in Nat
    BY <1>1, <1>2
<1> HIDE DEF w
<1>4. w % BYTES \in Bytes
    BY <1>2, <1>3, Remainder DEF Bytes
<1>5. Sbox(v) \in Bytes
    BY <1>1, <1>4, KeyAssumption DEF Sbox, w
<1>6. \A u \in Bytes : \E i \in Bytes : Sbox(i) = u /\ \A j \in Bytes : Sbox(j) = u => j = i
    BY SboxAssumption
<1>9. SboxInv(Sbox(v)) \in Bytes /\ Sbox(SboxInv(Sbox(v))) = Sbox(v)
    BY DEF SboxInv
<1> QED BY <1>5, <1>9, <1>6 DEF SboxInv

\* XOR with the same block twice is nothing.
LEMMA XorIs ==
    ASSUME NEW a \in Block, NEW b \in Block
    PROVE  XorSeq(a, b) \in Block /\ XorSeq(XorSeq(a, b), b) = a
<1>1. DOMAIN a = 1..BLOCK_SIZE /\ \A i \in 1..BLOCK_SIZE : a[i] \in Bytes /\ b[i] \in Bytes
    BY DEF Block
<1> DEFINE c == XorSeq(a, b)
<1>3. \A x, y \in Bytes : XOR[x][y] \in Bytes /\ XOR[XOR[x][y]][y] = x
    BY KeyAssumption
<1>4. c \in Block /\ DOMAIN c = 1..BLOCK_SIZE /\ \A i \in 1..BLOCK_SIZE : c[i] = XOR[a[i]][b[i]]
    BY <1>1, <1>3 DEF Block, XorSeq
<1> HIDE DEF c
<1>7. a = [i \in 1..BLOCK_SIZE |-> a[i]]
    BY DEF Block
<1> QED BY <1>4, <1>7, <1>1, <1>3 DEF c, XorSeq

LEMMA BlockIs ==
    ASSUME NEW s \in Block
    PROVE  IsSequence(s) /\ Len(s) = BLOCK_SIZE /\ DOMAIN s = 1..BLOCK_SIZE
BY CipherAssumption, FunctionIs DEF Block

\* The rotations, byte by byte (crypto.c:307-311, 328-338).
LEMMA RotateLeftIs ==
    ASSUME NEW s \in Block
    PROVE  RotateLeft(s) = [i \in 1..BLOCK_SIZE |-> s[IF i = BLOCK_SIZE THEN 1 ELSE i + 1]]
<1>1. PICK b \in Nat \ {0} : b = BLOCK_SIZE
    BY CipherAssumption
<1>2. IsSequence(s) /\ Len(s) = b
    BY <1>1, BlockIs
<1>3. s # <<>>
    BY <1>2, EmptySequence
<1> DEFINE t == Tail(s)
           h == Head(s)
<1>4. h = s[1] /\ IsSequence(t) /\ Len(t) = b - 1 /\ \A i \in 1..b - 1 : t[i] = s[i + 1]
    BY <1>2, <1>3, HeadTail
<1> HIDE DEF t, h
<1>5. IsSequence(<<h>>) /\ Len(<<h>>) = 1 /\ <<h>>[1] = h
    BY SingleSequence
<1> DEFINE u == t \o <<h>>
<1>6. Join(u, t, <<h>>)
    BY <1>4, <1>5, Joined
<1> HIDE DEF u
<1>7. IsSequence(u) /\ Len(u) = b /\ (\A i \in 1..b - 1 : u[i] = s[i + 1]) /\ u[b] = s[1]
    BY <1>4, <1>5, <1>6 DEF Join
<1>8. \A i \in 1..b : u[i] = s[IF i = b THEN 1 ELSE i + 1]
  <2> TAKE i \in 1..b
  <2>1. CASE i = b
      BY <1>7, <2>1
  <2>2. CASE i # b
      BY <1>7, <2>2
  <2> QED BY <2>1, <2>2
<1>10. u = [i \in 1..b |-> s[IF i = b THEN 1 ELSE i + 1]]
    BY <1>8, <1>7 DEF IsSequence
<1> QED BY <1>1, <1>10 DEF RotateLeft, u, t, h

LEMMA RotateRightIs ==
    ASSUME NEW s \in Block
    PROVE  RotateRight(s) = [i \in 1..BLOCK_SIZE |-> s[IF i = 1 THEN BLOCK_SIZE ELSE i - 1]]
<1>1. PICK b \in Nat \ {0} : b = BLOCK_SIZE
    BY CipherAssumption
<1>2. IsSequence(s) /\ Len(s) = b
    BY <1>1, BlockIs
<1> DEFINE n == b - 1
           t == SubSeq(s, 1, n)
           h == s[b]
<1>3. IsSequence(t) /\ Len(t) = n /\ n \in Nat /\ \A i \in 1..n : t[i] = s[i]
    BY <1>2, Beginning
<1> HIDE DEF t, h
<1>5. IsSequence(<<h>>) /\ Len(<<h>>) = 1 /\ <<h>>[1] = h
    BY SingleSequence
<1> DEFINE u == <<h>> \o t
<1>6. Join(u, <<h>>, t)
    BY <1>3, <1>5, Joined
<1> HIDE DEF u
<1>7. IsSequence(u) /\ Len(u) = b /\ u[1] = h /\ \A i \in 1..n : u[1 + i] = s[i]
    BY <1>3, <1>5, <1>6 DEF Join
<1>8. \A i \in 1..b : u[i] = s[IF i = 1 THEN b ELSE i - 1]
  <2> TAKE i \in 1..b
  <2>1. CASE i = 1
      BY <1>7, <2>1 DEF h
  <2>2. CASE i # 1
      BY <2>2, <1>7
  <2> QED BY <2>1, <2>2
<1>10. u = [i \in 1..b |-> s[IF i = 1 THEN b ELSE i - 1]]
    BY <1>8, <1>7 DEF IsSequence
<1>11. RotateRight(s) = <<s[b]>> \o SubSeq(s, 1, b - 1)
    BY <1>2 DEF RotateRight, Front
<1> QED BY <1>1, <1>10, <1>11 DEF u, t, h

\* decrypt_block_ecb turns back what encrypt_block_ecb turned.
LEMMA RotateBack ==
    ASSUME NEW s \in Block
    PROVE  /\ RotateLeft(s) \in Block /\ RotateRight(s) \in Block
           /\ RotateRight(RotateLeft(s)) = s
<1>1. BLOCK_SIZE \in Nat \ {0}
    BY CipherAssumption
<1> DEFINE l == RotateLeft(s)
<1>6. l \in Block /\ \A i \in 1..BLOCK_SIZE : l[i] = s[IF i = BLOCK_SIZE THEN 1 ELSE i + 1]
    BY RotateLeftIs, <1>1 DEF Block
<1>7. RotateRight(s) \in Block
    BY RotateRightIs, <1>1 DEF Block
<1> HIDE DEF l
<1>9. \A i \in 1..BLOCK_SIZE : l[IF i = 1 THEN BLOCK_SIZE ELSE i - 1] = s[i]
  <2> TAKE i \in 1..BLOCK_SIZE
  <2>1. CASE i = 1
      BY <1>1, <1>6, <2>1
  <2>2. CASE i # 1
      BY <1>1, <2>2, <1>6
  <2> QED BY <2>1, <2>2
<1>10. s = [i \in 1..BLOCK_SIZE |-> s[i]]
    BY DEF Block
<1>11. RotateRight(l) = s
    BY <1>9, <1>10, <1>6, RotateRightIs
<1> QED BY <1>6, <1>7, <1>11 DEF l

Context == [0..RK_LEN + BLOCK_SIZE - 1 -> Bytes]

\* A round of expand_key stays within the context and the block behind it.
LEMMA ExpandedIs ==
    ASSUME NEW rk \in Context, NEW n \in Nat
    PROVE  Expanded(rk, n) \in Context
<1>1. BLOCK_SIZE \in Nat \ {0} /\ RK_LEN \in Nat \ {0} /\ BYTES \in Nat \ {0}
    BY CipherAssumption
<1> DEFINE r == n \div BLOCK_SIZE
           i == n % BLOCK_SIZE
           d == Dst(r)
           s == Src(r)
           p == (d + i - 1 + RK_LEN) % RK_LEN
           c == (r + 1) % BYTES
<1>2. r \in Nat
    BY <1>1
<1>3. i \in 0..BLOCK_SIZE - 1
    BY <1>1, Remainder
<1> HIDE DEF r, i
<1>4. (r + 2) * BLOCK_SIZE \in Nat /\ (r + 1) * BLOCK_SIZE \in Nat /\ r + 1 \in Nat
    BY <1>1, <1>2
<1>5. d \in 0..RK_LEN - 1 /\ s \in 0..RK_LEN - 1
    BY <1>1, <1>4, Remainder DEF Dst, Src
<1> HIDE DEF d, s
<1>7. p \in 0..RK_LEN - 1
    BY <1>1, Remainder, <1>3, <1>5
<1>8. c \in Bytes
    BY <1>1, <1>4, Remainder DEF Bytes
<1> HIDE DEF p, c
<1>10. rk[s + i] \in Bytes /\ rk[p] \in Bytes
    BY <1>1, <1>3, <1>5, <1>7 DEF Context
<1> DEFINE v == XOR[XOR[Sbox(rk[s + i])][rk[p]]][c]
<1>13. v \in Bytes
    BY <1>8, <1>10, SboxIs, KeyAssumption
<1>14. Expanded(rk, n) = [rk EXCEPT ![d + i] = v]
    BY DEF Expanded, v, d, s, p, c, r, i
<1> HIDE DEF v
<1> QED BY <1>13, <1>14 DEF Context

\* expand_key stays in its context and leaves bytes there (crypto.c:265-288).
LEMMA ExpandKeyIs ==
    ASSUME NEW raw \in [1..2 * BLOCK_SIZE -> Bytes]
    PROVE  ExpandKey(raw) \in Context
<1>1. /\ BLOCK_SIZE \in Nat \ {0} /\ RK_LEN \in Nat /\ RK_LEN >= 2 * BLOCK_SIZE
      /\ NUM_ROUNDS \in Nat /\ BYTES \in Nat \ {0}
    BY CipherAssumption
<1>2. PICK N \in Nat : N = NUM_ROUNDS * BLOCK_SIZE
    BY <1>1
<1> DEFINE a == [i \in 0..RK_LEN + BLOCK_SIZE - 1 |-> IF i < 2 * BLOCK_SIZE THEN raw[i + 1] ELSE 0]
           step == [n \in 1..N |-> [rk \in Context |-> Expanded(rk, n - 1)]]
           Keys(f) == f = [n \in 0..N |-> IF n = 0 THEN a ELSE Expanded(f[n - 1], n - 1)]
<1>3. a \in Context
  <2>1. 0 \in Bytes
      BY <1>1 DEF Bytes
  <2>2. \A i \in 0..RK_LEN + BLOCK_SIZE - 1 : (IF i < 2 * BLOCK_SIZE THEN raw[i + 1] ELSE 0) \in Bytes
    <3> TAKE i \in 0..RK_LEN + BLOCK_SIZE - 1
    <3>1. CASE i < 2 * BLOCK_SIZE
        BY <1>1, <3>1
    <3>2. CASE ~(i < 2 * BLOCK_SIZE)
        BY <2>1, <3>2
    <3> QED BY <3>1, <3>2
  <2> QED BY <2>2 DEF Context
<1>4. step \in [1..N -> [Context -> Context]]
  <2>1. \A n \in 1..N : \A rk \in Context : Expanded(rk, n - 1) \in Context
    <3> TAKE n \in 1..N
    <3> QED BY ExpandedIs
  <2> QED BY <2>1
<1>5. \A n \in 1..N : \A rk \in Context : step[n][rk] = Expanded(rk, n - 1)
    OBVIOUS
<1> HIDE DEF a, step
<1>6. PICK f : Recursive(f, N, Context, a, step)
    BY <1>3, <1>4, Recursion, Zenon
<1>7. Keys(f)
    BY <1>6, <1>5 DEF Recursive
<1> DEFINE g == CHOOSE g : Keys(g)
<1>8. Keys(g)
    BY <1>7
<1>9. ExpandKey(raw) = g[N]
    BY <1>2 DEF ExpandKey, a
<1> HIDE DEF g
<1>10. \A n \in 0..N : g[n] = IF n = 0 THEN a ELSE Expanded(g[n - 1], n - 1)
    BY <1>8
<1> DEFINE T == {n \in Nat : n <= N => g[n] \in Context}
<1>11. 0 \in T
    BY <1>3, <1>10
<1>12. \A n \in T : n + 1 \in T
  <2> SUFFICES ASSUME NEW n \in T, n + 1 <= N PROVE g[n + 1] \in Context
      OBVIOUS
  <2> QED BY ExpandedIs, <1>10
<1>13. T = Nat
  <2> HIDE DEF T
  <2> QED BY <1>11, <1>12, Induction DEF T
<1> QED BY <1>9, <1>13

LEMMA RoundKeysAre ==
    ASSUME NEW key \in DOMAIN HashOf
    PROVE  RoundKeys[key] \in Context
BY KeyAssumption, ExpandKeyIs DEF RoundKeys

LEMMA RoundKeyIs ==
    ASSUME NEW rk \in Context, NEW r \in Nat
    PROVE  RoundKey(rk, r) \in Block
<1>1. BLOCK_SIZE \in Nat \ {0} /\ RK_LEN \in Nat \ {0}
    BY CipherAssumption
<1>2. PICK p \in 0..RK_LEN - 1 : p = (r * BLOCK_SIZE) % RK_LEN
    BY <1>1, Remainder
<1>4. \A i \in 1..BLOCK_SIZE : rk[p + i - 1] \in Bytes
    BY <1>1 DEF Context
<1> QED BY <1>4, <1>2 DEF Block, RoundKey

\* A round of decrypt_block_ecb undoes that of encrypt_block_ecb.
LEMMA RoundIs ==
    ASSUME NEW rk \in Context, NEW r \in Nat, NEW s \in Block
    PROVE  /\ Round(rk, s, r) \in Block /\ Unround(rk, s, r) \in Block
           /\ Unround(rk, Round(rk, s, r), r) = s
<1> DEFINE k == RoundKey(rk, r)
           b == [i \in 1..BLOCK_SIZE |-> Sbox(s[i])]
           e == XorSeq(RotateLeft(b), k)
<1>1. k \in Block
    BY RoundKeyIs
<1>2. DOMAIN s = 1..BLOCK_SIZE /\ \A i \in 1..BLOCK_SIZE : s[i] \in Bytes
    BY DEF Block
<1>3. b \in Block
    BY <1>2, SboxIs DEF Block
<1>4. \A i \in 1..BLOCK_SIZE : b[i] = Sbox(s[i])
    OBVIOUS
<1>5. Round(rk, s, r) = e
    BY <1>2 DEF Round
<1> HIDE DEF k, b
<1>6. RotateLeft(b) \in Block /\ RotateRight(RotateLeft(b)) = b
    BY <1>3, RotateBack
<1>7. e \in Block /\ XorSeq(e, k) = RotateLeft(b)
    BY <1>1, <1>6, XorIs
<1> HIDE DEF e
<1>8. ASSUME NEW u \in Block
      PROVE  /\ Unround(rk, u, r) \in Block
             /\ Unround(rk, u, r) = [i \in 1..BLOCK_SIZE |-> SboxInv(RotateRight(XorSeq(u, k))[i])]
  <2> DEFINE t == RotateRight(XorSeq(u, k))
  <2>1. t \in Block
      BY <1>1, XorIs, RotateBack
  <2>2. DOMAIN t = 1..BLOCK_SIZE /\ \A i \in 1..BLOCK_SIZE : t[i] \in Bytes
      BY <2>1 DEF Block
  <2>3. Unround(rk, u, r) = [i \in DOMAIN t |-> SboxInv(t[i])]
      BY DEF Unround, k
  <2> HIDE DEF t
  <2> QED BY <2>2, SboxIs, <2>3 DEF t, Block
<1>11. s = [i \in 1..BLOCK_SIZE |-> s[i]]
    BY DEF Block
<1>12. Unround(rk, e, r) = s
    BY <1>11, <1>6, <1>7, <1>8, <1>2, <1>4, SboxIs
<1> QED BY <1>5, <1>7, <1>8, <1>12

\* The rounds of a block, one after the other.
Rounds(f, rk, in) ==
    /\ f \in [0..NUM_ROUNDS -> Block] /\ f[0] = in
    /\ \A n \in 1..NUM_ROUNDS : f[n] = Round(rk, f[n - 1], n - 1)

\* encrypt_block_ecb, round by round (crypto.c:294-319),
LEMMA EncryptBlockIs ==
    ASSUME NEW rk \in Context, NEW in \in Block
    PROVE  \E f : Rounds(f, rk, in) /\ EncryptBlock(rk, in) = f[NUM_ROUNDS]
<1>1. PICK N \in Nat : N = NUM_ROUNDS
    BY CipherAssumption
<1> DEFINE step == [n \in 1..N |-> [s \in Block |-> Round(rk, s, n - 1)]]
           Is(f) == f = [n \in 0..N |-> IF n = 0 THEN in ELSE Round(rk, f[n - 1], n - 1)]
<1>2. step \in [1..N -> [Block -> Block]]
  <2>1. \A n \in 1..N : \A s \in Block : Round(rk, s, n - 1) \in Block
    <3> TAKE n \in 1..N
    <3> QED BY RoundIs
  <2> QED BY <2>1
<1>3. \A n \in 1..N : \A s \in Block : step[n][s] = Round(rk, s, n - 1)
    OBVIOUS
<1> HIDE DEF step
<1>4. PICK f : Recursive(f, N, Block, in, step)
    BY <1>2, Recursion, Zenon
<1>5. Is(f)
    BY <1>4, <1>3 DEF Recursive
<1> DEFINE g == CHOOSE g : Is(g)
<1>6. Is(g)
    BY <1>5
<1>7. EncryptBlock(rk, in) = g[N]
    BY <1>1 DEF EncryptBlock
<1> HIDE DEF g
<1>8. \A n \in 0..N : g[n] = IF n = 0 THEN in ELSE Round(rk, g[n - 1], n - 1)
    BY <1>6
<1> DEFINE T == {n \in Nat : n <= N => g[n] \in Block}
<1>9. 0 \in T
    BY <1>8
<1>10. \A n \in T : n + 1 \in T
  <2> SUFFICES ASSUME NEW n \in T, n + 1 <= N PROVE g[n + 1] \in Block
      OBVIOUS
  <2> QED BY RoundIs, <1>8
<1>11. T = Nat
  <2> HIDE DEF T
  <2> QED BY <1>9, <1>10, Induction DEF T
<1>12. g \in [0..N -> Block]
  <2>2. \A n \in 0..N : g[n] \in Block
      BY <1>11
  <2> QED BY <2>2, <1>6
<1> QED BY <1>1, <1>7, <1>12, <1>8 DEF Rounds

LEMMA EncryptBlockType ==
    ASSUME NEW rk \in Context, NEW in \in Block
    PROVE  EncryptBlock(rk, in) \in Block
BY EncryptBlockIs, CipherAssumption DEF Rounds

\* The rounds of decrypt_block_ecb: in the opposite order.
Unrounds(f, rk, in) ==
    /\ f \in [0..NUM_ROUNDS -> Block] /\ f[0] = in
    /\ \A n \in 1..NUM_ROUNDS : f[n] = Unround(rk, f[n - 1], NUM_ROUNDS - n)

\* and decrypt_block_ecb (crypto.c:321-346).
LEMMA DecryptBlockIs ==
    ASSUME NEW rk \in Context, NEW in \in Block
    PROVE  \E f : Unrounds(f, rk, in) /\ DecryptBlock(rk, in) = f[NUM_ROUNDS]
<1>1. PICK N \in Nat : N = NUM_ROUNDS
    BY CipherAssumption
<1> DEFINE step == [n \in 1..N |-> [s \in Block |-> Unround(rk, s, N - n)]]
           Is(f) == f = [n \in 0..N |-> IF n = 0 THEN in ELSE Unround(rk, f[n - 1], N - n)]
<1>2. step \in [1..N -> [Block -> Block]]
  <2>1. \A n \in 1..N : \A s \in Block : Unround(rk, s, N - n) \in Block
    <3> TAKE n \in 1..N
    <3> QED BY RoundIs
  <2> QED BY <2>1
<1>3. \A n \in 1..N : \A s \in Block : step[n][s] = Unround(rk, s, N - n)
    OBVIOUS
<1> HIDE DEF step
<1>4. PICK f : Recursive(f, N, Block, in, step)
    BY <1>2, Recursion, Zenon
<1>5. Is(f)
  <2>1. f \in [0..N -> Block] /\ f[0] = in /\ \A n \in 1..N : f[n] = step[n][f[n - 1]]
      BY <1>4 DEF Recursive
  <2>3. \A n \in 1..N : f[n] = Unround(rk, f[n - 1], N - n)
      BY <1>3, <2>1
  <2>4. \A n \in 0..N : f[n] = IF n = 0 THEN in ELSE Unround(rk, f[n - 1], N - n)
    <3> TAKE n \in 0..N
    <3> QED BY <2>1, <2>3
  <2> QED BY <2>4, <2>1
<1> DEFINE g == CHOOSE g : Is(g)
<1>6. Is(g)
    BY <1>5
<1>7. DecryptBlock(rk, in) = g[N]
    BY <1>1 DEF DecryptBlock
<1> HIDE DEF g
<1>8. \A n \in 0..N : g[n] = IF n = 0 THEN in ELSE Unround(rk, g[n - 1], N - n)
    BY <1>6
<1> DEFINE T == {n \in Nat : n <= N => g[n] \in Block}
<1>9. 0 \in T
    BY <1>8
<1>10. \A n \in T : n + 1 \in T
  <2> SUFFICES ASSUME NEW n \in T, n + 1 <= N PROVE g[n + 1] \in Block
      OBVIOUS
  <2> QED BY RoundIs, <1>8
<1>11. T = Nat
  <2> HIDE DEF T
  <2> QED BY <1>9, <1>10, Induction DEF T
<1>12. g \in [0..N -> Block]
  <2>2. \A n \in 0..N : g[n] \in Block
      BY <1>11
  <2> QED BY <2>2, <1>6
<1> QED BY <1>1, <1>7, <1>12, <1>8 DEF Unrounds

\* A block comes back, whatever the round keys are.
LEMMA BlockBack ==
    ASSUME NEW rk \in Context, NEW in \in Block
    PROVE  /\ DecryptBlock(rk, in) \in Block
           /\ DecryptBlock(rk, EncryptBlock(rk, in)) = in
<1>1. PICK N \in Nat : N = NUM_ROUNDS
    BY CipherAssumption
<1>2. PICK e : Rounds(e, rk, in) /\ EncryptBlock(rk, in) = e[N]
    BY <1>1, EncryptBlockIs
<1>3. e \in [0..N -> Block] /\ e[0] = in /\ \A n \in 1..N : e[n] = Round(rk, e[n - 1], n - 1)
    BY <1>1, <1>2 DEF Rounds
<1>4. e[N] \in Block
    BY <1>3
<1>5. PICK d : Unrounds(d, rk, e[N]) /\ DecryptBlock(rk, e[N]) = d[N]
    BY <1>1, <1>4, DecryptBlockIs
<1>6. d[0] = e[N] /\ \A n \in 1..N : d[n] = Unround(rk, d[n - 1], N - n)
    BY <1>1, <1>5 DEF Unrounds
<1> DEFINE T == {n \in Nat : n <= N => d[n] = e[N - n]}
<1>7. 0 \in T
    BY <1>6
<1>8. \A n \in T : n + 1 \in T
  <2> SUFFICES ASSUME NEW n \in T, n + 1 <= N PROVE d[n + 1] = e[N - (n + 1)]
      OBVIOUS
  <2>1. PICK r \in Nat : r = N - (n + 1)
      OBVIOUS
  <2>2. n + 1 \in 1..N /\ (n + 1) - 1 = n /\ N - n \in 1..N /\ (N - n) - 1 = r /\ r \in 0..N
      BY <2>1
  <2>5. e[N - n] = Round(rk, e[r], r) /\ e[r] \in Block
      BY <1>3, <2>2
  <2> QED BY <2>1, <2>5, RoundIs, <1>6, <2>2
<1>9. T = Nat
  <2> HIDE DEF T
  <2> QED BY <1>7, <1>8, Induction DEF T
<1>10. d[N] = e[0]
    BY <1>9
<1> QED BY <1>2, <1>3, <1>5, <1>10, DecryptBlockIs, CipherAssumption DEF Unrounds

\* A number by a divisor: quotient and rest.
LEMMA Divide ==
    ASSUME NEW n \in Int, NEW m \in Nat \ {0}
    PROVE  \E q \in Int, r \in 0..m - 1 : n \div m = q /\ n % m = r /\ n = q * m + r
OBVIOUS

LEMMA NoMultiple ==
    ASSUME NEW d \in Int, NEW m \in Nat \ {0}, -m < d * m, d * m < m
    PROVE  d = 0
OBVIOUS

LEMMA RemainderIs ==
    ASSUME NEW x \in Int, NEW m \in Nat \ {0}, NEW q \in Int, NEW r \in 0..m - 1, x = q * m + r
    PROVE  x % m = r
BY Divide, NoMultiple

\* What the size leaves, when whole blocks have been written: unsigned, and so
\* also when the size itself wrapped.
LEMMA SizeLeaves ==
    ASSUME NEW len \in Nat, NEW F \in Nat, NEW r \in Nat, len = F + r, r < BLOCK_SIZE
    PROVE  ((len % U32) - F) % U32 = r
<1>1. U32 \in Nat \ {0} /\ BLOCK_SIZE < U32 /\ BLOCK_SIZE \in Nat
    BY CipherAssumption
<1>2. PICK q \in Int, s \in 0..U32 - 1 : len % U32 = s /\ len = q * U32 + s
  <2>1. len \in Int
      OBVIOUS
  <2> QED BY <1>1, <2>1, Divide
<1>3. PICK p \in Int : p = -q
    OBVIOUS
<1>5. s - F = p * U32 + r
    BY <1>2, <1>1, <1>3
<1>7. (s - F) % U32 = r
    BY <1>1, <1>5, RemainderIs
<1> QED BY <1>2, <1>7

-----------------------------------------------------------------------------

FullOf(plain) == Len(plain) \div BLOCK_SIZE
RestLen(plain) == Len(plain) % BLOCK_SIZE
CountOf(plain) == FullOf(plain) + (IF RestLen(plain) # 0 \/ FullOf(plain) > 0 THEN 1 ELSE 0)

\* The blocks of a file: the full ones, and one more unless it is empty.
LEMMA CountIs ==
    ASSUME NEW plain \in Seq(Bytes)
    PROVE  /\ FullOf(plain) \in Nat /\ RestLen(plain) \in 0..BLOCK_SIZE - 1
           /\ Len(plain) \in Nat /\ FullOf(plain) * BLOCK_SIZE \in Nat
           /\ Len(plain) = FullOf(plain) * BLOCK_SIZE + RestLen(plain)
           /\ CountOf(plain) \in {FullOf(plain), FullOf(plain) + 1}
           /\ CountOf(plain) = FullOf(plain) => Len(plain) = 0
<1>1. BLOCK_SIZE \in Nat \ {0}
    BY CipherAssumption
<1>2. PICK l \in Nat : l = Len(plain)
    OBVIOUS
<1>3. PICK f \in Int, r \in 0..BLOCK_SIZE - 1 :
         f = l \div BLOCK_SIZE /\ r = l % BLOCK_SIZE /\ l = f * BLOCK_SIZE + r
    BY <1>1, Divide
<1>4. f \in Nat
  <2> SUFFICES ASSUME f <= -1 PROVE FALSE
      OBVIOUS
  <2>1. (-f - 1) * BLOCK_SIZE >= 0
      BY <1>1
  <2>2. (-f - 1) * BLOCK_SIZE = -(f * BLOCK_SIZE) - BLOCK_SIZE
      BY <1>1
  <2>3. f * BLOCK_SIZE \in Int
      BY <1>1
  <2> QED BY <1>1, <1>3, <2>1, <2>2, <2>3
<1>5. f * BLOCK_SIZE \in Nat
    BY <1>1, <1>4
<1>6. FullOf(plain) = f /\ RestLen(plain) = r
    BY <1>2, <1>3 DEF FullOf, RestLen
<1>7. CountOf(plain) = f + (IF r # 0 \/ f > 0 THEN 1 ELSE 0)
    BY <1>6 DEF CountOf
<1>8. r = 0 /\ f = 0 => l = 0
    BY <1>1, <1>3
<1>9. CountOf(plain) \in {f, f + 1} /\ (CountOf(plain) = f => r = 0 /\ f = 0)
    BY <1>4, <1>7
<1> QED BY <1>2, <1>3, <1>4, <1>5, <1>6, <1>8, <1>9

LEMMA ReadBlockIs ==
    ASSUME NEW plain \in Seq(Bytes), NEW n \in Nat \ {0}
    PROVE  /\ ReadBlock(plain, n) \in Block
           /\ \A i \in 1..BLOCK_SIZE : (n - 1) * BLOCK_SIZE + i <= Len(plain) =>
                 ReadBlock(plain, n)[i] = plain[(n - 1) * BLOCK_SIZE + i]
<1>1. BLOCK_SIZE \in Nat \ {0} /\ BYTES \in Nat \ {0}
    BY CipherAssumption
<1>2. PICK p \in Nat : p = (n - 1) * BLOCK_SIZE
    BY <1>1
<1> DEFINE b == [i \in 1..BLOCK_SIZE |-> IF p + i <= Len(plain) THEN plain[p + i] ELSE 0]
<1>3. b \in Block
  <2>1. 0 \in Bytes
      BY <1>1 DEF Bytes
  <2>2. \A i \in 1..BLOCK_SIZE : p + i <= Len(plain) => plain[p + i] \in Bytes
    <3> TAKE i \in 1..BLOCK_SIZE
    <3> HAVE p + i <= Len(plain)
    <3> QED BY <1>1
  <2> QED BY <2>1, <2>2 DEF Block
<1> QED BY <1>2, <1>3 DEF ReadBlock

\* process_encrypt's blocks (crypto.c:421-446).
LEMMA BlocksAre ==
    ASSUME NEW plain \in Seq(Bytes)
    PROVE  /\ IsSequence(Blocks(plain)) /\ Len(Blocks(plain)) = CountOf(plain)
           /\ \A n \in 1..CountOf(plain) : Blocks(plain)[n].in \in Block
           /\ \A n \in 1..FullOf(plain) :
                 Blocks(plain)[n].flags = 0 /\ Blocks(plain)[n].in = ReadBlock(plain, n)
           /\ CountOf(plain) = FullOf(plain) + 1 =>
                 /\ Blocks(plain)[CountOf(plain)].flags = 1
                 /\ RestLen(plain) # 0 =>
                       Blocks(plain)[CountOf(plain)].in = ReadBlock(plain, CountOf(plain))
<1>1. PICK f \in Nat : f = FullOf(plain)
    BY CountIs
<1>2. PICK r \in Nat : r = RestLen(plain)
    BY CountIs
<1> DEFINE k == CountOf(plain)
           a == [n \in 1..f |-> [in |-> ReadBlock(plain, n), flags |-> 0]]
           P == [i \in 1..BLOCK_SIZE |-> BLOCK_SIZE % BYTES]
           rest == [in |-> IF r # 0 THEN ReadBlock(plain, f + 1) ELSE P, flags |-> 1]
           c == IF r # 0 \/ f > 0 THEN <<rest>> ELSE <<>>
           u == a \o c
<1>3. k = f + (IF r # 0 \/ f > 0 THEN 1 ELSE 0)
    BY <1>1, <1>2 DEF CountOf
<1>4. IsSequence(a) /\ Len(a) = f /\ \A n \in 1..f : a[n] = [in |-> ReadBlock(plain, n), flags |-> 0]
  <2>1. a = [n \in 1..f |-> a[n]]
      OBVIOUS
  <2>2. \A n \in 1..f : a[n] = [in |-> ReadBlock(plain, n), flags |-> 0]
      OBVIOUS
  <2> HIDE DEF a
  <2> QED BY <2>1, <2>2, FunctionIs
<1>5. P \in Block
    BY CipherAssumption, Remainder DEF Bytes, Block
<1>6. Blocks(plain) = u
  <2>2. Blocks(plain) = a \o (IF r # 0 THEN <<[in |-> ReadBlock(plain, f + 1), flags |-> 1]>>
                              ELSE IF f > 0 THEN <<[in |-> P, flags |-> 1]>> ELSE <<>>)
      BY <1>1, <1>2 DEF Blocks, FullOf, RestLen
  <2> HIDE DEF a, P
  <2>3. CASE r # 0
      BY <2>2, <2>3
  <2>4. CASE r = 0
      BY <2>2, <2>4
  <2> QED BY <2>3, <2>4
<1>7. /\ ReadBlock(plain, f + 1) \in Block
      /\ \A n \in 1..f : ReadBlock(plain, n) \in Block
    BY ReadBlockIs
<1>8. rest.in \in Block /\ rest.flags = 1 /\ (r # 0 => rest.in = ReadBlock(plain, f + 1))
    BY <1>5, <1>7
<1> HIDE DEF a, P, rest
<1>9. IsSequence(c) /\ Len(c) = k - f /\ (k = f + 1 => c[1] = rest) /\ k \in {f, f + 1}
  <2>1. CASE r # 0 \/ f > 0
    <3> HIDE DEF k
    <3> QED BY SingleSequence, <1>3, <2>1
  <2>2. CASE ~(r # 0 \/ f > 0)
    <3> HIDE DEF k
    <3> QED BY EmptySequence, <1>3, <2>2
  <2> QED BY <2>1, <2>2
<1> HIDE DEF c, k
<1>10. Join(u, a, c)
    BY <1>4, <1>9, Joined
<1> HIDE DEF u
<1>11. /\ IsSequence(u) /\ Len(u) = k /\ (\A n \in 1..f : u[n] = a[n])
       /\ k = f + 1 => u[k] = rest
    BY <1>4, <1>9, <1>10 DEF Join
<1>12. \A n \in 1..k : u[n].in \in Block
  <2> TAKE n \in 1..k
  <2>1. CASE n \in 1..f
      BY <1>4, <1>7, <1>11, <2>1
  <2>2. CASE n = f + 1
      BY <1>8, <1>9, <1>11, <2>2
  <2> QED BY <2>1, <2>2, <1>9
<1>13. \A n \in 1..f : u[n].flags = 0 /\ u[n].in = ReadBlock(plain, n)
    BY <1>4, <1>11
<1>14. k = f + 1 => u[k].flags = 1 /\ (r # 0 => u[k].in = ReadBlock(plain, k))
    BY <1>8, <1>11
<1> QED BY <1>1, <1>2, <1>6, <1>11, <1>12, <1>13, <1>14 DEF k

\* The ciphertext of a file, block by block, behind its initial vector.
Chain(ct, plain, rk, iv) ==
    /\ ct \in [0..CountOf(plain) -> Block] /\ ct[0] = iv
    /\ \A n \in 1..CountOf(plain) :
          ct[n] = EncryptBlock(rk, XorSeq(Blocks(plain)[n].in, ct[n - 1]))

BlockCell(flags, ct) == [kind |-> "block", flags |-> flags, ct |-> ct]

\* Each block of ciphertext is made of the one before (crypto.c:415-446).
LEMMA EncryptedBlocksAre ==
    ASSUME NEW plain \in Seq(Bytes), NEW rk \in Context, NEW iv \in Block
    PROVE  \E ct : /\ Chain(ct, plain, rk, iv)
                   /\ EncryptedBlocks(plain, rk, iv) =
                         [n \in 1..CountOf(plain) |-> BlockCell(Blocks(plain)[n].flags, ct[n])]
<1> DEFINE blocks == Blocks(plain)
<1>1. PICK N \in Nat : N = CountOf(plain)
    BY CountIs
<1>2. Len(blocks) = N /\ \A n \in 1..N : blocks[n].in \in Block
    BY <1>1, BlocksAre
<1> HIDE DEF blocks
<1> DEFINE Chained(n, c) == EncryptBlock(rk, XorSeq(blocks[n].in, c))
           step == [n \in 1..N |-> [c \in Block |-> Chained(n, c)]]
           Is(f) == f = [n \in 0..N |-> IF n = 0 THEN iv ELSE Chained(n, f[n - 1])]
<1>3. \A n \in 1..N : \A c \in Block : Chained(n, c) \in Block
    BY <1>2, XorIs, EncryptBlockType
<1>4. step \in [1..N -> [Block -> Block]]
  <2> HIDE DEF Chained
  <2> QED BY <1>3
<1>5. \A n \in 1..N : \A c \in Block : step[n][c] = Chained(n, c)
    OBVIOUS
<1> HIDE DEF step
<1>6. PICK f : Recursive(f, N, Block, iv, step)
    BY <1>4, Recursion, Zenon
<1>7. Is(f)
  <2> HIDE DEF Chained
  <2>1. f \in [0..N -> Block] /\ f[0] = iv /\ \A n \in 1..N : f[n] = step[n][f[n - 1]]
      BY <1>6 DEF Recursive
  <2>3. \A n \in 1..N : f[n] = Chained(n, f[n - 1])
      BY <1>5, <2>1
  <2> QED BY <2>1, <2>3
<1> DEFINE g == CHOOSE g : Is(g)
<1>8. Is(g)
    BY <1>7
<1>9. EncryptedBlocks(plain, rk, iv) = [n \in 1..N |-> BlockCell(blocks[n].flags, g[n])]
    BY <1>2 DEF EncryptedBlocks, BlockCell, blocks
<1> HIDE DEF g
<1>10. g[0] = iv /\ \A n \in 1..N : g[n] = Chained(n, g[n - 1])
  <2> HIDE DEF Chained
  <2> QED BY <1>8
<1> DEFINE T == {n \in Nat : n <= N => g[n] \in Block}
<1>11. 0 \in T
    BY <1>10
<1>12. \A n \in T : n + 1 \in T
  <2> SUFFICES ASSUME NEW n \in T, n + 1 <= N PROVE g[n + 1] \in Block
      OBVIOUS
  <2> HIDE DEF Chained
  <2> QED BY <1>3, <1>10
<1>13. T = Nat
  <2> HIDE DEF T
  <2> QED BY <1>11, <1>12, Induction DEF T
<1>14. g \in [0..N -> Block]
  <2> HIDE DEF Chained
  <2>2. \A n \in 0..N : g[n] \in Block
      BY <1>13
  <2> QED BY <2>2, <1>8
<1> QED BY <1>1, <1>9, <1>10, <1>14 DEF blocks, Chain

\* A container of the cipher, cell by cell.
Sealed(cells, ct, plain, iv) ==
    /\ IsSequence(cells) /\ Len(cells) = CountOf(plain) + 1
    /\ cells[1] = CrypHeader(Len(plain), iv)
    /\ \A n \in 1..CountOf(plain) : cells[n + 1] = BlockCell(Blocks(plain)[n].flags, ct[n])

\* process_encrypt writes such a container.
LEMMA EncryptedIs ==
    ASSUME NEW plain \in Seq(Bytes), NEW key \in DOMAIN HashOf, NEW iv \in Block
    PROVE  \E ct : Chain(ct, plain, RoundKeys[key], iv) /\ Sealed(Encrypted(plain, key, iv), ct, plain, iv)
<1>2. PICK N \in Nat : N = CountOf(plain)
    BY CountIs
<1> DEFINE t == EncryptedBlocks(plain, RoundKeys[key], iv)
           h == CrypHeader(Len(plain), iv)
           u == <<h>> \o t
<1>3. PICK ct : /\ Chain(ct, plain, RoundKeys[key], iv)
                /\ t = [n \in 1..N |-> BlockCell(Blocks(plain)[n].flags, ct[n])]
  <2> DEFINE rk == RoundKeys[key]
  <2>1. rk \in Context
      BY RoundKeysAre
  <2> HIDE DEF rk
  <2>2. \E ct : /\ Chain(ct, plain, rk, iv)
                /\ EncryptedBlocks(plain, rk, iv) =
                      [n \in 1..CountOf(plain) |-> BlockCell(Blocks(plain)[n].flags, ct[n])]
      BY <2>1, EncryptedBlocksAre, Zenon
  <2> QED BY <1>2, <2>2, Zenon DEF rk
<1> HIDE DEF t, h
<1>4. IsSequence(t) /\ Len(t) = N /\ \A n \in 1..N : t[n] = BlockCell(Blocks(plain)[n].flags, ct[n])
    BY <1>3, FunctionIs
<1>5. IsSequence(<<h>>) /\ Len(<<h>>) = 1 /\ <<h>>[1] = h
    BY SingleSequence
<1>6. Join(u, <<h>>, t)
    BY <1>4, <1>5, Joined
<1> HIDE DEF u
<1>7. IsSequence(u) /\ Len(u) = N + 1 /\ u[1] = h /\ \A n \in 1..N : u[1 + n] = t[n]
    BY <1>4, <1>5, <1>6 DEF Join
<1>8. \A n \in 1..N : u[n + 1] = BlockCell(Blocks(plain)[n].flags, ct[n])
  <2> TAKE n \in 1..N
  <2> QED BY <1>4, <1>7
<1>9. Sealed(u, ct, plain, iv)
    BY <1>2, <1>7, <1>8 DEF Sealed, h
<1> QED BY <1>3, <1>9 DEF Encrypted, u, h, t

-----------------------------------------------------------------------------
\* process_decrypt never takes more than a block (crypto.c:492-499).
LEMMA ToWriteIs ==
    ASSUME NEW hdr, hdr.orig_size \in Nat, NEW flags, NEW written \in Nat
    PROVE  ToWrite(hdr, flags, written) \in 0..BLOCK_SIZE
<1>1. U32 \in Nat \ {0} /\ BLOCK_SIZE \in Nat
    BY CipherAssumption
<1>2. PICK q \in Int, r \in 0..U32 - 1 :
         /\ (hdr.orig_size - written) \div U32 = q /\ (hdr.orig_size - written) % U32 = r
         /\ hdr.orig_size - written = q * U32 + r
  <2>1. hdr.orig_size - written \in Int
      OBVIOUS
  <2> QED BY <1>1, <2>1, Divide
<1>3. ToWrite(hdr, flags, written) = IF flags = 1 /\ r < BLOCK_SIZE THEN r ELSE BLOCK_SIZE
    BY <1>2 DEF ToWrite
<1>4. r \in Nat /\ (r < BLOCK_SIZE => r \in 0..BLOCK_SIZE) /\ BLOCK_SIZE \in 0..BLOCK_SIZE
    BY <1>1
<1>5. CASE flags = 1 /\ r < BLOCK_SIZE
    BY <1>3, <1>4, <1>5
<1>6. CASE ~(flags = 1 /\ r < BLOCK_SIZE)
    BY <1>3, <1>4, <1>6
<1> QED BY <1>5, <1>6

\* How much of the file n blocks give.
Upto(plain, n) == IF n <= FullOf(plain) THEN n * BLOCK_SIZE ELSE Len(plain)

\* All blocks give the file.
LEMMA UptoIs ==
    ASSUME NEW plain \in Seq(Bytes), NEW n \in 0..CountOf(plain)
    PROVE  /\ Upto(plain, n) \in Nat /\ Upto(plain, n) <= Len(plain)
           /\ Upto(plain, 0) = 0
           /\ Upto(plain, CountOf(plain)) = Len(plain)
<1>1. /\ FullOf(plain) \in Nat /\ RestLen(plain) \in 0..BLOCK_SIZE - 1
      /\ Len(plain) \in Nat /\ FullOf(plain) * BLOCK_SIZE \in Nat
      /\ Len(plain) = FullOf(plain) * BLOCK_SIZE + RestLen(plain)
      /\ CountOf(plain) \in {FullOf(plain), FullOf(plain) + 1}
      /\ CountOf(plain) = FullOf(plain) => Len(plain) = 0
    BY CountIs
<1>2. BLOCK_SIZE \in Nat \ {0}
    BY CipherAssumption
<1>3. n \in Nat
    BY <1>1
<1>4. n * BLOCK_SIZE \in Nat
    BY <1>2, <1>3
<1>5. n <= FullOf(plain) => n * BLOCK_SIZE <= FullOf(plain) * BLOCK_SIZE
  <2> SUFFICES ASSUME n <= FullOf(plain) PROVE n * BLOCK_SIZE <= FullOf(plain) * BLOCK_SIZE
      OBVIOUS
  <2>1. PICK d \in Nat : FullOf(plain) = n + d
    <3>1. FullOf(plain) - n \in Nat /\ FullOf(plain) = n + (FullOf(plain) - n)
        BY <1>1, <1>3
    <3> QED BY <3>1
  <2> QED BY <1>4, <2>1, <1>2, <1>3
<1>8. Upto(plain, CountOf(plain)) = Len(plain)
    BY <1>1 DEF Upto
<1> QED BY <1>8, <1>1, <1>4, <1>5, <1>2 DEF Upto

\* What process_decrypt takes of the n-th block.
LEMMA Takes ==
    ASSUME NEW plain \in Seq(Bytes), NEW n \in 1..CountOf(plain), NEW iv
    PROVE  LET t == ToWrite(CrypHeader(Len(plain), iv), Blocks(plain)[n].flags, Upto(plain, n - 1))
           IN  /\ t \in 0..BLOCK_SIZE /\ Upto(plain, n) = Upto(plain, n - 1) + t
               /\ \A i \in 1..t : Blocks(plain)[n].in[i] = plain[Upto(plain, n - 1) + i]
<1>1. /\ FullOf(plain) \in Nat /\ RestLen(plain) \in 0..BLOCK_SIZE - 1
      /\ Len(plain) \in Nat /\ FullOf(plain) * BLOCK_SIZE \in Nat
      /\ Len(plain) = FullOf(plain) * BLOCK_SIZE + RestLen(plain)
      /\ CountOf(plain) \in {FullOf(plain), FullOf(plain) + 1}
    BY CountIs
<1>2. BLOCK_SIZE \in Nat \ {0} /\ U32 \in Nat \ {0}
    BY CipherAssumption
<1>3. PICK k \in Nat : n = k + 1 /\ k = n - 1
    BY <1>1
<1>4. k <= FullOf(plain)
    BY <1>1, <1>3
<1>5. PICK p \in Nat : p = k * BLOCK_SIZE
    BY <1>2
<1>6. Upto(plain, n - 1) = p
    BY <1>3, <1>4, <1>5 DEF Upto
<1>7. (k + 1) * BLOCK_SIZE = p + BLOCK_SIZE
    BY <1>2, <1>5
<1> DEFINE h == CrypHeader(Len(plain), iv)
           b == Blocks(plain)[n]
           t == ToWrite(h, b.flags, p)
<1>8. h.orig_size = Len(plain) % U32
    BY DEF CrypHeader
<1>9. t = IF b.flags = 1 /\ (h.orig_size - p) % U32 < BLOCK_SIZE THEN (h.orig_size - p) % U32 ELSE BLOCK_SIZE
    BY DEF ToWrite
<1> HIDE DEF h, t
<1>10. CASE n \in 1..FullOf(plain)
  <2>1. b.flags = 0 /\ b.in = ReadBlock(plain, n)
      BY <1>10, BlocksAre
  <2>2. t = BLOCK_SIZE
      BY <1>9, <2>1
  <2>3. Upto(plain, n) = p + BLOCK_SIZE
      BY <1>3, <1>7, <1>10 DEF Upto
  <2>4. p + BLOCK_SIZE <= Len(plain)
    <3>1. Upto(plain, n) <= Len(plain)
      <4>1. n \in 0..CountOf(plain)
          BY <1>1
      <4> QED BY <4>1, UptoIs
    <3> QED BY <2>3, <3>1
  <2>5. \A i \in 1..BLOCK_SIZE : b.in[i] = plain[p + i]
    <3> TAKE i \in 1..BLOCK_SIZE
    <3>1. (n - 1) * BLOCK_SIZE + i <= Len(plain) /\ (n - 1) * BLOCK_SIZE = p /\ n \in Nat \ {0}
        BY <1>1, <1>2, <1>3, <1>5, <2>4
    <3> QED BY <2>1, <3>1, ReadBlockIs
  <2>6. t \in 0..BLOCK_SIZE
      BY <1>2, <2>2
  <2> QED BY <1>6, <2>2, <2>3, <2>5, <2>6 DEF t, h, b
<1>11. CASE n = FullOf(plain) + 1 /\ CountOf(plain) = FullOf(plain) + 1
  <2>1. b.flags = 1 /\ (RestLen(plain) # 0 => b.in = ReadBlock(plain, n))
      BY <1>11, BlocksAre
  <2>2. k = FullOf(plain)
      BY <1>1, <1>3, <1>11
  <2>3. Len(plain) = p + RestLen(plain) /\ RestLen(plain) \in Nat /\ RestLen(plain) < BLOCK_SIZE
      BY <1>1, <1>2, <1>5, <2>2
  <2>4. (h.orig_size - p) % U32 = RestLen(plain)
      BY <1>1, <1>8, <2>3, SizeLeaves
  <2>5. t = RestLen(plain)
      BY <1>9, <2>1, <2>3, <2>4
  <2>6. Upto(plain, n) = p + t
      BY <1>1, <1>11, <2>3, <2>5 DEF Upto
  <2>7. \A i \in 1..t : b.in[i] = plain[p + i]
    <3> TAKE i \in 1..t
    <3>1. RestLen(plain) # 0 /\ i \in 1..BLOCK_SIZE /\ p + i <= Len(plain)
        BY <1>1, <1>2, <2>3, <2>5
    <3>2. (n - 1) * BLOCK_SIZE + i <= Len(plain) /\ (n - 1) * BLOCK_SIZE = p /\ n \in Nat \ {0}
        BY <1>1, <1>2, <1>3, <1>5, <3>1
    <3>3. b.in = ReadBlock(plain, n)
        BY <2>1, <3>1
    <3> QED BY <3>1, <3>2, <3>3, ReadBlockIs
  <2>8. t \in 0..BLOCK_SIZE
      BY <1>1, <1>2, <2>5
  <2> QED BY <1>6, <2>6, <2>7, <2>8 DEF t, h, b
<1> QED BY <1>1, <1>10, <1>11

\* A beginning of a sequence, with what follows it there.
LEMMA SliceGrows ==
    ASSUME NEW s, IsSequence(s), NEW p \in Nat, NEW t \in Nat, p + t <= Len(s),
           NEW b, IsSequence(b), t <= Len(b), \A i \in 1..t : b[i] = s[p + i]
    PROVE  SubSeq(s, 1, p) \o SubSeq(b, 1, t) = SubSeq(s, 1, p + t)
<1> DEFINE u == SubSeq(s, 1, p)
           v == SubSeq(b, 1, t)
           w == SubSeq(s, 1, p + t)
           j == u \o v
<1>1. Len(s) \in Nat /\ Len(b) \in Nat /\ p <= Len(s)
    BY DEF IsSequence
<1>2. IsSequence(u) /\ Len(u) = p /\ \A i \in 1..p : u[i] = s[i]
    BY <1>1, Beginning
<1>3. IsSequence(v) /\ Len(v) = t /\ \A i \in 1..t : v[i] = b[i]
    BY <1>1, Beginning
<1>4. IsSequence(w) /\ Len(w) = p + t /\ \A i \in 1..p + t : w[i] = s[i]
    BY Beginning
<1> HIDE DEF u, v, w
<1>5. Join(j, u, v)
    BY <1>2, <1>3, Joined
<1> HIDE DEF j
<1>6. /\ IsSequence(j) /\ Len(j) = p + t /\ (\A i \in 1..p : j[i] = u[i])
      /\ \A i \in 1..t : j[p + i] = v[i]
    BY <1>2, <1>3, <1>5 DEF Join
<1>7. \A i \in 1..p + t : j[i] = w[i]
  <2> TAKE i \in 1..p + t
  <2>1. CASE i \in 1..p
      BY <1>2, <1>4, <1>6, <2>1
  <2>2. CASE i \notin 1..p
    <3>1. PICK k \in 1..t : i = p + k
        BY <2>2
    <3> QED BY <1>3, <1>4, <1>6, <3>1, ZenonT(30)
  <2> QED BY <2>1, <2>2
<1>8. j = w
    BY <1>4, <1>6, <1>7, SameSequence
<1> QED BY <1>8 DEF j, u, v, w

LEMMA BeginningOfBytes ==
    ASSUME NEW b \in Block, NEW t \in 0..BLOCK_SIZE, NEW s \in Seq(Bytes)
    PROVE  s \o SubSeq(b, 1, t) \in Seq(Bytes)
<1>1. BLOCK_SIZE \in Nat
    BY CipherAssumption
<1> DEFINE v == SubSeq(b, 1, t)
<1>3. IsSequence(v) /\ Len(v) = t /\ \A i \in 1..t : v[i] = b[i]
    BY <1>1, Beginning, BlockIs
<1> HIDE DEF v
<1>6. v \in Seq(Bytes)
    BY <1>1, <1>3 DEF Block, IsSequence
<1> QED BY <1>6 DEF v

\* What process_decrypt makes of the n-th block.
Undone(cells, key, n) ==
    XorSeq(DecryptBlock(RoundKeys[key], cells[n + 1].ct), IF n = 1 THEN cells[1].iv ELSE cells[n].ct)

\* With the key of the container it is the block that was read (crypto.c:471-491),
UndoneAs(cells, plain, key, other, iv, n) ==
    /\ n \in 1..CountOf(plain)
    /\ Undone(cells, other, n) \in Block
    /\ other = key => Undone(cells, other, n) = Blocks(plain)[n].in
    /\ cells[1] = CrypHeader(Len(plain), iv) /\ cells[n + 1].flags = Blocks(plain)[n].flags

\* also in a beginning of it.
LEMMA UndoneIs ==
    ASSUME NEW plain \in Seq(Bytes), NEW key \in DOMAIN HashOf, NEW other \in DOMAIN HashOf,
           NEW iv \in Block, NEW ct, Chain(ct, plain, RoundKeys[key], iv), NEW all,
           Sealed(all, ct, plain, iv), NEW cells, Begins(cells, all), NEW n \in 1..Len(cells) - 1
    PROVE  UndoneAs(cells, plain, key, other, iv, n)
<1>1. PICK N \in Nat : N = CountOf(plain)
  <2>1. FullOf(plain) \in Nat /\ CountOf(plain) \in {FullOf(plain), FullOf(plain) + 1}
      BY CountIs
  <2> QED BY <2>1
<1>2. /\ Len(all) = N + 1 /\ all[1] = CrypHeader(Len(plain), iv)
      /\ \A i \in 1..N : all[i + 1] = BlockCell(Blocks(plain)[i].flags, ct[i])
    BY <1>1 DEF Sealed
<1>3. PICK l \in Nat : l = Len(cells)
    BY DEF Begins, IsSequence
<1>4. l <= N + 1 /\ \A i \in 1..l : cells[i] = all[i]
    BY <1>2, <1>3 DEF Begins
<1>5. n \in 1..N /\ n + 1 \in 1..l /\ n \in 1..l /\ 1 \in 1..l
    BY <1>3, <1>4
<1>6. cells[n + 1] = BlockCell(Blocks(plain)[n].flags, ct[n]) /\ cells[1] = CrypHeader(Len(plain), iv)
    BY <1>2, <1>4, <1>5
<1>7. cells[n + 1].ct = ct[n] /\ cells[n + 1].flags = Blocks(plain)[n].flags
    BY <1>6 DEF BlockCell
<1>8. ct \in [0..N -> Block] /\ ct[0] = iv
      /\ ct[n] = EncryptBlock(RoundKeys[key], XorSeq(Blocks(plain)[n].in, ct[n - 1]))
    BY <1>1, <1>5 DEF Chain
<1>9. (IF n = 1 THEN cells[1].iv ELSE cells[n].ct) = ct[n - 1]
  <2>1. CASE n = 1
    <3>1. cells[1].iv = iv /\ n - 1 = 0
        BY <1>6, <2>1 DEF CrypHeader
    <3> QED BY <1>8, <2>1, <3>1
  <2>2. CASE n # 1
    <3>1. PICK m \in 1..N : m = n - 1 /\ m + 1 = n
        BY <1>5, <2>2
    <3>2. cells[n] = BlockCell(Blocks(plain)[m].flags, ct[m])
        BY <1>2, <1>4, <1>5, <3>1
    <3>3. cells[n].ct = ct[m]
        BY <3>2 DEF BlockCell
    <3> QED BY <2>2, <3>1, <3>3
  <2> QED BY <2>1, <2>2
<1> DEFINE rk == RoundKeys[key]
           ok == RoundKeys[other]
           b == Blocks(plain)[n].in
           x == XorSeq(b, ct[n - 1])
<1>10. rk \in Context /\ ok \in Context
    BY RoundKeysAre
<1>11. b \in Block
    BY <1>1, <1>5, BlocksAre
<1>12. ct[n - 1] \in Block /\ ct[n] \in Block
  <2>1. n - 1 \in 0..N /\ n \in 0..N
      BY <1>5
  <2> QED BY <1>8, <2>1
<1>13. x \in Block /\ XorSeq(x, ct[n - 1]) = b
    BY <1>11, <1>12, XorIs
<1>14. Undone(cells, other, n) = XorSeq(DecryptBlock(ok, ct[n]), ct[n - 1])
    BY <1>7, <1>9 DEF Undone
<1>15. ct[n] = EncryptBlock(rk, x)
    BY <1>8
<1> HIDE DEF rk, ok, b, x
<1>16. Undone(cells, other, n) \in Block
  <2>1. DecryptBlock(ok, ct[n]) \in Block
      BY <1>10, <1>12, BlockBack
  <2> QED BY <1>12, <1>14, <2>1, XorIs
<1>17. other = key => Undone(cells, other, n) = b
  <2>1. DecryptBlock(rk, EncryptBlock(rk, x)) = x
      BY <1>10, <1>13, BlockBack
  <2>2. other = key => ok = rk
      BY DEF ok, rk
  <2> QED BY <1>13, <1>14, <1>15, <2>1, <2>2
<1>18. n \in 1..CountOf(plain) /\ (other = key => Undone(cells, other, n) = Blocks(plain)[n].in)
    BY <1>1, <1>5, <1>17 DEF b
<1> QED BY <1>6, <1>7, <1>16, <1>18 DEF UndoneAs

\* What process_decrypt gives of a beginning of a container: bytes, and with
\* the key of the container a beginning of what was encrypted.
LEMMA DecryptedIs ==
    ASSUME NEW plain \in Seq(Bytes), NEW key \in DOMAIN HashOf, NEW other \in DOMAIN HashOf,
           NEW iv \in Block, NEW cells, Begins(cells, Encrypted(plain, key, iv)), cells # <<>>
    PROVE  /\ Decrypted(cells, other) \in Seq(Bytes)
           /\ other = key =>
                 \E m \in Nat : /\ m <= Len(plain) /\ Decrypted(cells, other) = SubSeq(plain, 1, m)
                                /\ Len(cells) = Len(Encrypted(plain, key, iv)) => m = Len(plain)
<1> DEFINE all == Encrypted(plain, key, iv)
<1>1. PICK ct : Chain(ct, plain, RoundKeys[key], iv) /\ Sealed(all, ct, plain, iv)
    BY EncryptedIs
<1>2. Begins(cells, all)
    OBVIOUS
<1> HIDE DEF all
<1>3. PICK c \in Nat : c = CountOf(plain)
  <2>1. FullOf(plain) \in Nat /\ CountOf(plain) \in {FullOf(plain), FullOf(plain) + 1}
      BY CountIs
  <2> QED BY <2>1
<1>4. PICK N \in Nat : N = Len(cells) - 1 /\ N <= c /\ (Len(cells) = Len(all) => N = c)
  <2>1. IsSequence(cells) /\ Len(cells) <= Len(all)
      BY <1>2 DEF Begins
  <2>2. Len(cells) \in Nat /\ Len(cells) # 0
      BY <2>1, EmptySequence DEF IsSequence
  <2>3. Len(all) = c + 1
      BY <1>1, <1>3 DEF Sealed
  <2> QED BY <2>1, <2>2, <2>3
<1> DEFINE W(n, s) == ToWrite(cells[1], cells[n + 1].flags, Len(s))
           Put(n, s) == s \o SubSeq(Undone(cells, other, n), 1, W(n, s))
           step == [n \in 1..N |-> [s \in Seq(Bytes) |-> Put(n, s)]]
           Is(f) == f = [n \in 0..N |-> IF n = 0 THEN <<>> ELSE Put(n, f[n - 1])]
<1>5. \A n \in 1..N : /\ n \in 1..c /\ Undone(cells, other, n) \in Block
                      /\ other = key => Undone(cells, other, n) = Blocks(plain)[n].in
                      /\ cells[1] = CrypHeader(Len(plain), iv)
                      /\ cells[n + 1].flags = Blocks(plain)[n].flags
  <2> TAKE n \in 1..N
  <2>1. n \in 1..Len(cells) - 1
      BY <1>4
  <2>2. Chain(ct, plain, RoundKeys[key], iv) /\ Sealed(all, ct, plain, iv) /\ Begins(cells, all)
      BY <1>1, <1>2
  <2>3. UndoneAs(cells, plain, key, other, iv, n)
      BY <2>1, <2>2, UndoneIs, Zenon
  <2> QED BY <1>3, <2>3 DEF UndoneAs
<1>6. \A n \in 1..N : \A s \in Seq(Bytes) : W(n, s) \in 0..BLOCK_SIZE /\ Put(n, s) \in Seq(Bytes)
  <2> TAKE n \in 1..N
  <2> TAKE s \in Seq(Bytes)
  <2>1. cells[1].orig_size \in Nat
    <3>1. cells[1].orig_size = Len(plain) % U32
        BY <1>5 DEF CrypHeader
    <3>2. Len(plain) \in Nat /\ U32 \in Nat \ {0}
        BY CipherAssumption
    <3>3. Len(plain) % U32 \in 0..U32 - 1
        BY <3>2, Remainder
    <3> QED BY <3>1, <3>3
  <2>2. W(n, s) \in 0..BLOCK_SIZE
    <3>1. Len(s) \in Nat
        OBVIOUS
    <3> QED BY <2>1, <3>1, ToWriteIs
  <2> HIDE DEF W
  <2>3. Put(n, s) \in Seq(Bytes)
      BY <1>5, <2>2, BeginningOfBytes
  <2> QED BY <2>2, <2>3
<1>7. step \in [1..N -> [Seq(Bytes) -> Seq(Bytes)]]
  <2> HIDE DEF Put
  <2> QED BY <1>6
<1>8. \A n \in 1..N : \A s \in Seq(Bytes) : step[n][s] = Put(n, s)
    OBVIOUS
<1> HIDE DEF step
<1>9. <<>> \in Seq(Bytes)
    OBVIOUS
<1>10. PICK f : Recursive(f, N, Seq(Bytes), <<>>, step)
    BY <1>7, <1>9, Recursion, Zenon
<1>11. Is(f)
  <2> HIDE DEF Put
  <2>1. f \in [0..N -> Seq(Bytes)] /\ f[0] = <<>> /\ \A n \in 1..N : f[n] = step[n][f[n - 1]]
      BY <1>10 DEF Recursive
  <2>2. \A n \in 1..N : f[n - 1] \in Seq(Bytes)
      BY <2>1
  <2>3. \A n \in 1..N : f[n] = Put(n, f[n - 1])
      BY <1>8, <2>1, <2>2
  <2>4. \A n \in 0..N : f[n] = IF n = 0 THEN <<>> ELSE Put(n, f[n - 1])
    <3> TAKE n \in 0..N
    <3>1. n = 0 \/ n \in 1..N
        OBVIOUS
    <3> QED BY <2>1, <2>3, <3>1
  <2>5. f = [n \in 0..N |-> f[n]]
      BY <2>1
  <2> QED BY <2>4, <2>5
<1> DEFINE g == CHOOSE g : Is(g)
<1>12. Is(g)
    BY <1>11
<1>13. Decrypted(cells, other) = g[N]
  <2>1. Decrypted(cells, other) =
           LET out[n \in 0..Len(cells) - 1] ==
                   IF n = 0 THEN <<>>
                   ELSE LET before == out[n - 1]
                        IN  before \o SubSeq(Undone(cells, other, n), 1,
                                             ToWrite(cells[1], cells[n + 1].flags, Len(before)))
           IN  out[Len(cells) - 1]
      BY DEF Decrypted, Undone
  <2> QED BY <1>4, <2>1
<1> HIDE DEF g
<1>14. g[0] = <<>> /\ \A n \in 1..N : g[n] = Put(n, g[n - 1])
  <2> HIDE DEF Put
  <2>1. \A n \in 0..N : g[n] = IF n = 0 THEN <<>> ELSE Put(n, g[n - 1])
      BY <1>12
  <2> QED BY <2>1
<1> DEFINE Same2(n) == other = key => g[n] = SubSeq(plain, 1, Upto(plain, n))
           T == {n \in Nat : n <= N => g[n] \in Seq(Bytes) /\ Same2(n)}
<1>15. IsSequence(plain) /\ Len(plain) \in Nat
    BY SequenceOf
<1>16. \A n \in 0..c : Upto(plain, n) \in Nat /\ Upto(plain, n) <= Len(plain)
    BY <1>3, UptoIs
<1>17. 0 \in T
  <2>1. Upto(plain, 0) = 0
    <3>1. 0 \in 0..CountOf(plain)
        BY <1>3
    <3> QED BY <3>1, UptoIs
  <2>2. SubSeq(plain, 1, 0) = <<>>
    <3> DEFINE e == SubSeq(plain, 1, 0)
    <3>1. IsSequence(e) /\ Len(e) = 0
        BY <1>15, Beginning
    <3> HIDE DEF e
    <3>2. e = <<>>
        BY <3>1, EmptySequence
    <3> QED BY <3>2 DEF e
  <2> QED BY <1>9, <1>14, <2>1, <2>2
<1>18. \A n \in T : n + 1 \in T
  <2> SUFFICES ASSUME NEW n \in T, n + 1 <= N PROVE g[n + 1] \in Seq(Bytes) /\ Same2(n + 1)
      OBVIOUS
  <2>1. n \in Nat /\ n + 1 \in 1..N /\ (n + 1) - 1 = n /\ g[n] \in Seq(Bytes) /\ Same2(n)
      OBVIOUS
  <2>2. g[n + 1] = Put(n + 1, g[n])
    <3> HIDE DEF Put
    <3> QED BY <1>14, <2>1
  <2>3. g[n + 1] \in Seq(Bytes)
    <3> HIDE DEF Put
    <3> QED BY <1>6, <2>1, <2>2
  <2>4. ASSUME other = key PROVE g[n + 1] = SubSeq(plain, 1, Upto(plain, n + 1))
    <3> DEFINE p == Upto(plain, n)
               b == Blocks(plain)[n + 1].in
               t == ToWrite(CrypHeader(Len(plain), iv), Blocks(plain)[n + 1].flags, p)
    <3>1. n + 1 \in 1..c /\ n \in 0..c
        BY <1>5, <2>1
    <3>2. p \in Nat /\ p <= Len(plain) /\ Upto(plain, n + 1) <= Len(plain)
      <4>1. n + 1 \in 0..c
          BY <3>1
      <4> QED BY <1>16, <3>1, <4>1
    <3>3. /\ t \in 0..BLOCK_SIZE /\ Upto(plain, n + 1) = p + t
          /\ \A i \in 1..t : b[i] = plain[p + i]
        BY <1>3, <2>1, <3>1, Takes
    <3>4. g[n] = SubSeq(plain, 1, p) /\ Len(g[n]) = p
      <4>1. Len(SubSeq(plain, 1, p)) = p
          BY <1>15, <3>2, Beginning
      <4> QED BY <2>1, <2>4, <4>1
    <3>5. Undone(cells, other, n + 1) = b /\ b \in Block
        BY <1>5, <2>1, <2>4
    <3>6. W(n + 1, g[n]) = t
        BY <1>5, <2>1, <3>4
    <3>7. g[n + 1] = SubSeq(plain, 1, p) \o SubSeq(b, 1, t)
      <4> HIDE DEF W, t, b, p
      <4> QED BY <2>2, <3>4, <3>5, <3>6
    <3> HIDE DEF t, b, p
    <3>8. IsSequence(b) /\ Len(b) = BLOCK_SIZE /\ BLOCK_SIZE \in Nat
        BY <3>5, BlockIs, CipherAssumption
    <3>9. t \in Nat /\ t <= Len(b) /\ p + t <= Len(plain)
        BY <3>2, <3>3, <3>8
    <3>10. SubSeq(plain, 1, p) \o SubSeq(b, 1, t) = SubSeq(plain, 1, p + t)
      <4>1. IsSequence(plain) /\ p \in Nat /\ t \in Nat /\ p + t <= Len(plain)
          BY <1>15, <3>2, <3>9
      <4>2. IsSequence(b) /\ t <= Len(b)
          BY <3>8, <3>9
      <4>3. \A i \in 1..t : b[i] = plain[p + i]
          BY <3>3
      <4> QED BY <4>1, <4>2, <4>3, SliceGrows, ZenonT(30)
    <3>11. Upto(plain, n + 1) = p + t
        BY <3>3
    <3> QED BY <3>7, <3>10, <3>11, Zenon
  <2> QED BY <2>3, <2>4
<1>19. T = Nat
  <2> HIDE DEF T
  <2>1. T \in SUBSET Nat
      BY DEF T
  <2> QED BY <1>17, <1>18, <2>1, Induction
<1>20. g[N] \in Seq(Bytes) /\ Same2(N)
  <2>1. N \in T
      BY <1>19
  <2> QED BY <2>1
<1>21. ASSUME other = key
       PROVE  \E m \in Nat : /\ m <= Len(plain) /\ Decrypted(cells, other) = SubSeq(plain, 1, m)
                             /\ Len(cells) = Len(all) => m = Len(plain)
  <2>1. N \in 0..c
      BY <1>4
  <2>2. Upto(plain, N) \in Nat /\ Upto(plain, N) <= Len(plain)
      BY <1>16, <2>1
  <2>3. N = c => Upto(plain, N) = Len(plain)
      BY <1>3, <2>1, UptoIs
  <2>4. Decrypted(cells, other) = SubSeq(plain, 1, Upto(plain, N))
      BY <1>13, <1>20, <1>21
  <2> QED BY <1>4, <2>2, <2>3, <2>4
<1> QED BY <1>13, <1>20, <1>21 DEF all

-----------------------------------------------------------------------------
(***************************************************************************)
(* CRYPT24 files.                                                          *)
(***************************************************************************)
Blocks24(plain) == (Len(plain) \div BLOCK24) + 1

\* PKCS7: 1 to BLOCK24 bytes that say how many they are.
LEMMA PadIs ==
    ASSUME NEW plain, IsSequence(plain)
    PROVE  \E n \in 1..BLOCK24 : \E full \in Nat :
              /\ Blocks24(plain) = full + 1 /\ full * BLOCK24 \in Nat
              /\ full * BLOCK24 <= Len(plain) /\ (full + 1) * BLOCK24 = Len(plain) + n
              /\ IsSequence(Pad(plain)) /\ Len(Pad(plain)) = Len(plain) + n
              /\ \A i \in 1..Len(plain) : Pad(plain)[i] = plain[i]
              /\ \A i \in 1..n : Pad(plain)[Len(plain) + i] = n
              /\ Len(Pad(plain)) \div BLOCK24 = Blocks24(plain)
<1>1. BLOCK24 \in Nat \ {0}
    BY Crypt24Assumption
<1>2. PICK l \in Nat : l = Len(plain)
    BY DEF IsSequence
<1>3. PICK q \in Int, r \in 0..BLOCK24 - 1 : l \div BLOCK24 = q /\ l % BLOCK24 = r /\ l = q * BLOCK24 + r
    BY <1>1, Divide
<1>4. q \in Nat
  <2> SUFFICES ASSUME q <= -1 PROVE FALSE
      OBVIOUS
  <2>3. q * BLOCK24 \in Int
      BY <1>1
  <2> QED BY <1>1, <1>3, <2>3
<1>5. PICK n \in 1..BLOCK24 : n = BLOCK24 - r
    BY <1>1
<1>6. q * BLOCK24 \in Nat /\ (q + 1) * BLOCK24 = q * BLOCK24 + BLOCK24
    BY <1>1, <1>4
<1>7. q * BLOCK24 <= l /\ (q + 1) * BLOCK24 = l + n
    BY <1>1, <1>3, <1>5, <1>6
<1> DEFINE t == [i \in 1..n |-> n]
           u == plain \o t
<1>8. Pad(plain) = u
    BY <1>2, <1>3, <1>5 DEF Pad
<1>9. IsSequence(t) /\ Len(t) = n /\ \A i \in 1..n : t[i] = n
  <2>1. t = [i \in 1..n |-> t[i]] /\ n \in Nat /\ \A i \in 1..n : t[i] = n
      BY <1>1
  <2> HIDE DEF t
  <2> QED BY <2>1, FunctionIs
<1> HIDE DEF t
<1>10. Join(u, plain, t)
    BY <1>9, Joined
<1> HIDE DEF u
<1>11. /\ IsSequence(u) /\ Len(u) = l + n /\ (\A i \in 1..l : u[i] = plain[i])
       /\ \A i \in 1..n : u[l + i] = n
    BY <1>2, <1>9, <1>10 DEF Join
<1>12. (l + n) \div BLOCK24 = q + 1
    BY <1>1, Divide, <1>4, <1>7, NoMultiple
<1>13. Blocks24(plain) = q + 1
    BY <1>2, <1>3 DEF Blocks24
<1> QED BY <1>2, <1>4, <1>6, <1>7, <1>8, <1>11, <1>12, <1>13

AesCell(key, prev, plain) ==
    [kind |-> "aes", width |-> 16, key |-> key, prev |-> prev, plain |-> plain]

\* The n-th block of a padded file.
Piece24(plain, n) == SubSeq(Pad(plain), (n - 1) * BLOCK24 + 1, n * BLOCK24)

Chain24(ct, plain, key, iv) ==
    \A n \in 1..Blocks24(plain) :
        ct[n] = AesCell(key, IF n = 1 THEN iv ELSE ct[n - 1], Piece24(plain, n))

\* CBC, block by block: each has the one before in it.
LEMMA CbcIs ==
    ASSUME NEW plain, IsSequence(plain), NEW key, NEW iv
    PROVE  /\ IsSequence(CbcEncrypt(plain, key, iv))
           /\ Len(CbcEncrypt(plain, key, iv)) = Blocks24(plain)
           /\ Chain24(CbcEncrypt(plain, key, iv), plain, key, iv)
<1>1. PICK N \in Nat : N = Blocks24(plain) /\ N = Len(Pad(plain)) \div BLOCK24
    BY PadIs
<1> DEFINE Chained(n, c) == AesCell(key, c, Piece24(plain, n))
           Is(k, f) == f = [n \in 0..k |-> IF n = 0 THEN iv ELSE Chained(n, f[n - 1])]
           T == {k \in Nat : \E f : Is(k, f)}
<1>2. 0 \in T
  <2> DEFINE f == [n \in 0..0 |-> iv]
  <2>1. f = [n \in 0..0 |-> IF n = 0 THEN iv ELSE Chained(n, f[n - 1])]
      OBVIOUS
  <2> QED BY <2>1
<1>3. \A k \in T : k + 1 \in T
  <2> HIDE DEF Chained
  <2> TAKE k \in T
  <2>1. PICK f : Is(k, f)
      OBVIOUS
  <2> DEFINE g == [n \in 0..k + 1 |-> IF n = k + 1 THEN Chained(k + 1, f[k]) ELSE f[n]]
  <2>2. k \in Nat
      OBVIOUS
  <2>3. \A n \in 0..k : g[n] = f[n]
      BY <2>2
  <2>4. g[k + 1] = Chained(k + 1, f[k])
      BY <2>2
  <2>5. g = [n \in 0..k + 1 |-> g[n]]
      OBVIOUS
  <2> HIDE DEF g
  <2>6. \A n \in 0..k + 1 : g[n] = IF n = 0 THEN iv ELSE Chained(n, g[n - 1])
    <3> TAKE n \in 0..k + 1
    <3>1. CASE n = k + 1
        BY <2>2, <3>1, <2>3, <2>4
    <3>2. CASE n = 0
        BY <2>1, <2>2, <2>3, <3>2
    <3>3. CASE n # 0 /\ n # k + 1
        BY <2>2, <3>3, <2>1, <2>3
    <3> QED BY <3>1, <3>2, <3>3
  <2>8. k + 1 \in Nat
      BY <2>2
  <2> QED BY <2>8, <2>5, <2>6, ZenonT(30)
<1>4. T = Nat
  <2> HIDE DEF T
  <2> QED BY <1>2, <1>3, Induction DEF T
<1>5. \E f : Is(N, f)
    BY <1>4
<1> DEFINE g == CHOOSE g : Is(N, g)
           c == [n \in 1..N |-> g[n]]
<1>6. Is(N, g)
    BY <1>5
<1>7. CbcEncrypt(plain, key, iv) = c
    BY <1>1 DEF CbcEncrypt, AesCell, Piece24
<1> HIDE DEF g
<1>8. \A n \in 1..N : c[n] = Chained(n, IF n = 1 THEN iv ELSE c[n - 1])
  <2> HIDE DEF Chained
  <2> TAKE n \in 1..N
  <2>1. c[n] = g[n] /\ g[n] = Chained(n, g[n - 1])
      BY <1>6
  <2>2. CASE n = 1
      BY <1>6, <2>2, <2>1
  <2>3. CASE n # 1
      BY <2>3, <2>1
  <2> QED BY <2>2, <2>3
<1>9. IsSequence(c) /\ Len(c) = N
  <2>1. c = [n \in 1..N |-> c[n]]
      OBVIOUS
  <2> HIDE DEF c
  <2> QED BY <2>1, FunctionIs
<1> HIDE DEF c
<1> QED BY <1>1, <1>7, <1>9, <1>8 DEF Chain24

Head24(plain, iv) ==
    <<Field("CRYPT24", 8, 0), Field("major", 1, 1), Field("minor", 1, 0), Field("iv_len", 2, 16),
      Field("iv", 16, iv), Field("original_size", 4, Len(plain))>>

\* A CRYPT24 file, field by field.
Is24(all, ct, plain, iv) ==
    /\ IsSequence(all) /\ Len(all) = Blocks24(plain) + 6
    /\ all[1].kind = "CRYPT24" /\ all[5].val = iv /\ all[6].val = Len(plain)
    /\ \A n \in 1..Blocks24(plain) : all[6 + n] = ct[n]

\* write_encrypted_file writes such a file (crypto.c:216-252).
LEMMA Crypt24Is ==
    ASSUME NEW plain, IsSequence(plain), NEW iv
    PROVE  Is24(Crypt24Cells(plain, iv), CbcEncrypt(plain, CKey, iv), plain, iv)
<1> DEFINE h == Head24(plain, iv)
           ct == CbcEncrypt(plain, CKey, iv)
           u == h \o ct
<1>1. IsSequence(ct) /\ Len(ct) = Blocks24(plain)
    BY CbcIs
<1>2. /\ IsSequence(h) /\ Len(h) = 6
      /\ h[1] = Field("CRYPT24", 8, 0) /\ h[5] = Field("iv", 16, iv)
      /\ h[6] = Field("original_size", 4, Len(plain))
    BY DEF Head24, IsSequence
<1>3. Crypt24Cells(plain, iv) = u
    BY DEF Crypt24Cells, Head24
<1> HIDE DEF h, ct
<1>4. Join(u, h, ct)
    BY <1>1, <1>2, Joined
<1> HIDE DEF u
<1>5. /\ IsSequence(u) /\ Len(u) = Blocks24(plain) + 6 /\ u[1] = h[1] /\ u[5] = h[5] /\ u[6] = h[6]
      /\ \A n \in 1..Blocks24(plain) : u[6 + n] = ct[n]
  <2>1. Blocks24(plain) \in Nat
      BY PadIs
  <2>2. Len(h) = 6 /\ 1 \in 1..6 /\ 5 \in 1..6 /\ 6 \in 1..6
      BY <1>2
  <2> QED BY <1>1, <1>4, <2>1, <2>2 DEF Join
<1>6. h[1].kind = "CRYPT24" /\ h[5].val = iv /\ h[6].val = Len(plain)
    BY <1>2 DEF Field
<1> QED BY <1>3, <1>5, <1>6 DEF ct, Is24

LEMMA NoSize == SizeOf(<<>>) = 0
<1> DEFINE Is(f) == f = [n \in 0..0 |-> IF n = 0 THEN 0 ELSE f[n - 1] + WidthOf(<<>>[n])]
           f == [n \in 0..0 |-> 0]
           g == CHOOSE g : Is(g)
<1>1. Is(f)
    OBVIOUS
<1>2. Is(g)
    BY <1>1
<1>3. Len(<<>>) = 0
    OBVIOUS
<1>4. SizeOf(<<>>) = g[0]
    BY <1>3 DEF SizeOf
<1> HIDE DEF g
<1> QED BY <1>2, <1>4

LEMMA Times ==
    ASSUME NEW a \in Nat, NEW b \in Nat, NEW m \in Nat, a <= b
    PROVE  a * m \in Nat /\ b * m \in Nat /\ a * m <= b * m
OBVIOUS

\* The script opens nothing that is shorter than a header and a block.
LEMMA OpenedLong ==
    ASSUME NEW cells, IsSequence(cells), PyDecrypt(cells).opened
    PROVE  ParsesAsCrypt24(cells) /\ PaddingFits(CbcDecrypt(SubSeq(cells, 7, Len(cells)), PyKey, cells[5].val))
           /\ Len(cells) >= 7 /\ cells[1].kind = "CRYPT24"
<1>1. ParsesAsCrypt24(cells) /\ PaddingFits(CbcDecrypt(SubSeq(cells, 7, Len(cells)), PyKey, cells[5].val))
    BY DEF PyDecrypt
<1>2. PICK l \in Nat : l = Len(cells)
    BY DEF IsSequence
<1>3. l >= 7
  <2> SUFFICES ASSUME l < 7 PROVE FALSE
      OBVIOUS
  <2>1. SubSeq(cells, 7, l) = <<>>
    <3> DEFINE S == {cells[i] : i \in 1..l}
    <3> HIDE DEF S
    <3> QED BY EmptySequence, SequenceOf, <1>2, SequenceIn
  <2> QED BY <1>1, <1>2, <2>1, NoSize DEF ParsesAsCrypt24
<1> QED BY <1>1, <1>2, <1>3 DEF ParsesAsCrypt24

\* The first q blocks of a container, and what the script's decryption makes of them.
PaddedAs(cells, plain, iv, q, ct, padded) ==
    /\ q <= Blocks24(plain) /\ q * BLOCK24 \in Nat
    /\ cells[5].val = iv /\ cells[6].val = Len(plain)
    /\ q = Blocks24(plain) => ct = CbcEncrypt(plain, PyKey, iv)
    /\ IsSequence(padded) /\ Len(padded) = q * BLOCK24 /\ Len(padded) <= Len(Pad(plain))
    /\ \A i \in 1..Len(padded) : padded[i] = Pad(plain)[i]

\* With the key and every predecessor in place, the padded file comes back.
LEMMA PaddedIs ==
    ASSUME NEW plain, IsSequence(plain), NEW iv, NEW cells, Begins(cells, Crypt24Cells(plain, iv)),
           NEW q \in Nat \ {0}, Len(cells) = q + 6
    PROVE  LET ct == SubSeq(cells, 7, Len(cells))
           IN  PaddedAs(cells, plain, iv, q, ct, CbcDecrypt(ct, PyKey, cells[5].val))
<1> DEFINE all == Crypt24Cells(plain, iv)
           whole == CbcEncrypt(plain, CKey, iv)
           ct == SubSeq(cells, 7, q + 6)
           padded == CbcDecrypt(ct, PyKey, iv)
<1>0. BLOCK24 \in Nat \ {0}
    BY Crypt24Assumption
<1>1. PICK N \in Nat : N = Blocks24(plain)
    BY PadIs
<1>2. /\ IsSequence(all) /\ Len(all) = N + 6
      /\ all[1].kind = "CRYPT24" /\ all[5].val = iv /\ all[6].val = Len(plain)
      /\ \A n \in 1..N : all[6 + n] = whole[n]
  <2>1. Is24(all, whole, plain, iv)
      BY Crypt24Is
  <2> HIDE DEF all, whole
  <2> QED BY <1>1, <2>1 DEF Is24
<1>3. Begins(cells, all)
    OBVIOUS
<1>4. IsSequence(whole) /\ Len(whole) = N /\ Chain24(whole, plain, CKey, iv)
    BY <1>1, CbcIs
<1>5. CKey = PyKey
    BY PassphraseAssumption DEF CKey, PyKey
<1> HIDE DEF all, whole
<1>6. q <= N /\ \A i \in 1..q + 6 : cells[i] = all[i]
    BY <1>2, <1>3 DEF Begins
<1>7. cells[5].val = iv /\ cells[6].val = Len(plain)
    BY <1>2, <1>6
<1>8. IsSequence(ct) /\ Len(ct) = q /\ \A n \in 1..q : ct[n] = whole[n]
  <2>1. PICK m \in Nat, e \in Nat : m = 7 /\ e = q + 6
      OBVIOUS
  <2>2. IsSequence(cells) /\ 1 <= m /\ m <= e + 1 /\ e <= Len(cells) /\ e + 1 - m = q
      BY <1>3, <2>1 DEF Begins
  <2>3. /\ IsSequence(SubSeq(cells, m, e)) /\ Len(SubSeq(cells, m, e)) = e + 1 - m
        /\ \A i \in 1..e + 1 - m : SubSeq(cells, m, e)[i] = cells[m + i - 1]
      BY <2>2, Slice
  <2>4. ct = SubSeq(cells, m, e)
      BY <2>1
  <2> HIDE DEF ct
  <2>5. \A n \in 1..q : ct[n] = whole[n]
    <3> TAKE n \in 1..q
    <3> QED BY <1>2, <1>6, <2>2, <2>3, <2>4, <2>1
  <2> QED BY <2>2, <2>3, <2>4, <2>5
<1> HIDE DEF ct
<1>9. q = N => ct = whole
    BY <1>4, <1>8, SameSequence
<1>10. PICK Q \in Nat : Q = q * BLOCK24
    BY <1>0
<1>11. Len(Pad(plain)) = N * BLOCK24 /\ Q <= Len(Pad(plain)) /\ IsSequence(Pad(plain))
  <2>1. PICK n \in 1..BLOCK24, full \in Nat :
           /\ Blocks24(plain) = full + 1 /\ (full + 1) * BLOCK24 = Len(plain) + n
           /\ IsSequence(Pad(plain)) /\ Len(Pad(plain)) = Len(plain) + n
      BY PadIs
  <2> QED BY <1>1, <1>10, <2>1, <1>0, <1>6, Times
<1>12. ASSUME NEW i \in 1..Q
       PROVE  \E n \in 1..q, s \in 1..BLOCK24 :
                 /\ n = ((i - 1) \div BLOCK24) + 1 /\ s = ((i - 1) % BLOCK24) + 1
                 /\ Piece24(plain, n)[s] = Pad(plain)[i]
  <2>1. PICK a \in Int, r \in 0..BLOCK24 - 1 :
           (i - 1) \div BLOCK24 = a /\ (i - 1) % BLOCK24 = r /\ i - 1 = a * BLOCK24 + r
      BY <1>0, Divide
  <2>2. a \in Nat
    <3> SUFFICES ASSUME a <= -1 PROVE FALSE
        OBVIOUS
    <3> QED BY <1>0, <2>1
  <2>3. PICK A \in Nat : A = a * BLOCK24
      BY <1>0, <2>2
  <2>4. a < q
    <3> SUFFICES ASSUME q <= a PROVE FALSE
        BY <2>2
    <3> QED BY <1>10, <2>1, <2>3, <1>0, <2>2, Times
  <2>5. PICK n \in 1..q : n = a + 1 /\ n - 1 = a
      BY <2>2, <2>4
  <2>6. PICK s \in 1..BLOCK24 : s = r + 1
      BY <1>0
  <2>7. PICK e \in Nat : e = n * BLOCK24 /\ e = A + BLOCK24
      BY <1>0, <2>2, <2>3, <2>5
  <2>9. PICK m \in Nat : m = A + 1
      OBVIOUS
  <2>10. 1 <= m /\ m <= e + 1 /\ e + 1 - m = BLOCK24 /\ m + s - 1 = i
      BY <1>0, <2>1, <2>3, <2>6, <2>7, <2>9
  <2>11. \A j \in 1..e + 1 - m : SubSeq(Pad(plain), m, e)[j] = Pad(plain)[m + j - 1]
      BY <1>11, <2>10, Slice, <1>0, Times, <1>10, <2>7
  <2>13. Piece24(plain, n)[s] = Pad(plain)[i]
      BY <2>10, <2>11, <2>3, <2>5, <2>7, <2>9 DEF Piece24
  <2> QED BY <2>1, <2>5, <2>6, <2>13
<1>13. ASSUME NEW n \in 1..q
       PROVE  /\ ct[n].key = PyKey /\ ct[n].prev = (IF n = 1 THEN iv ELSE ct[n - 1])
              /\ ct[n].plain = Piece24(plain, n)
  <2>1. n \in 1..N
      BY <1>6
  <2>3. ct[n].key = CKey /\ ct[n].prev = (IF n = 1 THEN iv ELSE whole[n - 1])
        /\ ct[n].plain = Piece24(plain, n)
      BY <1>1, <1>4, <1>8, <2>1 DEF AesCell, Chain24
  <2>4. n # 1 => whole[n - 1] = ct[n - 1]
    <3> SUFFICES ASSUME n # 1 PROVE whole[n - 1] = ct[n - 1]
        OBVIOUS
    <3> QED BY <1>8
  <2>5. CASE n = 1
      BY <1>5, <2>3, <2>5
  <2>6. CASE n # 1
      BY <1>5, <2>3, <2>4, <2>6
  <2> QED BY <2>5, <2>6
<1> DEFINE Fits(n) == ct[n].key = PyKey /\ ct[n].prev = (IF n = 1 THEN iv ELSE ct[n - 1])
           Out(i) == LET n == ((i - 1) \div BLOCK24) + 1
                     IN  IF Fits(n) THEN ct[n].plain[((i - 1) % BLOCK24) + 1] ELSE -1
<1>14. padded = [i \in 1..Q |-> Out(i)]
    BY <1>8, <1>10 DEF CbcDecrypt
<1>15. \A i \in 1..Q : Out(i) = Pad(plain)[i]
  <2> TAKE i \in 1..Q
  <2>1. PICK n \in 1..q, s \in 1..BLOCK24 :
           /\ n = ((i - 1) \div BLOCK24) + 1 /\ s = ((i - 1) % BLOCK24) + 1
           /\ Piece24(plain, n)[s] = Pad(plain)[i]
      BY <1>12
  <2>2. Fits(n) /\ ct[n].plain = Piece24(plain, n)
      BY <1>13
  <2>3. Out(i) = IF Fits(n) THEN ct[n].plain[s] ELSE -1
    <3> HIDE DEF Fits
    <3> QED BY <2>1
  <2> HIDE DEF Out, Fits
  <2> QED BY <2>1, <2>2, <2>3
<1> HIDE DEF padded, Out, Fits
<1>16. IsSequence(padded) /\ Len(padded) = Q /\ \A i \in 1..Q : padded[i] = Pad(plain)[i]
    BY <1>14, <1>15, FunctionIs
<1>17. ct = SubSeq(cells, 7, Len(cells)) /\ padded = CbcDecrypt(SubSeq(cells, 7, Len(cells)), PyKey, cells[5].val)
    BY <1>7 DEF ct, padded
<1>18. whole = CbcEncrypt(plain, PyKey, iv)
    BY <1>5 DEF whole
<1> QED BY <1>1, <1>6, <1>7, <1>9, <1>10, <1>11, <1>16, <1>17, <1>18 DEF PaddedAs

\* What the script makes of a beginning of a CRYPT24 file: a beginning of what
\* was encrypted; all of it, when it says so, and it says so of the whole file.
LEMMA PyDecryptIs ==
    ASSUME NEW plain, IsSequence(plain), NEW iv, NEW cells, Begins(cells, Crypt24Cells(plain, iv)),
           PyDecrypt(cells).opened
    PROVE  /\ Begins(PyDecrypt(cells).plain, plain)
           /\ PyDecrypt(cells).exit = "0" => PyDecrypt(cells).plain = plain
           /\ Len(cells) = Len(Crypt24Cells(plain, iv)) => PyDecrypt(cells).exit = "0"
<1> DEFINE ct == SubSeq(cells, 7, Len(cells))
           padded == CbcDecrypt(ct, PyKey, cells[5].val)
           out == Unpad(padded)
           all == Crypt24Cells(plain, iv)
<1>1. IsSequence(cells) /\ IsSequence(all) /\ Len(cells) <= Len(all)
    BY DEF Begins
<1>2. ParsesAsCrypt24(cells) /\ PaddingFits(padded) /\ Len(cells) >= 7
    BY <1>1, OpenedLong
<1>3. PICK q \in Nat \ {0} : Len(cells) = q + 6
  <2>1. Len(cells) \in Nat /\ Len(cells) >= 7
      BY <1>1, <1>2 DEF IsSequence
  <2>2. Len(cells) - 6 \in Nat \ {0} /\ Len(cells) = (Len(cells) - 6) + 6
      BY <2>1
  <2> QED BY <2>2
<1>4. PICK N \in Nat : N = Blocks24(plain)
    BY PadIs
<1>5. PICK Q \in Nat : Q = q * BLOCK24
    BY Crypt24Assumption
<1>6. /\ q <= N /\ cells[5].val = iv /\ cells[6].val = Len(plain)
      /\ q = N => ct = CbcEncrypt(plain, PyKey, iv)
      /\ IsSequence(padded) /\ Len(padded) = Q /\ Q <= Len(Pad(plain))
      /\ \A i \in 1..Q : padded[i] = Pad(plain)[i]
  <2>1. PaddedAs(cells, plain, iv, q, ct, padded)
      BY <1>3, PaddedIs, Zenon
  <2> HIDE DEF ct, padded
  <2> QED BY <1>4, <1>5, <2>1 DEF PaddedAs
<1>7. PyDecrypt(cells).plain = out
      /\ PyDecrypt(cells).exit =
            IF AllOk(out, Len(plain), CbcEncrypt(out, PyKey, iv) = ct) THEN "0" ELSE "1"
  <2> HIDE DEF ct
  <2>1. PyDecrypt(cells) =
           [exit |-> IF AllOk(out, cells[6].val, CbcEncrypt(out, PyKey, cells[5].val) = ct)
                     THEN "0" ELSE "1",
            opened |-> TRUE, plain |-> out]
      BY <1>2 DEF PyDecrypt, ct
  <2> HIDE DEF out, padded
  <2> QED BY <1>6, <2>1
<1>8. Len(all) = N + 6
    BY <1>4, Crypt24Is DEF Is24
<1>9. PICK l \in Nat : l = Len(plain)
    BY DEF IsSequence
<1>10. PICK n \in 1..BLOCK24, full \in Nat :
          /\ N = full + 1 /\ full * BLOCK24 \in Nat
          /\ full * BLOCK24 <= l /\ (full + 1) * BLOCK24 = l + n
          /\ IsSequence(Pad(plain)) /\ Len(Pad(plain)) = l + n
          /\ \A i \in 1..l : Pad(plain)[i] = plain[i]
          /\ \A i \in 1..n : Pad(plain)[l + i] = n
    BY <1>4, <1>9, PadIs
<1> HIDE DEF ct, all
<1> DEFINE p == padded[Len(padded)]
<1>11. p \in 1..BLOCK24 /\ padded # <<>>
    BY <1>2 DEF PaddingFits
<1>12. BLOCK24 \in Nat \ {0}
    BY Crypt24Assumption
<1>13. Q >= BLOCK24
  <2>1. 1 * BLOCK24 <= q * BLOCK24
    <3>1. 1 \in Nat /\ 1 <= q /\ q \in Nat /\ BLOCK24 \in Nat
        BY <1>12
    <3> QED BY <3>1, Times
  <2> QED BY <1>5, <1>12, <2>1
<1>14. PICK m \in Nat : m = Q - p
    BY <1>11, <1>12, <1>13
<1>15. out = SubSeq(padded, 1, m)
    BY <1>6, <1>14 DEF Unpad
<1>16. IsSequence(out) /\ Len(out) = m /\ \A i \in 1..m : out[i] = padded[i]
  <2>1. m <= Len(padded)
      BY <1>6, <1>11, <1>12, <1>14
  <2> HIDE DEF padded
  <2> QED BY <1>6, <1>15, <2>1, Beginning
<1> HIDE DEF out
<1>17. CASE q = N
  <2>1. Q = l + n
      BY <1>5, <1>10, <1>17
  <2>2. p = n
    <3>1. padded[Q] = Pad(plain)[Q]
        BY <1>6, <1>12, <1>13
    <3>2. Pad(plain)[l + n] = n
        BY <1>10, <1>12
    <3> QED BY <1>6, <2>1, <3>1, <3>2
  <2>3. m = l
      BY <1>10, <1>14, <2>1, <2>2
  <2>4. \A i \in 1..l : out[i] = plain[i]
    <3> TAKE i \in 1..l
    <3>1. i \in 1..Q
        BY <1>10, <1>12, <2>1
    <3> QED BY <1>6, <1>10, <1>16, <2>3, <3>1
  <2>5. out = plain
      BY <1>9, <1>16, <2>3, <2>4, SameSequence
  <2>6. AllOk(out, Len(plain), CbcEncrypt(out, PyKey, iv) = ct)
      BY <1>6, <1>17, <2>5 DEF AllOk
  <2>7. PyDecrypt(cells).exit = "0" /\ PyDecrypt(cells).plain = plain
      BY <1>7, <2>5, <2>6
  <2> QED BY <2>7, BeginsItself
<1>18. CASE q # N
  <2>1. q <= full
      BY <1>6, <1>10, <1>18
  <2>2. Q <= l
    <3>1. q * BLOCK24 <= full * BLOCK24
        BY <1>12, <2>1, Times
    <3> QED BY <1>5, <1>10, <3>1
  <2>3. m < l
      BY <1>11, <1>12, <1>14, <2>2
  <2>4. \A i \in 1..m : out[i] = plain[i]
    <3> TAKE i \in 1..m
    <3>1. i \in 1..Q /\ i \in 1..l
        BY <1>11, <1>12, <1>14, <2>3
    <3> QED BY <1>6, <1>10, <1>16, <3>1
  <2>5. Begins(out, plain)
      BY <1>9, <1>16, <2>3, <2>4 DEF Begins
  <2>6. ~AllOk(out, Len(plain), CbcEncrypt(out, PyKey, iv) = ct)
      BY <1>9, <1>16, <2>3 DEF AllOk
  <2>7. PyDecrypt(cells).exit = "1" /\ PyDecrypt(cells).plain = out
      BY <1>7, <2>6
  <2>8. Len(cells) # Len(all)
      BY <1>3, <1>8, <1>18
  <2> QED BY <2>5, <2>7, <2>8 DEF all
<1> QED BY <1>17, <1>18

-----------------------------------------------------------------------------
(***************************************************************************)
(* The bytes of files: where each cell begins, and which begins where.     *)
(***************************************************************************)
\* Cells that all have bytes.
Wide(cells) == IsSequence(cells) /\ \A i \in 1..Len(cells) : WidthOf(cells[i]) \in Nat \ {0}

\* f tells how many bytes the first n cells have.
Sizes(cells, f) ==
    /\ f \in [0..Len(cells) -> Nat] /\ f[0] = 0
    /\ \A n \in 1..Len(cells) : f[n] = f[n - 1] + WidthOf(cells[n])

LEMMA SizesAre ==
    ASSUME NEW cells, Wide(cells)
    PROVE  \E f : Sizes(cells, f) /\ SizeOf(cells) = f[Len(cells)]
<1>1. PICK N \in Nat : N = Len(cells)
    BY IndexSet DEF Wide
<1> DEFINE step == [n \in 1..N |-> [x \in Nat |-> x + WidthOf(cells[n])]]
           Is(f) == f = [n \in 0..N |-> IF n = 0 THEN 0 ELSE f[n - 1] + WidthOf(cells[n])]
<1>2. \A n \in 1..N : WidthOf(cells[n]) \in Nat
    BY <1>1 DEF Wide
<1>3. step \in [1..N -> [Nat -> Nat]]
    BY <1>2
<1>4. \A n \in 1..N : \A x \in Nat : step[n][x] = x + WidthOf(cells[n])
    OBVIOUS
<1> HIDE DEF step
<1>5. PICK f : Recursive(f, N, Nat, 0, step)
    BY <1>3, Recursion
<1>6. Is(f)
  <2>1. f \in [0..N -> Nat] /\ f[0] = 0 /\ \A n \in 1..N : f[n] = step[n][f[n - 1]]
      BY <1>5 DEF Recursive
  <2>2. \A n \in 0..N : f[n] = IF n = 0 THEN 0 ELSE f[n - 1] + WidthOf(cells[n])
    <3> TAKE n \in 0..N
    <3>1. CASE n = 0
        BY <2>1, <3>1
    <3>2. CASE n # 0
        BY <3>2, <2>1, <1>4
    <3> QED BY <3>1, <3>2
  <2> QED BY <2>1, <2>2
<1> DEFINE g == CHOOSE h : Is(h)
<1>7. Is(g)
    BY <1>6
<1>8. SizeOf(cells) = g[N]
    BY <1>1 DEF SizeOf
<1> HIDE DEF g
<1>9. g[0] = 0 /\ \A n \in 1..N : g[n] = g[n - 1] + WidthOf(cells[n])
    BY <1>7
<1>10. g = [n \in 0..N |-> g[n]]
    BY <1>7
<1> HIDE DEF Is
<1> DEFINE T == {n \in Nat : n <= N => g[n] \in Nat}
<1>11. T = Nat
  <2>1. 0 \in T
      BY <1>9
  <2>2. \A n \in T : n + 1 \in T
    <3> SUFFICES ASSUME NEW n \in T, n + 1 <= N PROVE g[n + 1] \in Nat
        OBVIOUS
    <3> QED BY <1>2, <1>9
  <2> HIDE DEF T
  <2> QED BY <2>1, <2>2, Induction DEF T
<1>13. g \in [0..N -> Nat]
    BY <1>10, <1>11
<1> QED BY <1>1, <1>8, <1>9, <1>13 DEF Sizes

\* As far as two files have the same cells, these have as many bytes.
LEMMA SizesSame ==
    ASSUME NEW cells, NEW f, Sizes(cells, f), NEW d, NEW g, Sizes(d, g), NEW k \in Nat,
           Len(cells) \in Nat, Len(d) \in Nat, k <= Len(cells), k <= Len(d),
           \A i \in 1..k : cells[i] = d[i]
    PROVE  f[k] = g[k]
<1> DEFINE T == {n \in Nat : n <= k => f[n] = g[n]}
<1>1. 0 \in T
    BY DEF Sizes
<1>2. \A n \in T : n + 1 \in T
  <2> SUFFICES ASSUME NEW n \in T, n + 1 <= k PROVE f[n + 1] = g[n + 1]
      OBVIOUS
  <2>1. /\ n + 1 \in 1..Len(cells) /\ n + 1 \in 1..Len(d) /\ n + 1 \in 1..k
        /\ (n + 1) - 1 = n /\ f[n] = g[n]
      OBVIOUS
  <2> QED BY <2>1 DEF Sizes
<1>3. T = Nat
  <2> HIDE DEF T
  <2> QED BY <1>1, <1>2, Induction DEF T
<1> QED BY <1>3

\* The bytes of a beginning.
LEMMA SizeOfBeginning ==
    ASSUME NEW cells, Wide(cells), NEW f, Sizes(cells, f), NEW s, Begins(s, cells)
    PROVE  Wide(s) /\ SizeOf(s) = f[Len(s)]
<1>1. /\ IsSequence(s) /\ Len(s) \in Nat /\ Len(cells) \in Nat /\ Len(s) <= Len(cells)
      /\ \A i \in 1..Len(s) : cells[i] = s[i]
    BY IndexSet DEF Begins
<1>2. Wide(s)
    BY <1>1 DEF Wide
<1>3. PICK g : Sizes(s, g) /\ SizeOf(s) = g[Len(s)]
    BY <1>2, SizesAre
<1>4. f[Len(s)] = g[Len(s)]
    BY <1>1, <1>3, SizesSame
<1> QED BY <1>2, <1>3, <1>4

\* Every cell has bytes: no two places are one.
LEMMA SizesGrow ==
    ASSUME NEW cells, Wide(cells), NEW f, Sizes(cells, f), NEW i \in 0..Len(cells),
           NEW j \in 0..Len(cells), i < j
    PROVE  f[i] < f[j]
<1>1. PICK N \in Nat : N = Len(cells)
    BY IndexSet DEF Wide
<1> DEFINE T == {d \in Nat : i + d + 1 <= N => f[i] < f[i + d + 1]}
<1>2. \A n \in 1..N : f[n] \in Nat /\ f[n - 1] \in Nat /\ f[n - 1] < f[n]
  <2> TAKE n \in 1..N
  <2>2. f[n] \in Nat /\ f[n - 1] \in Nat /\ f[n] = f[n - 1] + WidthOf(cells[n])
      BY <1>1 DEF Sizes
  <2> QED BY <2>2, <1>1 DEF Wide
<1>3. i \in Nat /\ j \in Nat /\ j <= N
    BY <1>1
<1>4. 0 \in T
    BY <1>2, <1>3
<1>5. \A d \in T : d + 1 \in T
  <2> SUFFICES ASSUME NEW d \in T, i + (d + 1) + 1 <= N PROVE f[i] < f[i + (d + 1) + 1]
      OBVIOUS
  <2>2. PICK n \in 1..N : n = i + (d + 1) + 1
      BY <1>3
  <2>3. i + d + 1 = n - 1 /\ i + 1 \in 1..N /\ (i + 1) - 1 = i
      BY <1>3, <2>2
  <2> QED BY <2>2, <2>3, <1>3, <1>2, SMTT(30)
<1>6. T = Nat
  <2> HIDE DEF T
  <2> QED BY <1>4, <1>5, Induction DEF T
<1>7. PICK d \in Nat : d = j - i - 1
    BY <1>3
<1>8. i + d + 1 = j
    BY <1>3, <1>7
<1> QED BY <1>3, <1>6, <1>8

\* Where a cell begins.
LEMMA BeginIs ==
    ASSUME NEW cells, Wide(cells), NEW f, Sizes(cells, f), NEW n \in 1..Len(cells)
    PROVE  Begin(cells, n) = f[n - 1]
<1>1. Len(cells) \in Nat /\ IsSequence(cells)
    BY IndexSet DEF Wide
<1>2. PICK k \in Nat : k = n - 1 /\ k <= Len(cells)
    BY <1>1
<1> DEFINE s == SubSeq(cells, 1, k)
<1>3. Begins(s, cells) /\ Len(s) = k
    BY <1>1, <1>2, BeginsWithSlice, Beginning
<1>4. SizeOf(s) = f[k]
  <2> HIDE DEF s
  <2> QED BY <1>3, SizeOfBeginning
<1> QED BY <1>2, <1>4 DEF Begin

\* The cell behind a beginning of a file.
LEMMA AtIs ==
    ASSUME NEW cells, Wide(cells), NEW s, Begins(s, cells), Len(s) < Len(cells)
    PROVE  At(cells, SizeOf(s)) = cells[Len(s) + 1]
<1>1. PICK f : Sizes(cells, f)
    BY SizesAre
<1>2. SizeOf(s) = f[Len(s)]
    BY <1>1, SizeOfBeginning
<1>3. PICK N \in Nat : N = Len(cells) /\ DOMAIN cells = 1..N
    BY IndexSet DEF Wide
<1>4. PICK k \in Nat : k = Len(s) /\ k < N
    BY <1>3, IndexSet DEF Begins
<1> DEFINE starts == {n \in DOMAIN cells : Begin(cells, n) = SizeOf(s)}
<1>5. \A n \in 1..N : Begin(cells, n) = f[n - 1]
    BY <1>1, <1>3, BeginIs
<1>6. starts = {k + 1}
  <2>1. k + 1 \in starts
      BY <1>4, <1>2, <1>3, <1>5
  <2>2. ASSUME NEW n \in starts
        PROVE  n = k + 1
    <3>1. n \in 1..N /\ f[n - 1] = f[k]
        BY <1>2, <1>3, <1>4, <1>5
    <3>2. PICK m \in 0..N : m = n - 1
        BY <3>1
    <3>3. k \in 0..N
        BY <1>4
    <3>4. f[m] \in Nat /\ f[k] \in Nat
        BY <1>1, <1>3, <3>2, <3>3 DEF Sizes
    <3>5. m < k => f[m] < f[k]
        BY <1>1, <1>3, <3>2, <3>3, SizesGrow
    <3>6. k < m => f[k] < f[m]
        BY <1>1, <1>3, <3>2, <3>3, SizesGrow
    <3> QED BY <3>1, <3>2, <3>3, <3>4, <3>5, <3>6
  <2> QED BY <2>1, <2>2
<1>8. starts # {}
    BY <1>6
<1>9. At(cells, SizeOf(s)) = IF starts = {} THEN Unread ELSE cells[CHOOSE n \in starts : TRUE]
    BY DEF At
<1> HIDE DEF starts
<1> QED BY <1>4, <1>8, <1>9, <1>6

\* The cells between two beginnings of a file.
LEMMA CellsInIs ==
    ASSUME NEW cells, Wide(cells), NEW s, Begins(s, cells), NEW t, Begins(t, cells),
           Len(s) <= Len(t), NEW length, SizeOf(s) + length = SizeOf(t)
    PROVE  CellsIn(cells, SizeOf(s), length) = SubSeq(cells, Len(s) + 1, Len(t))
<1>1. PICK f : Sizes(cells, f)
    BY SizesAre
<1>2. SizeOf(s) = f[Len(s)] /\ SizeOf(t) = f[Len(t)]
    BY <1>1, SizeOfBeginning
<1>3. PICK N \in Nat : N = Len(cells) /\ DOMAIN cells = 1..N
    BY IndexSet DEF Wide
<1>4. PICK k \in Nat : k = Len(s) /\ k <= N
    BY <1>3, IndexSet DEF Begins
<1>5. PICK m \in Nat : m = Len(t) /\ m <= N /\ k <= m
    BY <1>3, <1>4, IndexSet DEF Begins
<1>6. \A n \in 1..N : Begin(cells, n) = f[n - 1]
    BY <1>1, <1>3, BeginIs
<1>7. \A i \in 0..N, j \in 0..N : i < j => f[i] < f[j]
    BY <1>1, <1>3, SizesGrow
<1>8. \A i \in 0..N : f[i] \in Nat
    BY <1>1, <1>3 DEF Sizes
<1>9. \A n \in 1..N : Begin(cells, n) + WidthOf(cells[n]) = f[n]
  <2> TAKE n \in 1..N
  <2> QED BY <1>6, <1>1, <1>3 DEF Sizes
<1>10. k \in 0..N /\ m \in 0..N
    BY <1>4, <1>5
<1>11. Before(cells, SizeOf(s)) = k
  <2>1. ASSUME NEW n \in 1..N
        PROVE  n <= k <=> Begin(cells, n) < SizeOf(s)
    <3>1. PICK j \in 0..N : j = n - 1
        OBVIOUS
    <3>3. k < j => f[k] < f[j]
        BY <1>7, <1>10, <3>1
    <3>4. f[j] \in Nat /\ f[k] \in Nat
        BY <1>8, <1>10, <3>1
    <3>5. f[j] < f[k] <=> j < k
        BY <1>10, <3>1, <3>3, <3>4, <1>7
    <3> QED BY <1>2, <1>4, <1>6, <3>1, <3>5
  <2> DEFINE Is(a) == \A n \in 1..N : n <= a <=> Begin(cells, n) < SizeOf(s)
             a == CHOOSE x \in 0..N : Is(x)
  <2>2. Is(k)
      BY <2>1
  <2>3. a \in 0..N /\ Is(a)
      BY <1>10, <2>2
  <2>4. Before(cells, SizeOf(s)) = a
      BY <1>3 DEF Before
  <2> HIDE DEF a
  <2>6. a = k
      BY <1>10, <2>3, <2>2
  <2> QED BY <2>4, <2>6
<1>12. Within(cells, SizeOf(s) + length) = m
  <2>1. ASSUME NEW n \in 1..N
        PROVE  n <= m <=> Begin(cells, n) + WidthOf(cells[n]) <= SizeOf(s) + length
      BY <1>7, <1>10, <1>8, <1>2, <1>5, <1>9
  <2> DEFINE Is(a) == \A n \in 1..N :
                         n <= a <=> Begin(cells, n) + WidthOf(cells[n]) <= SizeOf(s) + length
             a == CHOOSE x \in 0..N : Is(x)
  <2>2. Is(m)
      BY <2>1
  <2>3. a \in 0..N /\ Is(a)
      BY <1>10, <2>2
  <2>4. Within(cells, SizeOf(s) + length) = a
      BY <1>3 DEF Within
  <2> HIDE DEF a
  <2>6. a = m
      BY <1>10, <2>3, <2>2
  <2> QED BY <2>4, <2>6
<1> QED BY <1>4, <1>5, <1>11, <1>12 DEF CellsIn

\* Two files one behind the other.
LEMMA SizeTogether ==
    ASSUME NEW s, Wide(s), NEW t, Wide(t)
    PROVE  /\ Wide(s \o t) /\ Begins(s, s \o t) /\ SizeOf(s) \in Nat /\ SizeOf(t) \in Nat
           /\ SizeOf(s \o t) = SizeOf(s) + SizeOf(t)
<1> DEFINE u == s \o t
<1>1. Join(u, s, t)
    BY Joined DEF Wide
<1> HIDE DEF u
<1>2. PICK k \in Nat : k = Len(s)
    BY <1>1 DEF Join
<1>3. PICK m \in Nat : m = Len(t)
    BY <1>1 DEF Join
<1>4. /\ IsSequence(u) /\ Len(u) = k + m /\ (\A i \in 1..k : u[i] = s[i])
      /\ \A i \in 1..m : u[k + i] = t[i]
    BY <1>1, <1>2, <1>3 DEF Join
<1>5. Wide(u)
  <2>1. ASSUME NEW i \in 1..k + m
        PROVE  WidthOf(u[i]) \in Nat \ {0}
    <3>1. CASE i \in 1..k
        BY <1>2, <1>4, <3>1 DEF Wide
    <3>2. CASE i \notin 1..k
      <4>1. PICK j \in 1..m : i = k + j
          BY <3>2
      <4> QED BY <1>3, <1>4, <4>1 DEF Wide
    <3> QED BY <3>1, <3>2
  <2> QED BY <1>4, <2>1 DEF Wide
<1>6. Begins(s, u)
    BY <1>2, <1>4 DEF Begins, Wide
<1>7. PICK f : Sizes(u, f) /\ SizeOf(u) = f[k + m]
    BY <1>4, <1>5, SizesAre
<1>8. PICK g : Sizes(t, g) /\ SizeOf(t) = g[m]
    BY <1>3, SizesAre
<1>9. SizeOf(s) = f[k]
    BY <1>2, <1>5, <1>6, <1>7, SizeOfBeginning
<1>10. f[k] \in Nat /\ g[m] \in Nat
  <2>1. k \in 0..k + m /\ m \in 0..m
      OBVIOUS
  <2> QED BY <1>3, <1>4, <1>7, <1>8, <2>1 DEF Sizes
<1> DEFINE T == {n \in Nat : n <= m => f[k + n] = f[k] + g[n]}
<1>11. 0 \in T
    BY <1>8, <1>10 DEF Sizes
<1>12. \A n \in T : n + 1 \in T
  <2> SUFFICES ASSUME NEW n \in T, n + 1 <= m PROVE f[k + (n + 1)] = f[k] + g[n + 1]
      OBVIOUS
  <2>1. PICK j \in 1..m : j = n + 1
      OBVIOUS
  <2>2. PICK i \in 1..k + m : i = k + j
      OBVIOUS
  <2>3. f[i] = f[i - 1] + WidthOf(u[i]) /\ g[j] = g[j - 1] + WidthOf(t[j]) /\ u[i] = t[j]
      BY <1>3, <1>4, <1>7, <1>8, <2>2 DEF Sizes
  <2>4. i - 1 = k + n /\ j - 1 = n /\ f[k + n] = f[k] + g[n] /\ n \in 0..m
      BY <2>1, <2>2
  <2>5. g[n] \in Nat /\ WidthOf(t[j]) \in Nat
      BY <1>3, <1>8, <2>4 DEF Sizes, Wide
  <2> QED BY <1>10, <2>1, <2>2, <2>3, <2>4, <2>5
<1>13. T = Nat
  <2> HIDE DEF T
  <2> QED BY <1>11, <1>12, Induction DEF T
<1>14. f[k + m] = f[k] + g[m]
    BY <1>13
<1> QED BY <1>5, <1>6, <1>7, <1>8, <1>9, <1>10, <1>14 DEF u

\* F[n] has the first n of some sequences behind a first one.
Accumulates(F, N, a, b) ==
    F = [n \in 0..N |-> IF n = 0 THEN a ELSE F[n - 1] \o b[n]]

LEMMA Accumulated ==
    ASSUME NEW N \in Nat, NEW a, NEW b
    PROVE  \E F : Accumulates(F, N, a, b)
<1> DEFINE T == {k \in Nat : \E F : Accumulates(F, k, a, b)}
<1>1. 0 \in T
  <2> DEFINE f == [n \in 0..0 |-> a]
  <2>2. Accumulates(f, 0, a, b)
      BY DEF Accumulates
  <2> QED BY <2>2
<1>2. \A k \in T : k + 1 \in T
  <2> TAKE k \in T
  <2>1. PICK f : Accumulates(f, k, a, b)
      OBVIOUS
  <2> DEFINE g == [n \in 0..k + 1 |-> IF n = k + 1 THEN f[k] \o b[k + 1] ELSE f[n]]
  <2>2. k \in Nat
      OBVIOUS
  <2>3. \A n \in 0..k : g[n] = f[n]
      BY <2>2
  <2>4. g[k + 1] = f[k] \o b[k + 1]
      BY <2>2
  <2>5. g = [n \in 0..k + 1 |-> g[n]]
      OBVIOUS
  <2> HIDE DEF g
  <2>6. \A n \in 0..k + 1 : g[n] = IF n = 0 THEN a ELSE g[n - 1] \o b[n]
    <3> TAKE n \in 0..k + 1
    <3>1. CASE n = k + 1
      <4>1. n # 0 /\ n - 1 = k /\ k \in 0..k
          BY <2>2, <3>1
      <4> QED BY <2>3, <2>4, <3>1, <4>1
    <3>2. CASE n = 0
        BY <2>1, <2>2, <2>3, <3>2 DEF Accumulates
    <3>3. CASE n # 0 /\ n # k + 1
      <4>1. n \in 0..k /\ n - 1 \in 0..k
          BY <2>2, <3>3
      <4> QED BY <2>3, <3>3, <4>1, <2>1 DEF Accumulates
    <3> QED BY <3>1, <3>2, <3>3
  <2>8. k + 1 \in Nat
      BY <2>2
  <2> QED BY <2>8, <2>5, <2>6 DEF Accumulates
<1>3. T = Nat
  <2> HIDE DEF T
  <2> QED BY <1>1, <1>2, Induction DEF T
<1> QED BY <1>3

\* Each of them begins the next.
LEMMA AccumulatedBegins ==
    ASSUME NEW N \in Nat, NEW a, Wide(a), NEW b, \A n \in 1..N : Wide(b[n]),
           NEW F, Accumulates(F, N, a, b)
    PROVE  /\ F[0] = a /\ \A n \in 1..N : F[n] = F[n - 1] \o b[n]
           /\ \A n \in 0..N : Wide(F[n]) /\ Begins(F[n], F[N])
<1>1. F[0] = a /\ \A n \in 1..N : F[n] = F[n - 1] \o b[n]
    BY DEF Accumulates
<1> DEFINE T == {n \in Nat : n <= N => Wide(F[n])}
<1>2. T = Nat
  <2>1. 0 \in T
      BY <1>1
  <2>2. \A n \in T : n + 1 \in T
    <3> SUFFICES ASSUME NEW n \in T, n + 1 <= N PROVE Wide(F[n + 1])
        OBVIOUS
    <3>1. n + 1 \in 1..N /\ (n + 1) - 1 = n /\ Wide(F[n])
        OBVIOUS
    <3> QED BY <3>1, SizeTogether, <1>1
  <2> HIDE DEF T
  <2> QED BY <2>1, <2>2, Induction DEF T
<1>3. \A n \in 0..N : Wide(F[n])
    BY <1>2
<1> DEFINE U == {d \in Nat : d <= N => Begins(F[N - d], F[N])}
<1>4. U = Nat
  <2>1. 0 \in U
      BY <1>3, BeginsItself DEF Wide
  <2>2. \A d \in U : d + 1 \in U
    <3> TAKE d \in U
    <3>1. d \in Nat /\ (d <= N => Begins(F[N - d], F[N]))
        OBVIOUS
    <3>2. ASSUME d + 1 <= N
          PROVE  Begins(F[N - (d + 1)], F[N])
      <4>1. PICK n \in 1..N : n = N - d
          BY <3>1, <3>2
      <4>2. n - 1 = N - (d + 1) /\ n - 1 \in 0..N /\ Begins(F[n], F[N])
          BY <3>1, <3>2, <4>1
      <4>4. Begins(F[n - 1], F[n])
          BY SizeTogether, <1>1, <1>3, <4>2
      <4> QED BY <4>2, <4>4, BeginsInTurn
    <3> QED BY <3>1, <3>2
  <2> HIDE DEF U
  <2> QED BY <2>1, <2>2, Induction DEF U
<1>5. ASSUME NEW n \in 0..N
      PROVE  Begins(F[n], F[N])
  <2>1. PICK d \in Nat : d = N - n /\ d <= N /\ N - d = n
      OBVIOUS
  <2>2. d \in U
      BY <1>4, <2>1
  <2> QED BY <2>1, <2>2
<1> QED BY <1>1, <1>3, <1>5

\* The bytes of one cell, and of a beginning.
LEMMA SizeOfOne ==
    ASSUME NEW c, WidthOf(c) \in Nat \ {0}
    PROVE  Wide(<<c>>) /\ SizeOf(<<c>>) = WidthOf(c)
BY SingleSequence, SizesAre DEF Wide, Sizes

LEMMA SizeBegins ==
    ASSUME NEW cells, Wide(cells), NEW s, Begins(s, cells)
    PROVE  SizeOf(s) \in Nat /\ SizeOf(cells) \in Nat /\ SizeOf(s) <= SizeOf(cells)
<1>1. PICK f : Sizes(cells, f) /\ SizeOf(cells) = f[Len(cells)]
    BY SizesAre
<1>2. SizeOf(s) = f[Len(s)]
    BY <1>1, SizeOfBeginning
<1>3. Len(s) \in 0..Len(cells) /\ Len(cells) \in 0..Len(cells)
    BY IndexSet DEF Begins
<1>4. f[Len(s)] \in Nat /\ f[Len(cells)] \in Nat
    BY <1>1, <1>3 DEF Sizes
<1>5. Len(s) < Len(cells) => f[Len(s)] < f[Len(cells)]
    BY <1>1, <1>3, SizesGrow
<1>6. Len(s) = Len(cells) \/ Len(s) < Len(cells)
    BY <1>3
<1> QED BY <1>1, <1>2, <1>4, <1>5, <1>6

\* A section, as it is in a file.
Chunk(sec) == <<DescriptorOf(sec)>> \o sec.payload

LEMMA DescriptorIs ==
    ASSUME NEW sec
    PROVE  /\ DescriptorOf(sec).kind = "desc" /\ DescriptorOf(sec).compressed = sec.compressed
           /\ DescriptorOf(sec).length = SizeOf(sec.payload)
           /\ WidthOf(DescriptorOf(sec)) = 8
<1> DEFINE d == DescriptorOf(sec)
<1>1. d = [kind |-> "desc", width |-> 8, type |-> sec.type, compressed |-> sec.compressed,
           length |-> SizeOf(sec.payload)]
    BY DEF DescriptorOf, Descriptor, SECTION_DESC_SIZE
<1> HIDE DEF d
<1> QED BY <1>1 DEF d, WidthOf

LEMMA ChunkIs ==
    ASSUME NEW sec, IsSection(sec)
    PROVE  /\ Wide(Chunk(sec)) /\ Wide(sec.payload) /\ SizeOf(sec.payload) \in Nat
           /\ SizeOf(Chunk(sec)) = 8 + SizeOf(sec.payload)
<1>1. Wide(sec.payload)
    BY IndexSet DEF IsSection, Wide
<1>2. Wide(<<DescriptorOf(sec)>>) /\ SizeOf(<<DescriptorOf(sec)>>) = 8
    BY DescriptorIs, SizeOfOne
<1> QED BY <1>1, <1>2, SizeTogether DEF Chunk

\* Where the parts of a section are, in a file that has it behind a.
LEMMA ChunkLies ==
    ASSUME NEW cells, Wide(cells), NEW a, Wide(a), NEW sec, IsSection(sec),
           Begins(a \o Chunk(sec), cells)
    PROVE  /\ SizeOf(a) \in Nat /\ SizeOf(cells) \in Nat /\ SizeOf(sec.payload) \in Nat
           /\ SizeOf(a \o Chunk(sec)) = SizeOf(a) + 8 + SizeOf(sec.payload)
           /\ SizeOf(a) + 8 + SizeOf(sec.payload) <= SizeOf(cells)
           /\ At(cells, SizeOf(a)) = DescriptorOf(sec)
           /\ CellsIn(cells, SizeOf(a) + 8, SizeOf(sec.payload)) = sec.payload
<1> DEFINE d == DescriptorOf(sec)
           p == sec.payload
           c == Chunk(sec)
           u == a \o c
           s == a \o <<d>>
<1>1. Wide(c) /\ Wide(p) /\ SizeOf(p) \in Nat /\ SizeOf(c) = 8 + SizeOf(p)
    BY ChunkIs
<1>2. Wide(<<d>>) /\ SizeOf(<<d>>) = 8
    BY DescriptorIs, SizeOfOne
<1>3. Join(c, <<d>>, p) /\ Join(u, a, c) /\ Join(s, a, <<d>>)
    BY <1>1, <1>2, Joined DEF Wide, Chunk
<1>4. SizeOf(u) = SizeOf(a) + SizeOf(c) /\ SizeOf(s) = SizeOf(a) + 8 /\ SizeOf(a) \in Nat
    BY <1>1, <1>2, SizeTogether
<1>5. Begins(u, cells)
    OBVIOUS
<1>6. IsSequence(<<d>>) /\ Len(<<d>>) = 1 /\ <<d>>[1] = d
    BY SingleSequence
<1> HIDE DEF d, p, c, u, s
<1>7. PICK k \in Nat : k = Len(a)
    BY <1>3 DEF Join
<1>8. PICK m \in Nat : m = Len(p)
    BY <1>3 DEF Join
<1>9. /\ Len(c) = 1 + m /\ c[1] = d /\ \A i \in 1..m : c[1 + i] = p[i]
    BY <1>3, <1>6, <1>8 DEF Join
<1>10. /\ IsSequence(u) /\ Len(u) = k + 1 + m /\ (\A i \in 1..k : u[i] = a[i])
       /\ \A i \in 1..1 + m : u[k + i] = c[i]
  <2>1. /\ IsSequence(u) /\ Len(u) = k + (1 + m) /\ (\A i \in 1..k : u[i] = a[i])
        /\ \A i \in 1..1 + m : u[k + i] = c[i]
      BY <1>3, <1>7, <1>9 DEF Join
  <2> QED BY <2>1
<1>11. /\ IsSequence(s) /\ Len(s) = k + 1 /\ (\A i \in 1..k : s[i] = a[i]) /\ s[k + 1] = d
    BY <1>3, <1>6, <1>7 DEF Join
<1>12. PICK N \in Nat : N = Len(cells) /\ IsSequence(cells) /\ k + 1 + m <= N
    BY <1>5, <1>10, IndexSet DEF Begins
<1>13. \A i \in 1..k + 1 + m : cells[i] = u[i]
    BY <1>5, <1>10 DEF Begins
<1>14. Begins(a, cells)
  <2>1. \A i \in 1..k : a[i] = cells[i]
    <3> TAKE i \in 1..k
    <3> QED BY <1>10, <1>13
  <2>2. k <= N
      BY <1>12
  <2> QED BY <1>7, <1>12, <2>1, <2>2 DEF Begins, Wide
<1>15. cells[k + 1] = d
    BY <1>9, <1>10, <1>13
<1>16. Begins(s, cells)
  <2>1. ASSUME NEW i \in 1..k + 1
        PROVE  s[i] = cells[i]
      BY <1>11, <1>15, <1>7, <1>14 DEF Begins
  <2> QED BY <1>11, <1>12, <2>1 DEF Begins
<1>17. At(cells, SizeOf(a)) = d
    BY <1>12, <1>7, <1>14, <1>15, AtIs
<1>18. CellsIn(cells, SizeOf(a) + 8, SizeOf(p)) = p
  <2>1. Len(s) <= Len(u)
      BY <1>10, <1>11
  <2>2. SizeOf(s) + SizeOf(p) = SizeOf(u)
      BY <1>1, <1>4
  <2>3. CellsIn(cells, SizeOf(s), SizeOf(p)) = SubSeq(cells, Len(s) + 1, Len(u))
      BY <1>5, <1>16, <2>1, <2>2, CellsInIs
  <2>4. PICK x \in Nat : x = k + 2
      OBVIOUS
  <2>5. PICK y \in Nat : y = k + 1 + m
      OBVIOUS
  <2> DEFINE q == SubSeq(cells, x, y)
  <2>7. IsSequence(q) /\ Len(q) = m /\ \A i \in 1..m : q[i] = cells[x + i - 1]
      BY <1>12, Slice, <2>4, <2>5
  <2>9. q = SubSeq(cells, Len(s) + 1, Len(u))
      BY <1>10, <1>11, <2>4, <2>5
  <2> HIDE DEF q
  <2>10. \A i \in 1..m : q[i] = p[i]
    <3> TAKE i \in 1..m
    <3>1. x + i - 1 = k + (1 + i) /\ k + (1 + i) \in 1..k + 1 + m /\ 1 + i \in 1..1 + m
        BY <2>4
    <3>4. u[k + (1 + i)] = c[1 + i] /\ c[1 + i] = p[i]
        BY <1>9, <1>10, <3>1
    <3> QED BY <3>4, <2>7, <3>1, <1>13
  <2>11. q = p
      BY <1>1, <1>8, <2>7, <2>10, SameSequence DEF Wide
  <2> QED BY <1>4, <2>3, <2>9, <2>11
<1>19. SizeOf(u) <= SizeOf(cells) /\ SizeOf(cells) \in Nat
    BY <1>5, SizeBegins
<1> QED BY <1>1, <1>4, <1>17, <1>18, <1>19 DEF d, p, c, u

\* The loop makes of a section what it is.
LEMMA SectionVisited ==
    ASSUME NEW cells, Wide(cells), NEW a, Wide(a), NEW sec, IsSection(sec),
           Begins(a \o Chunk(sec), cells), SizeOf(cells) < OFFSETS, NEW list
    PROVE  Visited(cells, [offset |-> SizeOf(a), ret |-> 0, sections |-> list])
              = [offset |-> SizeOf(a \o Chunk(sec)), ret |-> 0,
                 sections |-> Append(list, SectionOf(sec))]
<1> DEFINE d == DescriptorOf(sec)
           x == SizeOf(a)
           L == SizeOf(sec.payload)
           S == SizeOf(cells)
           p == [offset |-> x, ret |-> 0, sections |-> list]
<1>1. /\ x \in Nat /\ S \in Nat /\ L \in Nat /\ x + 8 + L <= S
      /\ SizeOf(a \o Chunk(sec)) = x + 8 + L
      /\ At(cells, x) = d /\ CellsIn(cells, x + 8, L) = sec.payload
    BY ChunkLies
<1>2. d.kind = "desc" /\ d.compressed = sec.compressed /\ d.length = L
    BY DescriptorIs
<1>3. OFFSETS \in Nat
    BY SectionsAssumption
<1> HIDE DEF d, x, L, S
<1>5. ~(x + 8 + L > S)
    BY <1>1
<1>6. SectionAt(cells, x + 8, d) = SectionOf(sec)
  <2>1. CASE sec.compressed
    <3>2. DecompressSection(cells, x + 8, d)
             = IF L < 4 THEN Failed ELSE Unpacked(d, sec.payload)
        BY <1>1, <1>2, <1>5 DEF DecompressSection, S
    <3> QED BY <3>2, <1>2, <2>1 DEF SectionAt, SectionOf, L, d
  <2>2. CASE ~sec.compressed
    <3>2. DecodeSection(cells, x + 8, d)
             = IF L = 0 THEN Decoded(<<>>) ELSE Interpreted(d, sec.payload)
        BY <1>1, <1>2, <1>5 DEF DecodeSection, S
    <3> QED BY <3>2, <1>2, <2>2 DEF SectionAt, SectionOf, L, d
  <2> QED BY <2>1, <2>2 DEF IsSection
<1>8. NextOffset(x, d, SectionOf(sec)) = x + 8 + L
    BY <1>2, <1>1, <1>3 DEF NextOffset, SECTION_DESC_SIZE, S
<1>9. ~(x + 8 > S)
    BY <1>1
<1>10. p.offset = x /\ p.ret = 0 /\ p.sections = list
    OBVIOUS
<1> HIDE DEF p
<1>11. Visited(cells, p) = [offset |-> x + 8 + L, ret |-> 0, sections |-> Append(list, SectionOf(sec))]
    BY <1>1, <1>2, <1>6, <1>8, <1>9, <1>10 DEF Visited, SECTION_DESC_SIZE, S
<1> QED BY <1>1, <1>11 DEF p, x

-----------------------------------------------------------------------------
(***************************************************************************)
(* The sample files of chapter 6: what the patterns place by offsets and   *)
(* count lies where they place it.                                         *)
(***************************************************************************)
\* The cell at the byte where the n-th begins is that one.
LEMMA AtNth ==
    ASSUME NEW cells, Wide(cells), NEW f, Sizes(cells, f), NEW n \in 1..Len(cells)
    PROVE  At(cells, f[n - 1]) = cells[n]
<1>1. PICK N \in Nat : N = Len(cells) /\ IsSequence(cells)
    BY IndexSet DEF Wide
<1>2. PICK k \in Nat : k = n - 1 /\ k < N /\ k + 1 = n
    BY <1>1
<1> DEFINE s == SubSeq(cells, 1, k)
<1>3. Begins(s, cells) /\ Len(s) = k
    BY <1>1, <1>2, BeginsWithSlice, Beginning
<1> HIDE DEF s
<1> QED BY <1>2, <1>3, SizeOfBeginning, <1>1, AtIs

CdbHead == [kind |-> "cdb", width |-> 32, record_count |-> 5, data_offset |-> 128, field_count |-> 3]
CdbField == [kind |-> "field", width |-> 32]
CdbRecord(i) == [kind |-> "cdb record", width |-> 68, record_id |-> i]
CdbFoot == [kind |-> "cdb footer", width |-> 12, record_count |-> 5, data_end_offset |-> 468]

\* The ten cells of sample.cdb (fileformat.c:107-191).
LEMMA CdbCellsAre ==
    /\ IsSequence(CdbCells) /\ Len(CdbCells) = 10 /\ CdbCells[1] = CdbHead
    /\ \A i \in 2..4 : CdbCells[i] = CdbField
    /\ \A i \in 5..9 : CdbCells[i] = CdbRecord(i - 4)
    /\ CdbCells[10] = CdbFoot
<1> DEFINE b == Repeat(3, CdbField)
           c == Repeat(0, [kind |-> "byte", val |-> 0])
           d == [i \in 1..5 |-> CdbRecord(i)]
           u == <<CdbHead>> \o b
           v == u \o c
           w == v \o d
           x == w \o <<CdbFoot>>
<1>1. CdbCells = x
  <2> DEFINE after == CDB_HEADER_SIZE + CDB_FIELD_COUNT * CDB_FIELD_DESC_SIZE
             data_offset == Aligned(after)
             p == [kind |-> "cdb", width |-> CDB_HEADER_SIZE, record_count |-> CDB_RECORD_COUNT,
                   data_offset |-> data_offset, field_count |-> CDB_FIELD_COUNT]
             q == Repeat(CDB_FIELD_COUNT, [kind |-> "field", width |-> CDB_FIELD_DESC_SIZE])
             r == Repeat(data_offset - after, [kind |-> "byte", val |-> 0])
             s == [i \in 1..CDB_RECORD_COUNT |->
                      [kind |-> "cdb record", width |-> CDB_RECORD_SIZE, record_id |-> i]]
             t == [kind |-> "cdb footer", width |-> CDB_FOOTER_SIZE, record_count |-> CDB_RECORD_COUNT,
                   data_end_offset |-> data_offset + CDB_RECORD_COUNT * CDB_RECORD_SIZE]
  <2>1. CdbCells = <<p>> \o q \o r \o s \o <<t>>
      BY DEF CdbCells
  <2>2. /\ CDB_HEADER_SIZE = 32 /\ CDB_FIELD_COUNT = 3 /\ CDB_FIELD_DESC_SIZE = 32
        /\ CDB_RECORD_COUNT = 5 /\ CDB_RECORD_SIZE = 68 /\ CDB_FOOTER_SIZE = 12
      BY DEF CDB_HEADER_SIZE, CDB_FIELD_COUNT, CDB_FIELD_DESC_SIZE, CDB_RECORD_COUNT,
             CDB_RECORD_SIZE, CDB_FOOTER_SIZE
  <2>3. after = 128
      BY <2>2
  <2>4. data_offset = 128 /\ data_offset - after = 0 /\ data_offset + 5 * 68 = 468
      BY <2>3 DEF Aligned
  <2> HIDE DEF after, data_offset
  <2>5. p = CdbHead
      BY <2>2, <2>4 DEF CdbHead
  <2>6. q = b
      BY <2>2 DEF CdbField
  <2>7. r = c
      BY <2>4
  <2>8. s = d
      BY <2>2 DEF CdbRecord
  <2>9. t = CdbFoot
      BY <2>2, <2>4 DEF CdbFoot
  <2> HIDE DEF p, q, r, s, t, b, c, d
  <2> QED BY <2>1, <2>5, <2>6, <2>7, <2>8, <2>9
<1>2. IsSequence(<<CdbHead>>) /\ Len(<<CdbHead>>) = 1 /\ <<CdbHead>>[1] = CdbHead
    BY SingleSequence
<1>3. IsSequence(b) /\ Len(b) = 3 /\ \A i \in 1..3 : b[i] = CdbField
  <2>1. b = [i \in 1..3 |-> b[i]] /\ \A i \in 1..3 : b[i] = CdbField
      BY DEF Repeat
  <2> HIDE DEF b
  <2> QED BY <2>1, FunctionIs
<1>4. IsSequence(c) /\ Len(c) = 0
  <2>1. c = [i \in 1..0 |-> c[i]]
      BY DEF Repeat
  <2> HIDE DEF c
  <2> QED BY <2>1, FunctionIs
<1>5. IsSequence(d) /\ Len(d) = 5 /\ \A i \in 1..5 : d[i] = CdbRecord(i)
  <2>1. d = [i \in 1..5 |-> d[i]] /\ \A i \in 1..5 : d[i] = CdbRecord(i)
      OBVIOUS
  <2> HIDE DEF d
  <2> QED BY <2>1, FunctionIs
<1>6. IsSequence(<<CdbFoot>>) /\ Len(<<CdbFoot>>) = 1 /\ <<CdbFoot>>[1] = CdbFoot
    BY SingleSequence
<1> HIDE DEF b, c, d
<1>7. IsSequence(u) /\ Len(u) = 4 /\ u[1] = CdbHead /\ \A i \in 1..3 : u[1 + i] = CdbField
  <2>1. Join(u, <<CdbHead>>, b) /\ 1 \in 1..1
      BY <1>2, <1>3, Joined
  <2> HIDE DEF u
  <2> QED BY <1>2, <1>3, <2>1 DEF Join
<1> HIDE DEF u
<1>8. IsSequence(v) /\ Len(v) = 4 /\ \A i \in 1..4 : v[i] = u[i]
  <2>1. Join(v, u, c)
      BY <1>4, <1>7, Joined
  <2> HIDE DEF v
  <2> QED BY <1>4, <1>7, <2>1 DEF Join
<1> HIDE DEF v
<1>9. /\ IsSequence(w) /\ Len(w) = 9 /\ (\A i \in 1..4 : w[i] = u[i])
      /\ \A i \in 1..5 : w[4 + i] = CdbRecord(i)
  <2>1. Join(w, v, d)
      BY <1>5, <1>8, Joined
  <2> HIDE DEF w
  <2> QED BY <1>5, <1>8, <2>1 DEF Join
<1> HIDE DEF w
<1>10. IsSequence(x) /\ Len(x) = 10 /\ (\A i \in 1..9 : x[i] = w[i]) /\ x[10] = CdbFoot
  <2>1. Join(x, w, <<CdbFoot>>) /\ 1 \in 1..1
      BY <1>6, <1>9, Joined
  <2> HIDE DEF x
  <2> QED BY <1>6, <1>9, <2>1 DEF Join
<1> HIDE DEF x
<1>12. ASSUME NEW i \in 2..4
       PROVE  x[i] = CdbField
    BY <1>7, <1>9, <1>10
<1>13. ASSUME NEW i \in 5..9
       PROVE  x[i] = CdbRecord(i - 4)
    BY <1>10, <1>9
<1> QED BY <1>1, <1>10, <1>12, <1>13, <1>7, <1>9

\* Where they are.
LEMMA CdbPlaces ==
    /\ Wide(CdbCells) /\ At(CdbCells, 0) = CdbHead
    /\ \A i \in 0..2 : At(CdbCells, 32 + i * 32) = CdbField
    /\ \A i \in 0..4 : At(CdbCells, 128 + i * 68) = CdbRecord(i + 1)
    /\ At(CdbCells, 468) = CdbFoot
<1> DEFINE c == CdbCells
<1>1. WidthOf(CdbHead) = 32
  <2>1. "width" \in DOMAIN CdbHead /\ CdbHead.width = 32
      BY DEF CdbHead
  <2> QED BY <2>1 DEF WidthOf
<1>2. WidthOf(CdbField) = 32
  <2>1. "width" \in DOMAIN CdbField /\ CdbField.width = 32
      BY DEF CdbField
  <2> QED BY <2>1 DEF WidthOf
<1>3. \A i : WidthOf(CdbRecord(i)) = 68
  <2> TAKE i
  <2> DEFINE r == CdbRecord(i)
  <2>1. "width" \in DOMAIN r /\ r.width = 68
      BY DEF CdbRecord
  <2> HIDE DEF r
  <2>2. WidthOf(r) = 68
      BY <2>1 DEF WidthOf
  <2> QED BY <2>2 DEF r
<1>4. WidthOf(CdbFoot) = 12
  <2>1. "width" \in DOMAIN CdbFoot /\ CdbFoot.width = 12
      BY DEF CdbFoot
  <2> QED BY <2>1 DEF WidthOf
<1>5. /\ IsSequence(c) /\ Len(c) = 10 /\ c[1] = CdbHead /\ (\A i \in 2..4 : c[i] = CdbField)
      /\ (\A i \in 5..9 : c[i] = CdbRecord(i - 4)) /\ c[10] = CdbFoot
    BY CdbCellsAre
<1> HIDE DEF c
<1>6. /\ WidthOf(c[1]) = 32 /\ (\A i \in 2..4 : WidthOf(c[i]) = 32)
      /\ (\A i \in 5..9 : WidthOf(c[i]) = 68) /\ WidthOf(c[10]) = 12
    BY <1>1, <1>2, <1>3, <1>4, <1>5
<1>7. Wide(c)
  <2>1. ASSUME NEW i \in 1..10
        PROVE  WidthOf(c[i]) \in Nat \ {0}
    <3>1. i = 1 \/ i \in 2..4 \/ i \in 5..9 \/ i = 10
        OBVIOUS
    <3> QED BY <1>6, <3>1
  <2> QED BY <1>5, <2>1 DEF Wide
<1>8. PICK f : Sizes(c, f)
    BY <1>7, SizesAre
<1>9. f[0] = 0 /\ \A n \in 1..10 : f[n] = f[n - 1] + WidthOf(c[n])
    BY <1>5, <1>8 DEF Sizes
<1>10. \A n \in 0..3 : f[n + 1] = 32 + n * 32
  <2>1. 1 \in 1..10 /\ 2 \in 1..10 /\ 3 \in 1..10 /\ 4 \in 1..10
      OBVIOUS
  <2>2. f[1] = 32 /\ f[2] = 64 /\ f[3] = 96 /\ f[4] = 128
      BY <1>6, <1>9, <2>1
  <2> QED BY <2>2
<1>11. \A n \in 0..5 : f[n + 4] = 128 + n * 68
  <2>1. 5 \in 1..10 /\ 6 \in 1..10 /\ 7 \in 1..10 /\ 8 \in 1..10 /\ 9 \in 1..10
      OBVIOUS
  <2>2. f[4] = 128
      BY <1>10
  <2>3. \A n \in 5..9 : f[n] = f[n - 1] + 68
    <3> TAKE n \in 5..9
    <3>1. n \in 1..10
        OBVIOUS
    <3> QED BY <1>6, <1>9, <3>1
  <2>4. f[5] = 196 /\ f[6] = 264 /\ f[7] = 332
      BY <2>2, <2>3
  <2>5. f[8] = 400 /\ f[9] = 468
      BY <2>3, <2>4
  <2> QED BY <2>2, <2>4, <2>5
<1>12. \A n \in 1..10 : At(c, f[n - 1]) = c[n]
  <2> TAKE n \in 1..10
  <2>1. n \in 1..Len(c)
      BY <1>5
  <2> QED BY <1>7, <1>8, <2>1, AtNth
<1>13. At(c, 0) = CdbHead
  <2>1. 1 \in 1..10 /\ 1 - 1 = 0
      OBVIOUS
  <2> QED BY <1>5, <1>9, <1>12, <2>1
<1>14. ASSUME NEW i \in 0..2
       PROVE  At(c, 32 + i * 32) = CdbField
  <2>1. PICK n \in 1..10 : n = i + 2 /\ n - 1 = i + 1 /\ n \in 2..4
    <3>1. i + 2 \in 1..10 /\ (i + 2) - 1 = i + 1 /\ i + 2 \in 2..4
        OBVIOUS
    <3> QED BY <3>1
  <2>2. f[n - 1] = 32 + i * 32
      BY <1>10, <2>1
  <2> QED BY <1>5, <1>12, <2>1, <2>2
<1>15. ASSUME NEW i \in 0..4
       PROVE  At(c, 128 + i * 68) = CdbRecord(i + 1)
  <2>1. PICK n \in 1..10 : n = i + 5 /\ n - 1 = i + 4 /\ n \in 5..9 /\ n - 4 = i + 1
    <3>1. i + 5 \in 1..10 /\ (i + 5) - 1 = i + 4 /\ i + 5 \in 5..9 /\ (i + 5) - 4 = i + 1
        OBVIOUS
    <3> QED BY <3>1
  <2>2. f[n - 1] = 128 + i * 68
      BY <1>11, <2>1
  <2> QED BY <1>5, <1>12, <2>1, <2>2
<1>16. At(c, 468) = CdbFoot
  <2>1. 10 \in 1..10 /\ 10 - 1 = 9 /\ f[9] = 468
      BY <1>11
  <2> QED BY <1>5, <1>12, <2>1
<1> QED BY <1>7, <1>13, <1>14, <1>15, <1>16 DEF c

\* The pattern follows what generate_cdb has written (ch06_fileformat.hexpat).
LEMMA CdbIsFollowed == CdbFollowed(CdbCells)
<1> DEFINE c == CdbCells
<1>1. c[1] = CdbHead
    BY CdbCellsAre
<1>2. /\ At(c, 0) = CdbHead /\ At(c, 468) = CdbFoot
      /\ \A i \in 0..2 : At(c, 32 + i * 32) = CdbField
      /\ \A i \in 0..4 : At(c, 128 + i * 68) = CdbRecord(i + 1)
    BY CdbPlaces
<1> HIDE DEF c
<1>3. /\ CDB_HEADER_SIZE = 32 /\ CDB_FIELD_DESC_SIZE = 32 /\ CDB_RECORD_SIZE = 68
    BY DEF CDB_HEADER_SIZE, CDB_FIELD_DESC_SIZE, CDB_RECORD_SIZE
<1>4. /\ c[1].data_offset = 128 /\ c[1].record_count = 5 /\ c[1].field_count = 3
      /\ CdbHead.kind = "cdb" /\ CdbField.kind = "field"
      /\ CdbFoot.kind = "cdb footer" /\ CdbFoot.record_count = 5 /\ CdbFoot.data_end_offset = 468
    BY <1>1 DEF CdbHead, CdbField, CdbFoot
<1>5. 128 + 5 * 68 = 468 /\ 3 - 1 = 2 /\ 5 - 1 = 4
    OBVIOUS
<1>6. \A i : CdbRecord(i) = [kind |-> "cdb record", width |-> CDB_RECORD_SIZE, record_id |-> i]
    BY <1>3 DEF CdbRecord
<1> DEFINE h == c[1]
<1>7. h.data_offset = 128 /\ h.record_count = 5 /\ h.field_count = 3
    BY <1>4
<1> HIDE DEF h
<1>8. At(c, 0).kind = "cdb"
    BY <1>2, <1>4
<1>9. \A i \in 0..h.field_count - 1 : At(c, CDB_HEADER_SIZE + i * CDB_FIELD_DESC_SIZE).kind = "field"
  <2>1. h.field_count - 1 = 2
      BY <1>5, <1>7
  <2>2. \A i \in 0..2 : At(c, 32 + i * 32).kind = "field"
    <3> TAKE i \in 0..2
    <3>1. At(c, 32 + i * 32) = CdbField
        BY <1>2
    <3> QED BY <1>4, <3>1
  <2>3. \A i \in 0..2 : CDB_HEADER_SIZE + i * CDB_FIELD_DESC_SIZE = 32 + i * 32
      BY <1>3
  <2> QED BY <2>1, <2>2, <2>3
<1>10. \A i \in 0..h.record_count - 1 :
          At(c, h.data_offset + i * CDB_RECORD_SIZE)
              = [kind |-> "cdb record", width |-> CDB_RECORD_SIZE, record_id |-> i + 1]
  <2> HIDE DEF CdbRecord
  <2>1. h.record_count - 1 = 4
      BY <1>5, <1>7
  <2>2. \A i \in 0..4 : At(c, 128 + i * 68)
              = [kind |-> "cdb record", width |-> CDB_RECORD_SIZE, record_id |-> i + 1]
      BY <1>2, <1>6, Zenon
  <2>3. \A i \in 0..4 : At(c, h.data_offset + i * CDB_RECORD_SIZE)
              = [kind |-> "cdb record", width |-> CDB_RECORD_SIZE, record_id |-> i + 1]
    <3> TAKE i \in 0..4
    <3>1. h.data_offset + i * CDB_RECORD_SIZE = 128 + i * 68
        BY <1>3, <1>7
    <3> QED BY <2>2, <3>1
  <2> HIDE DEF c
  <2> QED BY <2>1, <2>3
<1>11. h.data_offset + h.record_count * CDB_RECORD_SIZE = 468
    BY <1>3, <1>5, <1>7
<1>12. /\ At(c, 468).kind = "cdb footer" /\ At(c, 468).record_count = h.record_count
       /\ At(c, 468).data_end_offset = 468
  <2>1. At(c, 468) = CdbFoot
      BY <1>2
  <2>2. CdbFoot.kind = "cdb footer" /\ CdbFoot.data_end_offset = 468
      BY <1>4
  <2>3. CdbFoot.record_count = h.record_count
      BY <1>4, <1>7
  <2> QED BY <2>1, <2>2, <2>3, ZenonT(30)
<1> DEFINE Fields == \A i \in 0..h.field_count - 1 :
                        At(c, CDB_HEADER_SIZE + i * CDB_FIELD_DESC_SIZE).kind = "field"
           Recs == \A i \in 0..h.record_count - 1 :
                      At(c, h.data_offset + i * CDB_RECORD_SIZE)
                          = [kind |-> "cdb record", width |-> CDB_RECORD_SIZE, record_id |-> i + 1]
           footer == h.data_offset + h.record_count * CDB_RECORD_SIZE
<1>13. CdbFollowed(c) <=>
          /\ At(c, 0).kind = "cdb" /\ Fields /\ Recs
          /\ At(c, footer).kind = "cdb footer"
          /\ At(c, footer).record_count = h.record_count
          /\ At(c, footer).data_end_offset = footer
    BY Zenon DEF CdbFollowed, h
<1>14. Fields /\ Recs /\ footer = 468
    BY <1>9, <1>10, <1>11
<1> HIDE DEF Fields, Recs, footer
<1>15. CdbFollowed(c)
    BY <1>8, <1>12, <1>13, <1>14, ZenonT(30)
<1> QED BY <1>15 DEF c

\* Only the last of its cells is a footer, and it does not begin as a capture.
LEMMA CdbSealed ==
    ASSUME NEW cells, Begins(cells, CdbCells), cells # <<>>
    PROVE  /\ cells[1].kind = "cdb"
           /\ cells[Len(cells)].kind = "cdb footer" => CdbFollowed(cells)
<1>1. /\ Len(CdbCells) = 10 /\ IsSequence(CdbCells) /\ CdbCells[1] = CdbHead
      /\ (\A i \in 2..4 : CdbCells[i] = CdbField)
      /\ \A i \in 5..9 : CdbCells[i] = CdbRecord(i - 4)
    BY CdbCellsAre
<1>2. IsSequence(cells) /\ Len(cells) <= 10 /\ \A i \in 1..Len(cells) : cells[i] = CdbCells[i]
    BY <1>1 DEF Begins
<1>3. PICK n \in Nat : n = Len(cells)
    BY <1>2, IndexSet
<1>4. n \in 1..10
  <2>1. n <= 10
      BY <1>2, <1>3
  <2>2. n # 0
      BY <1>2, <1>3, EmptySequence
  <2> QED BY <2>1, <2>2
<1>5. cells[1].kind = "cdb"
    BY <1>1, <1>2, <1>3, <1>4 DEF CdbHead
<1>6. ASSUME cells[n].kind = "cdb footer"
      PROVE  cells = CdbCells
  <2>1. cells[n] = CdbCells[n]
      BY <1>2, <1>3, <1>4
  <2>2. CdbHead.kind # "cdb footer" /\ CdbField.kind # "cdb footer"
      BY DEF CdbHead, CdbField
  <2>3. \A i : CdbRecord(i).kind # "cdb footer"
      BY DEF CdbRecord
  <2>4. n = 1 \/ n \in 2..4 \/ n \in 5..9 \/ n = 10
      BY <1>4
  <2>5. n = 10
      BY <1>1, <1>6, <2>1, <2>2, <2>3, <2>4
  <2> QED BY <1>1, <1>2, <1>3, <2>5, SameSequence
<1>7. ASSUME cells[n].kind = "cdb footer"
      PROVE  CdbFollowed(cells)
  <2>1. cells = CdbCells
      BY <1>6, <1>7
  <2> QED BY <2>1, CdbIsFollowed, Zenon
<1> QED BY <1>3, <1>5, <1>7

\* The packets of generate_pkt (fileformat.c:335-525).
LEMMA PacketsAre ==
    Len(Packets) = 7 /\ \A n \in 1..7 : Packets[n].length \in Nat \ {0} /\ Packets[n].has_crc \in BOOLEAN
<1>1. Len(Packets) = 7
    BY DEF Packets
<1>2. ASSUME NEW n \in 1..7
      PROVE  Packets[n].length \in Nat \ {0} /\ Packets[n].has_crc \in BOOLEAN
  <2>1. n = 1 \/ n = 2 \/ n = 3 \/ n = 4 \/ n = 5 \/ n = 6 \/ n = 7
      OBVIOUS
  <2> HIDE DEF Packet
  <2>2. /\ Packets[1] = Packet("HANDSHAKE_INIT", FALSE, 20)
        /\ Packets[2] = Packet("HANDSHAKE_ACK", TRUE, 22)
        /\ Packets[3] = Packet("AUTH_REQUEST", TRUE, 64)
        /\ Packets[4] = Packet("AUTH_RESPONSE", FALSE, 40)
        /\ Packets[5] = Packet("DATA_TRANSFER", TRUE, 36)
        /\ Packets[6] = Packet("DATA_TRANSFER", TRUE, 48)
        /\ Packets[7] = Packet("DISCONNECT", FALSE, 32)
      BY DEF Packets
  <2>6. Packets[n].has_crc \in BOOLEAN
    <3>1. /\ Packets[1].has_crc = FALSE /\ Packets[2].has_crc = TRUE /\ Packets[3].has_crc = TRUE
          /\ Packets[4].has_crc = FALSE /\ Packets[5].has_crc = TRUE /\ Packets[6].has_crc = TRUE
          /\ Packets[7].has_crc = FALSE
        BY <2>2 DEF Packet
    <3> QED BY <2>1, <3>1
  <2> QED BY <2>6, <2>1, <2>2 DEF Packet
<1> QED BY <1>1, <1>2

PacketHead(n) ==
    [kind |-> "packet", width |-> PACKET_HEADER_SIZE, seq |-> n, type |-> Packets[n].type,
     has_crc |-> Packets[n].has_crc, payload_length |-> Packets[n].length]
PacketCrc(n) == [kind |-> "crc", width |-> 4, crc |-> Crc32Of(<<Payload(n)>>)]

CrcSize(n) == IF Packets[n].has_crc THEN 4 ELSE 0

\* What write_packet writes.
LEMMA PacketIs ==
    ASSUME NEW n \in 1..7
    PROVE  /\ Wide(PacketCells(n)) /\ SizeOf(PacketCells(n)) = 16 + Packets[n].length + CrcSize(n)
           /\ Len(PacketCells(n)) = (IF Packets[n].has_crc THEN 3 ELSE 2)
           /\ PacketCells(n)[1] = PacketHead(n) /\ PacketCells(n)[2] = Payload(n)
           /\ Packets[n].has_crc => PacketCells(n)[3] = PacketCrc(n)
<1> DEFINE h == PacketHead(n)
           p == Payload(n)
           c == PacketCrc(n)
           l == Packets[n].length
           t == IF Packets[n].has_crc THEN <<c>> ELSE <<>>
           a == <<h>> \o <<p>>
           u == a \o t
<1>1. l \in Nat \ {0} /\ Packets[n].has_crc \in BOOLEAN
    BY PacketsAre
<1>2. WidthOf(h) = 16
  <2>1. "width" \in DOMAIN h /\ h.width = 16
      BY DEF PacketHead, PACKET_HEADER_SIZE
  <2> HIDE DEF h
  <2> QED BY <2>1 DEF WidthOf
<1>3. WidthOf(p) = l
  <2>1. "width" \in DOMAIN p /\ p.width = l
      BY DEF Payload
  <2> HIDE DEF p
  <2> QED BY <2>1 DEF WidthOf
<1>4. WidthOf(c) = 4
  <2>1. "width" \in DOMAIN c /\ c.width = 4
      BY DEF PacketCrc
  <2> HIDE DEF c
  <2> QED BY <2>1 DEF WidthOf
<1>5. PacketCells(n) = <<h, p>> \o t
    BY DEF PacketCells, PacketHead, PacketCrc
<1> HIDE DEF h, p, c, l
<1>7. Wide(<<h>>) /\ SizeOf(<<h>>) = 16 /\ Wide(<<p>>) /\ SizeOf(<<p>>) = l
    BY <1>1, <1>2, <1>3, SizeOfOne
<1>8. Wide(t) /\ SizeOf(t) = CrcSize(n) /\ Len(t) = (IF Packets[n].has_crc THEN 1 ELSE 0)
      /\ (Packets[n].has_crc => t[1] = c) /\ CrcSize(n) \in Nat
    BY <1>4, SizeOfOne, EmptySequence, NoSize, SingleSequence DEF Wide, CrcSize
<1>9. Wide(a) /\ SizeOf(a) = 16 + l
    BY <1>7, SizeTogether
<1>10. Join(a, <<h>>, <<p>>)
    BY <1>7, Joined DEF Wide
<1>11. Len(<<h>>) = 1 /\ <<h>>[1] = h /\ Len(<<p>>) = 1 /\ <<p>>[1] = p
    BY SingleSequence
<1> HIDE DEF a, t
<1>12. Len(a) = 2 /\ a[1] = h /\ a[2] = p
  <2>1. 1 \in 1..1 /\ 1 + 1 = 2
      OBVIOUS
  <2> QED BY <1>10, <1>11, <2>1 DEF Join
<1>13. Wide(u) /\ SizeOf(u) = 16 + l + CrcSize(n)
    BY <1>8, <1>9, SizeTogether
<1>14. Join(u, a, t)
    BY <1>8, <1>9, Joined DEF Wide
<1> HIDE DEF u
<1>15. /\ Len(u) = 2 + Len(t) /\ u[1] = a[1] /\ u[2] = a[2]
       /\ Packets[n].has_crc => u[3] = t[1]
    BY <1>8, <1>12, <1>14 DEF Join
<1>16. Len(u) = IF Packets[n].has_crc THEN 3 ELSE 2
    BY <1>1, <1>8, <1>15
<1>17. PacketCells(n) = u
  <2> DEFINE z == <<h, p>>
  <2>2. IsSequence(z) /\ Len(z) = 2 /\ \A i \in 1..2 : z[i] = a[i]
      BY <1>12 DEF IsSequence
  <2> HIDE DEF z
  <2>3. z = a
      BY <1>9, <1>12, <2>2, SameSequence DEF Wide
  <2> QED BY <1>5, <2>3 DEF u, z
<1>18. Packets[n].has_crc => u[3] = c
    BY <1>8, <1>15
<1> QED BY <1>12, <1>13, <1>15, <1>16, <1>17, <1>18 DEF h, p, c, l

Session == [kind |-> "session", width |-> SESSION_SIZE]
PacketsOf == [n \in 1..7 |-> PacketCells(n)]

\* The body of a capture behind its n-th packet.
Bodies(F, h) == Accumulates(F, 7, <<h, Session>>, PacketsOf)

LEMMA BodyGrows ==
    ASSUME NEW h
    PROVE  \E F : Bodies(F, h) /\ Body(h) = F[7]
<1> DEFINE a == <<h, Session>>
           b == PacketsOf
           Is(g) == g = [n \in 0..7 |-> IF n = 0 THEN a ELSE g[n - 1] \o PacketCells(n)]
           F == CHOOSE g : Is(g)
<1>1. Body(h) = F[7]
    BY PacketsAre DEF Body, Session
<1>2. PICK f : Accumulates(f, 7, a, b)
    BY Accumulated
<1>3. \A n \in 1..7 : b[n] = PacketCells(n)
    BY DEF PacketsOf
<1> HIDE DEF a, b
<1>4. \A g : Is(g) <=> Accumulates(g, 7, a, b)
  <2> TAKE g
  <2>1. \A n \in 0..7 : n # 0 => g[n - 1] \o PacketCells(n) = g[n - 1] \o b[n]
    <3> TAKE n \in 0..7
    <3>1. n # 0 => n \in 1..7
        OBVIOUS
    <3> QED BY <1>3, <3>1
  <2> QED BY <2>1 DEF Accumulates
<1>5. Is(F)
  <2>1. Is(f)
      BY <1>2, <1>4
  <2> HIDE DEF Is
  <2> QED BY <2>1
<1> HIDE DEF Is, F
<1> QED BY <1>1, <1>4, <1>5 DEF Bodies, a, b

\* What is counted of a cell by the sum of the payload lengths.
Weight(c) == IF c.kind = "packet" THEN c.payload_length ELSE 0

\* A cell of a packet.
InPacket(c) == c.kind \in {"packet", "payload", "crc"} /\ Weight(c) \in Nat

LEMMA PacketWeighs ==
    ASSUME NEW n \in 1..7
    PROVE  /\ Weight(PacketCells(n)[1]) = Packets[n].length
           /\ \A j \in 2..Len(PacketCells(n)) : Weight(PacketCells(n)[j]) = 0
           /\ \A j \in 1..Len(PacketCells(n)) : InPacket(PacketCells(n)[j])
<1> DEFINE c == PacketCells(n)
<1>1. /\ Len(c) = (IF Packets[n].has_crc THEN 3 ELSE 2) /\ c[1] = PacketHead(n) /\ c[2] = Payload(n)
      /\ Packets[n].has_crc => c[3] = PacketCrc(n)
    BY PacketIs
<1>2. Packets[n].length \in Nat /\ Packets[n].has_crc \in BOOLEAN
    BY PacketsAre
<1> HIDE DEF c
<1>6. Weight(c[1]) = Packets[n].length /\ InPacket(c[1])
    BY <1>2, <1>1 DEF Weight, InPacket, PacketHead
<1>8. Packets[n].has_crc => Weight(c[3]) = 0 /\ InPacket(c[3])
    BY <1>1 DEF Weight, InPacket, PacketCrc
<1>9. ASSUME NEW j \in 1..Len(c)
      PROVE  InPacket(c[j]) /\ (j # 1 => Weight(c[j]) = 0)
    BY <1>1, <1>2, <1>6, <1>8 DEF Weight, InPacket, Payload
<1> QED BY <1>6, <1>9, <1>1, <1>2 DEF c

\* The first cell, as wide as a header of a capture.
HeaderLike(h) == WidthOf(h) = 32

\* A body, packet by packet.
LEMMA BodyIs ==
    ASSUME NEW h, HeaderLike(h), NEW F, Bodies(F, h)
    PROVE  /\ Wide(F[0]) /\ SizeOf(F[0]) = 80 /\ Len(F[0]) = 2 /\ F[0][1] = h /\ F[0][2] = Session
           /\ \A n \in 0..7 : Wide(F[n]) /\ Begins(F[n], F[7])
           /\ \A n \in 1..7 : /\ Join(F[n], F[n - 1], PacketCells(n))
                              /\ SizeOf(F[n]) = SizeOf(F[n - 1]) + SizeOf(PacketCells(n))
<1> DEFINE a == <<h, Session>>
           b == PacketsOf
<1>1. WidthOf(Session) = 48
    BY DEF Session, SESSION_SIZE, WidthOf
<1>2. IsSequence(a) /\ Len(a) = 2 /\ a[1] = h /\ a[2] = Session
    BY DEF IsSequence
<1> HIDE DEF a
<1>3. Wide(a)
  <2>1. \A i \in 1..2 : WidthOf(a[i]) \in Nat \ {0}
    <3> TAKE i \in 1..2
    <3> QED BY <1>1, <1>2 DEF HeaderLike
  <2> QED BY <1>2, <2>1 DEF Wide
<1>4. SizeOf(a) = 80
    BY <1>2, <1>3, SizesAre, <1>1 DEF Sizes, HeaderLike
<1>5. \A n \in 1..7 : b[n] = PacketCells(n) /\ Wide(b[n])
    BY PacketIs DEF PacketsOf
<1>6. Accumulates(F, 7, a, b)
    BY DEF Bodies, a
<1> HIDE DEF b
<1>7. /\ F[0] = a /\ \A n \in 1..7 : F[n] = F[n - 1] \o b[n]
      /\ \A n \in 0..7 : Wide(F[n]) /\ Begins(F[n], F[7])
    BY <1>3, <1>5, <1>6, AccumulatedBegins
<1>8. ASSUME NEW n \in 1..7
      PROVE  /\ Join(F[n], F[n - 1], PacketCells(n))
             /\ SizeOf(F[n]) = SizeOf(F[n - 1]) + SizeOf(PacketCells(n))
  <2>1. n - 1 \in 0..7
      OBVIOUS
  <2>2. F[n] = F[n - 1] \o PacketCells(n) /\ Wide(F[n - 1]) /\ Wide(PacketCells(n))
      BY <1>5, <1>7, <2>1
  <2> QED BY <2>2, SizeTogether, Joined DEF Wide
<1> QED BY <1>2, <1>3, <1>4, <1>7, <1>8

\* Behind their headers all bodies are the same.
Alike(s, t) == /\ Len(s) \in Nat /\ Len(t) = Len(s) /\ SizeOf(t) = SizeOf(s)
               /\ \A i \in 2..Len(s) : t[i] = s[i]

LEMMA BodiesAlike ==
    ASSUME NEW h, HeaderLike(h), NEW F, Bodies(F, h), NEW g, HeaderLike(g), NEW G, Bodies(G, g)
    PROVE  Alike(F[7], G[7])
<1>1. /\ SizeOf(F[0]) = 80 /\ Len(F[0]) = 2 /\ F[0][2] = Session
      /\ \A n \in 1..7 : /\ Join(F[n], F[n - 1], PacketCells(n))
                         /\ SizeOf(F[n]) = SizeOf(F[n - 1]) + SizeOf(PacketCells(n))
    BY BodyIs
<1>2. /\ SizeOf(G[0]) = 80 /\ Len(G[0]) = 2 /\ G[0][2] = Session
      /\ \A n \in 1..7 : /\ Join(G[n], G[n - 1], PacketCells(n))
                         /\ SizeOf(G[n]) = SizeOf(G[n - 1]) + SizeOf(PacketCells(n))
    BY BodyIs
<1> DEFINE T == {n \in Nat : n <= 7 => Alike(F[n], G[n])}
<1>3. 0 \in T
    BY <1>1, <1>2 DEF Alike
<1>4. \A n \in T : n + 1 \in T
  <2> SUFFICES ASSUME NEW n \in T, n + 1 <= 7 PROVE Alike(F[n + 1], G[n + 1])
      OBVIOUS
  <2>1. PICK m \in 1..7 : m = n + 1 /\ m - 1 = n
      OBVIOUS
  <2> DEFINE p == PacketCells(m)
             s == F[n]
             t == G[n]
             u == F[m]
             v == G[m]
  <2>2. Alike(s, t) /\ n \in 0..7
      BY <2>1
  <2>3. Join(u, s, p) /\ SizeOf(u) = SizeOf(s) + SizeOf(p) /\ Join(v, t, p)
        /\ SizeOf(v) = SizeOf(t) + SizeOf(p)
      BY <1>1, <1>2, <2>1
  <2> HIDE DEF p, s, t, u, v
  <2>4. PICK k \in Nat : k = Len(s) /\ k = Len(t)
      BY <2>2 DEF Alike
  <2>5. PICK l \in Nat : l = Len(p)
      BY <2>3 DEF Join
  <2>6. /\ Len(u) = k + l /\ Len(v) = k + l
        /\ (\A i \in 1..k : u[i] = s[i] /\ v[i] = t[i])
        /\ \A i \in 1..l : u[k + i] = p[i] /\ v[k + i] = p[i]
      BY <2>3, <2>4, <2>5 DEF Join
  <2>7. ASSUME NEW i \in 2..k + l
        PROVE  v[i] = u[i]
    <3>1. CASE i <= k
        BY <3>1, <2>2, <2>4, <2>6 DEF Alike
    <3>2. CASE ~(i <= k)
      <4>1. PICK j \in 1..l : i = k + j
          BY <3>2
      <4> QED BY <2>6, <4>1
    <3> QED BY <3>1, <3>2
  <2>10. Alike(u, v)
      BY <2>6, <2>7, <2>2, <2>3 DEF Alike
  <2> QED BY <2>1, <2>10 DEF u, v
<1>5. T = Nat
  <2> HIDE DEF T
  <2> QED BY <1>3, <1>4, Induction DEF T
<1>6. 7 \in T
    BY <1>5
<1> QED BY <1>6

\* Its other cells are of packets.
LEMMA BodyInPackets ==
    ASSUME NEW h, HeaderLike(h), NEW F, Bodies(F, h)
    PROVE  \A i \in 3..Len(F[7]) : InPacket(F[7][i])
<1>1. /\ Len(F[0]) = 2
      /\ \A n \in 1..7 : Join(F[n], F[n - 1], PacketCells(n))
    BY BodyIs
<1> DEFINE T == {n \in Nat : n <= 7 => Len(F[n]) \in Nat /\ \A i \in 3..Len(F[n]) : InPacket(F[n][i])}
<1>2. 0 \in T
    BY <1>1
<1>3. \A n \in T : n + 1 \in T
  <2> SUFFICES ASSUME NEW n \in T, n + 1 <= 7
               PROVE  Len(F[n + 1]) \in Nat /\ \A i \in 3..Len(F[n + 1]) : InPacket(F[n + 1][i])
      OBVIOUS
  <2>1. PICK m \in 1..7 : m = n + 1 /\ m - 1 = n
      OBVIOUS
  <2> DEFINE p == PacketCells(m)
             s == F[n]
             u == F[m]
  <2>2. Len(s) \in Nat /\ \A i \in 3..Len(s) : InPacket(s[i])
      BY <2>1
  <2>3. Join(u, s, p)
      BY <1>1, <2>1
  <2>4. \A j \in 1..Len(p) : InPacket(p[j])
      BY PacketWeighs
  <2> HIDE DEF p, s, u
  <2>5. PICK k \in Nat : k = Len(s)
      BY <2>2
  <2>6. PICK l \in Nat : l = Len(p)
      BY <2>3 DEF Join
  <2>7. /\ Len(u) = k + l /\ (\A i \in 1..k : u[i] = s[i]) /\ \A i \in 1..l : u[k + i] = p[i]
      BY <2>3, <2>5, <2>6 DEF Join
  <2>8. ASSUME NEW i \in 3..k + l
        PROVE  InPacket(u[i])
    <3>1. CASE i <= k
        BY <3>1, <2>2, <2>5, <2>7
    <3>2. CASE ~(i <= k)
      <4>1. PICK j \in 1..l : i = k + j
          BY <3>2
      <4> QED BY <2>4, <2>6, <2>7, <4>1
    <3> QED BY <3>1, <3>2
  <2> QED BY <2>1, <2>7, <2>8 DEF u
<1>4. T = Nat
  <2> HIDE DEF T
  <2> QED BY <1>2, <1>3, Induction DEF T
<1>5. 7 \in T
    BY <1>4
<1> QED BY <1>5

\* The sums of the first n of N numbers.
Sums(f, N, w) == f = [n \in 0..N |-> IF n = 0 THEN 0 ELSE f[n - 1] + w[n]]

LEMMA Summed ==
    ASSUME NEW N \in Nat, NEW w, \A n \in 1..N : w[n] \in Nat
    PROVE  \E f : Sums(f, N, w)
<1> DEFINE step == [n \in 1..N |-> [x \in Nat |-> x + w[n]]]
<1>1. step \in [1..N -> [Nat -> Nat]]
    OBVIOUS
<1>2. \A n \in 1..N : \A x \in Nat : step[n][x] = x + w[n]
    OBVIOUS
<1> HIDE DEF step
<1>3. PICK f : Recursive(f, N, Nat, 0, step)
    BY <1>1, Recursion
<1>4. f \in [0..N -> Nat] /\ f[0] = 0 /\ \A n \in 1..N : f[n] = step[n][f[n - 1]]
    BY <1>3 DEF Recursive
<1>5. \A n \in 0..N : f[n] = IF n = 0 THEN 0 ELSE f[n - 1] + w[n]
  <2> TAKE n \in 0..N
  <2>1. CASE n = 0
      BY <1>4, <2>1
  <2>2. CASE n # 0
    <3>1. n \in 1..N /\ n - 1 \in 0..N
        BY <2>2
    <3>2. f[n - 1] \in Nat
        BY <1>4, <3>1
    <3> QED BY <1>2, <1>4, <2>2, <3>1, <3>2
  <2> QED BY <2>1, <2>2
<1>6. Sums(f, N, w)
    BY <1>4, <1>5 DEF Sums
<1> QED BY <1>6

LEMMA SumsAre ==
    ASSUME NEW N \in Nat, NEW w, NEW f, Sums(f, N, w)
    PROVE  f[0] = 0 /\ \A n \in 1..N : f[n] = f[n - 1] + w[n]
BY DEF Sums

\* PayloadTotal, packet by packet,
LEMMA TotalIs ==
    \E f : /\ f[0] = 0 /\ PayloadTotal(7) = f[7]
           /\ \A n \in 1..7 : f[n] = f[n - 1] + Packets[n].length
<1> DEFINE w == [n \in 1..7 |-> Packets[n].length]
           Is(g) == g = [i \in 0..7 |-> IF i = 0 THEN 0 ELSE g[i - 1] + Packets[i].length]
           f == CHOOSE g : Is(g)
<1>1. PayloadTotal(7) = f[7]
    BY DEF PayloadTotal
<1>2. \A n \in 1..7 : w[n] = Packets[n].length /\ w[n] \in Nat
    BY PacketsAre
<1> HIDE DEF w
<1>3. \A g : Is(g) <=> Sums(g, 7, w)
  <2> TAKE g
  <2>1. \A n \in 0..7 : n # 0 => g[n - 1] + Packets[n].length = g[n - 1] + w[n]
    <3> TAKE n \in 0..7
    <3> QED BY <1>2
  <2> QED BY <2>1 DEF Sums
<1>4. \E g : Is(g)
  <2> HIDE DEF Is
  <2> QED BY <1>3, <1>2, Summed
<1>5. Is(f)
    BY <1>4
<1> HIDE DEF Is, f
<1> QED BY <1>1, <1>2, <1>3, <1>5, SumsAre

\* and PayloadBytes, cell by cell.
LEMMA BytesAre ==
    ASSUME NEW cells, IsSequence(cells), \A i \in 1..Len(cells) : Weight(cells[i]) \in Nat
    PROVE  \E f : /\ f \in [0..Len(cells) -> Nat] /\ f[0] = 0 /\ PayloadBytes(cells) = f[Len(cells)]
                  /\ \A n \in 1..Len(cells) : f[n] = f[n - 1] + Weight(cells[n])
<1>1. PICK N \in Nat : N = Len(cells)
    BY IndexSet
<1> DEFINE w == [n \in 1..N |-> Weight(cells[n])]
           Is(g) == g = [n \in 0..N |->
                            IF n = 0 THEN 0
                            ELSE g[n - 1] + (IF cells[n].kind = "packet" THEN cells[n].payload_length
                                             ELSE 0)]
           f == CHOOSE g : Is(g)
<1>2. PayloadBytes(cells) = f[N]
    BY <1>1 DEF PayloadBytes
<1>3. \A n \in 1..N : w[n] = Weight(cells[n]) /\ w[n] \in Nat
    BY <1>1
<1> HIDE DEF w
<1>4. \A g : Is(g) <=> Sums(g, N, w)
  <2> TAKE g
  <2>1. \A n \in 0..N : n # 0 =>
            g[n - 1] + (IF cells[n].kind = "packet" THEN cells[n].payload_length ELSE 0) = g[n - 1] + w[n]
    <3> TAKE n \in 0..N
    <3> QED BY <1>3 DEF Weight
  <2> QED BY <2>1 DEF Sums
<1>5. \E g : Is(g)
  <2> HIDE DEF Is
  <2> QED BY <1>4, <1>3, Summed
<1>6. Is(f)
    BY <1>5
<1> HIDE DEF Is, f
<1>7. f[0] = 0 /\ \A n \in 1..N : f[n] = f[n - 1] + w[n]
    BY <1>4, <1>6, SumsAre
<1> DEFINE T == {n \in Nat : n <= N => f[n] \in Nat}
<1>9. T = Nat
  <2>1. 0 \in T
      BY <1>7
  <2>2. \A n \in T : n + 1 \in T
    <3> SUFFICES ASSUME NEW n \in T, n + 1 <= N PROVE f[n + 1] \in Nat
        OBVIOUS
    <3> QED BY <1>3, <1>7
  <2> HIDE DEF T
  <2> QED BY <2>1, <2>2, Induction DEF T
<1>10. \A n \in 0..N : f[n] \in Nat
    BY <1>9
<1>11. f \in [0..N -> Nat]
    BY <1>10, <1>4, <1>6 DEF Sums
<1> QED BY <1>1, <1>2, <1>3, <1>7, <1>11

\* A file with a body and a footer.
Captured(cells, F, h, foot) ==
    /\ HeaderLike(h) /\ Bodies(F, h) /\ WidthOf(foot) = 16
    /\ cells = F[7] \o <<foot>>

Footed(cells, F, foot) ==
    /\ Wide(cells) /\ Wide(F[7]) /\ Join(cells, F[7], <<foot>>)
    /\ Len(F[7]) \in Nat /\ Len(cells) = Len(F[7]) + 1
    /\ SizeOf(F[7]) \in Nat /\ SizeOf(cells) = SizeOf(F[7]) + 16
    /\ cells[Len(F[7]) + 1] = foot /\ (\A i \in 1..Len(F[7]) : cells[i] = F[7][i])
    /\ \A n \in 0..7 : Begins(F[n], cells)

LEMMA CapturedIs ==
    ASSUME NEW cells, NEW F, NEW h, NEW foot, Captured(cells, F, h, foot)
    PROVE  Footed(cells, F, foot)
<1> DEFINE b == F[7]
           f == <<foot>>
<1>1. \A n \in 0..7 : Wide(F[n]) /\ Begins(F[n], b)
    BY BodyIs DEF Captured
<1>2. Wide(b)
    BY <1>1
<1>3. Wide(f) /\ SizeOf(f) = 16
    BY SizeOfOne DEF Captured
<1>4. IsSequence(f) /\ Len(f) = 1 /\ f[1] = foot
    BY SingleSequence
<1>5. cells = b \o f
    BY DEF Captured
<1> HIDE DEF b, f
<1>6. /\ Wide(cells) /\ Begins(b, cells) /\ SizeOf(b) \in Nat
      /\ SizeOf(cells) = SizeOf(b) + 16
    BY <1>2, <1>3, <1>5, SizeTogether
<1>7. Join(cells, b, f)
    BY <1>2, <1>3, <1>5, Joined DEF Wide
<1>8. Len(b) \in Nat /\ Len(cells) = Len(b) + 1 /\ cells[Len(b) + 1] = foot
    BY <1>4, <1>7 DEF Join
<1>9. \A i \in 1..Len(b) : cells[i] = b[i]
    BY <1>7 DEF Join
<1>10. \A n \in 0..7 : Begins(F[n], cells)
    BY <1>1, <1>6, BeginsInTurn
<1> QED BY <1>2, <1>6, <1>7, <1>8, <1>9, <1>10 DEF b, f, Footed

\* Where a packet is.
Lies(cells, F, n) ==
    /\ Len(F[n - 1]) \in Nat /\ Len(F[n]) = Len(F[n - 1]) + Len(PacketCells(n))
    /\ Len(F[n]) < Len(cells)
    /\ \A j \in 1..Len(PacketCells(n)) : cells[Len(F[n - 1]) + j] = PacketCells(n)[j]

LEMMA PacketLies ==
    ASSUME NEW cells, NEW F, NEW h, NEW foot, Captured(cells, F, h, foot), NEW n \in 1..7
    PROVE  Lies(cells, F, n)
<1> DEFINE p == PacketCells(n)
           s == F[n - 1]
           u == F[n]
<1>1. Join(u, s, p)
    BY BodyIs DEF Captured
<1>2. Begins(u, cells) /\ Len(F[7]) \in Nat /\ Len(cells) = Len(F[7]) + 1
  <2>1. n \in 0..7
      OBVIOUS
  <2> QED BY <2>1, CapturedIs DEF Footed
<1>3. Begins(u, F[7])
    BY BodyIs DEF Captured
<1> HIDE DEF p, s, u
<1>4. PICK k \in Nat : k = Len(s)
    BY <1>1 DEF Join
<1>5. PICK l \in Nat : l = Len(p)
    BY <1>1 DEF Join
<1>6. Len(u) = k + l /\ \A i \in 1..l : u[k + i] = p[i]
    BY <1>1, <1>4, <1>5 DEF Join
<1>7. Len(u) < Len(cells)
    BY <1>3, <1>2, <1>6 DEF Begins
<1>8. \A j \in 1..l : cells[k + j] = p[j]
  <2> TAKE j \in 1..l
  <2> QED BY <1>2, <1>6 DEF Begins
<1> QED BY <1>4, <1>5, <1>6, <1>7, <1>8 DEF p, s, u, Lies

\* The packets follow one another to the footer: each advances the cursor by its own size.
DataAt80(h) == h.data_offset = 80

LEMMA CursorIs ==
    ASSUME NEW cells, NEW F, NEW h, NEW foot, Captured(cells, F, h, foot), DataAt80(h)
    PROVE  PktCursor(cells, 7) = SizeOf(F[7])
<1>1. Wide(cells) /\ \A n \in 0..7 : Begins(F[n], cells)
    BY CapturedIs DEF Footed
<1>2. /\ SizeOf(F[0]) = 80 /\ Len(F[0]) = 2 /\ F[0][1] = h
      /\ \A n \in 1..7 : SizeOf(F[n]) = SizeOf(F[n - 1]) + SizeOf(PacketCells(n))
    BY BodyIs DEF Captured
<1>3. \A n \in 0..7 : SizeOf(F[n]) \in Nat
    BY <1>1, SizeBegins
<1>4. cells[1].data_offset = SizeOf(F[0])
  <2>1. 0 \in 0..7 /\ 1 \in 1..2
      OBVIOUS
  <2>2. cells[1] = F[0][1]
      BY <1>1, <1>2, <2>1 DEF Begins
  <2> QED BY <1>2, <2>2 DEF DataAt80
<1>5. ASSUME NEW n \in 1..7
      PROVE  Advanced(cells, SizeOf(F[n - 1])) = SizeOf(F[n])
  <2>1. n - 1 \in 0..7
      OBVIOUS
  <2>11. Lies(cells, F, n)
      BY PacketLies
  <2>2. /\ Len(F[n - 1]) \in Nat /\ Len(F[n]) = Len(F[n - 1]) + Len(PacketCells(n))
        /\ Len(F[n]) < Len(cells)
        /\ \A j \in 1..Len(PacketCells(n)) : cells[Len(F[n - 1]) + j] = PacketCells(n)[j]
      BY <2>11, Zenon DEF Lies
  <2>3. /\ SizeOf(PacketCells(n)) = 16 + Packets[n].length + CrcSize(n)
        /\ Len(PacketCells(n)) = (IF Packets[n].has_crc THEN 3 ELSE 2)
        /\ PacketCells(n)[1] = PacketHead(n)
      BY PacketIs
  <2>4. Len(PacketCells(n)) \in Nat \ {0}
      BY <2>3
  <2>5. Len(F[n - 1]) < Len(cells) /\ cells[Len(F[n - 1]) + 1] = PacketHead(n)
    <3>1. 1 \in 1..Len(PacketCells(n))
        BY <2>4
    <3>2. Len(cells) \in Nat
        BY <1>1, IndexSet DEF Wide
    <3>3. cells[Len(F[n - 1]) + 1] = PacketHead(n)
        BY <2>2, <2>3, <3>1
    <3>4. PICK k \in Nat : k = Len(F[n - 1])
        BY <2>2
    <3>5. PICK l \in Nat \ {0} : l = Len(PacketCells(n))
        BY <2>4
    <3>6. k + l < Len(cells)
        BY <2>2, <3>4, <3>5
    <3>7. k < Len(cells)
        BY <3>2, <3>6
    <3> QED BY <3>3, <3>4, <3>7
  <2> DEFINE x == SizeOf(F[n - 1])
             d == PacketHead(n)
  <2>6. At(cells, x) = d
      BY <1>1, <2>1, <2>5, AtIs
  <2>7. d.kind = "packet" /\ d.payload_length = Packets[n].length /\ d.has_crc = Packets[n].has_crc
      BY DEF PacketHead
  <2> HIDE DEF x, d
  <2>8. Advanced(cells, x) = x + 16 + Packets[n].length + CrcSize(n)
      BY <2>6, <2>7 DEF Advanced, PACKET_HEADER_SIZE, CrcSize
  <2>9. x \in Nat /\ Packets[n].length \in Nat /\ CrcSize(n) \in Nat
      BY <1>3, <2>1, PacketsAre DEF x, CrcSize
  <2>10. SizeOf(F[n]) = x + (16 + Packets[n].length + CrcSize(n))
      BY <1>2, <2>3 DEF x
  <2> QED BY <2>8, <2>9, <2>10 DEF x
<1> DEFINE Is(g) == g = [i \in 0..7 |-> IF i = 0 THEN cells[1].data_offset ELSE Advanced(cells, g[i - 1])]
           g == CHOOSE f : Is(f)
           f == [n \in 0..7 |-> SizeOf(F[n])]
<1>6. PktCursor(cells, 7) = g[7]
    BY DEF PktCursor
<1>7. \A n \in 0..7 : f[n] = SizeOf(F[n])
    OBVIOUS
<1>8. f = [n \in 0..7 |-> f[n]]
    OBVIOUS
<1> HIDE DEF f
<1>9. \A n \in 0..7 : f[n] = IF n = 0 THEN cells[1].data_offset ELSE Advanced(cells, f[n - 1])
  <2> TAKE n \in 0..7
  <2>1. CASE n = 0
      BY <1>4, <1>7, <2>1
  <2>2. CASE n # 0
    <3>1. n \in 1..7 /\ n - 1 \in 0..7
        BY <2>2
    <3> QED BY <1>5, <1>7, <2>2, <3>1
  <2> QED BY <2>1, <2>2
<1>10. Is(f)
    BY <1>8, <1>9
<1>11. Is(g)
    BY <1>10
<1> HIDE DEF g
<1>12. g[0] = cells[1].data_offset /\ \A n \in 1..7 : g[n] = Advanced(cells, g[n - 1])
    BY <1>11
<1> HIDE DEF Is
<1> DEFINE T == {n \in Nat : n <= 7 => g[n] = SizeOf(F[n])}
<1>13. 0 \in T
    BY <1>4, <1>12
<1>14. \A n \in T : n + 1 \in T
  <2> SUFFICES ASSUME NEW n \in T, n + 1 <= 7 PROVE g[n + 1] = SizeOf(F[n + 1])
      OBVIOUS
  <2>1. PICK m \in 1..7 : m = n + 1 /\ m - 1 = n
    <3>1. n + 1 \in 1..7 /\ (n + 1) - 1 = n
        OBVIOUS
    <3> QED BY <3>1
  <2>2. g[m - 1] = SizeOf(F[m - 1])
      BY <2>1
  <2> QED BY <1>5, <1>12, <2>1, <2>2
<1>15. T = Nat
  <2> HIDE DEF T
  <2>1. T \in SUBSET Nat
      BY DEF T
  <2> QED BY <1>13, <1>14, <2>1, Induction
<1>16. 7 \in T
    BY <1>15
<1> QED BY <1>6, <1>16

\* The sum in the footer is that of the packets.
NoPacket(c) == c.kind # "packet"

LEMMA BytesAreTotal ==
    ASSUME NEW cells, NEW F, NEW h, NEW foot, Captured(cells, F, h, foot), NoPacket(h), NoPacket(foot)
    PROVE  PayloadBytes(cells) = PayloadTotal(7)
<1>0. Footed(cells, F, foot)
    BY CapturedIs
<1>1. /\ Wide(cells) /\ Len(F[7]) \in Nat /\ Len(cells) = Len(F[7]) + 1
      /\ cells[Len(F[7]) + 1] = foot /\ (\A i \in 1..Len(F[7]) : cells[i] = F[7][i])
      /\ \A n \in 0..7 : Begins(F[n], cells)
    BY <1>0, Zenon DEF Footed
<1>2. Len(F[0]) = 2 /\ F[0][1] = h /\ F[0][2] = Session
    BY BodyIs DEF Captured
<1>3. PICK N \in Nat : N = Len(F[7])
    BY <1>1
<1>4. Session.kind # "packet"
    BY DEF Session
<1>5. Weight(h) = 0 /\ Weight(Session) = 0 /\ Weight(foot) = 0
    BY <1>4 DEF Weight, NoPacket
<1>6. 2 <= N /\ cells[1] = h /\ cells[2] = Session
  <2>1. Begins(F[0], F[7])
    <3>1. 0 \in 0..7
        OBVIOUS
    <3> QED BY <3>1, BodyIs DEF Captured
  <2>2. 2 <= N
      BY <1>2, <1>3, <2>1 DEF Begins
  <2>3. 0 \in 0..7 /\ 1 \in 1..2 /\ 2 \in 1..2
      OBVIOUS
  <2> QED BY <1>1, <1>2, <2>2, <2>3 DEF Begins
<1>7. \A i \in 3..N : InPacket(cells[i])
  <2> TAKE i \in 3..N
  <2>1. i \in 1..N
      OBVIOUS
  <2>2. \A k \in 3..Len(F[7]) : InPacket(F[7][k])
      BY BodyInPackets DEF Captured
  <2> QED BY <1>1, <1>3, <2>1, <2>2
<1>8. \A i \in 1..N + 1 : Weight(cells[i]) \in Nat
  <2> TAKE i \in 1..N + 1
  <2>1. i = 1 \/ i = 2 \/ i \in 3..N \/ i = N + 1
      OBVIOUS
  <2> QED BY <1>1, <1>3, <1>5, <1>6, <1>7, <2>1 DEF InPacket
<1>9. PICK f : /\ f \in [0..N + 1 -> Nat] /\ f[0] = 0 /\ PayloadBytes(cells) = f[N + 1]
               /\ \A n \in 1..N + 1 : f[n] = f[n - 1] + Weight(cells[n])
  <2>1. IsSequence(cells) /\ Len(cells) = N + 1
      BY <1>1, <1>3 DEF Wide
  <2>2. \E f : /\ f \in [0..Len(cells) -> Nat] /\ f[0] = 0 /\ PayloadBytes(cells) = f[Len(cells)]
               /\ \A n \in 1..Len(cells) : f[n] = f[n - 1] + Weight(cells[n])
      BY <1>8, <2>1, BytesAre
  <2> QED BY <2>1, <2>2
<1>10. PICK t : /\ t[0] = 0 /\ PayloadTotal(7) = t[7]
                /\ \A n \in 1..7 : t[n] = t[n - 1] + Packets[n].length
    BY TotalIs
<1> DEFINE T == {n \in Nat : n <= 7 => t[n] \in Nat /\ f[Len(F[n])] = t[n]}
<1>11. 0 \in T
  <2>1. 1 \in 1..N + 1 /\ 2 \in 1..N + 1 /\ 1 - 1 = 0 /\ 2 - 1 = 1
      BY <1>6
  <2>2. f[1] = 0
      BY <1>5, <1>6, <1>9, <2>1
  <2>3. f[2] = 0
      BY <1>5, <1>6, <1>9, <2>1, <2>2
  <2>4. t[0] \in Nat /\ f[Len(F[0])] = t[0]
      BY <1>2, <1>10, <2>3
  <2> QED BY <2>4
<1>12. \A n \in T : n + 1 \in T
  <2> SUFFICES ASSUME NEW n \in T, n + 1 <= 7 PROVE t[n + 1] \in Nat /\ f[Len(F[n + 1])] = t[n + 1]
      OBVIOUS
  <2>1. PICK m \in 1..7 : m = n + 1 /\ m - 1 = n
    <3>1. n + 1 \in 1..7 /\ (n + 1) - 1 = n
        OBVIOUS
    <3> QED BY <3>1
  <2> DEFINE p == PacketCells(m)
  <2>2. /\ Len(F[m - 1]) \in Nat /\ Len(F[m]) = Len(F[m - 1]) + Len(p) /\ Len(F[m]) < Len(cells)
        /\ \A j \in 1..Len(p) : cells[Len(F[m - 1]) + j] = p[j]
    <3>1. Lies(cells, F, m)
        BY PacketLies
    <3> QED BY <3>1, Zenon DEF Lies
  <2>14. /\ Len(F[n]) \in Nat /\ Len(F[m]) = Len(F[n]) + Len(p) /\ Len(F[m]) < Len(cells)
        /\ \A j \in 1..Len(p) : cells[Len(F[n]) + j] = p[j]
      BY <2>1, <2>2
  <2>3. /\ Weight(p[1]) = Packets[m].length /\ \A j \in 2..Len(p) : Weight(p[j]) = 0
      BY PacketWeighs
  <2>4. Len(p) = (IF Packets[m].has_crc THEN 3 ELSE 2)
      BY PacketIs
  <2>5. Packets[m].length \in Nat /\ t[n] \in Nat /\ f[Len(F[n])] = t[n] /\ t[m] = t[n] + Packets[m].length
    <3>1. n <= 7
        BY <2>1
    <3>2. t[n] \in Nat /\ f[Len(F[n])] = t[n]
        BY <3>1
    <3>3. t[m] = t[m - 1] + Packets[m].length
        BY <1>10
    <3>4. Packets[m].length \in Nat
        BY PacketsAre
    <3> QED BY <2>1, <3>2, <3>3, <3>4
  <2> HIDE DEF p
  <2>6. PICK k \in Nat : k = Len(F[n])
      BY <2>14
  <2>7. PICK l \in {2, 3} : l = Len(p)
      BY <2>4
  <2>8. k + l <= N
      BY <1>1, <1>3, <2>14, <2>6, <2>7
  <2>9. \A j \in 1..l : f[k + j] = f[k + j - 1] + Weight(p[j])
    <3> TAKE j \in 1..l
    <3>1. PICK i \in 1..N + 1 : i = k + j
        BY <2>8
    <3>2. cells[i] = p[j]
        BY <2>14, <2>6, <2>7, <3>1
    <3>3. f[i] = f[i - 1] + Weight(cells[i])
        BY <1>9
    <3> QED BY <3>1, <3>2, <3>3
  <2>10. f[k + 1] = t[m] /\ t[m] \in Nat
    <3>1. 1 \in 1..l /\ k + 1 - 1 = k
        OBVIOUS
    <3> QED BY <2>3, <2>5, <2>6, <2>9, <3>1
  <2>11. f[k + 2] = t[m]
    <3>1. 2 \in 1..l /\ k + 2 - 1 = k + 1 /\ 2 \in 2..Len(p)
        BY <2>7
    <3>2. f[k + 2] = f[k + 1] + Weight(p[2])
        BY <2>9, <3>1
    <3>3. Weight(p[2]) = 0
        BY <2>3, <3>1
    <3> QED BY <2>10, <3>2, <3>3
  <2>12. l = 3 => f[k + 3] = t[m]
    <3>1. l = 3 => 3 \in 1..l /\ k + 3 - 1 = k + 2 /\ 3 \in 2..Len(p)
        BY <2>7
    <3>2. l = 3 => f[k + 3] = f[k + 3 - 1] + Weight(p[3])
        BY <2>9, <3>1
    <3>3. l = 3 => Weight(p[3]) = 0
        BY <2>3, <3>1
    <3> QED BY <2>10, <2>11, <3>1, <3>2, <3>3
  <2>13. f[Len(F[m])] = t[m]
      BY <2>14, <2>6, <2>7, <2>11, <2>12
  <2> QED BY <2>1, <2>10, <2>13
<1>13. T = Nat
  <2> HIDE DEF T
  <2>1. T \in SUBSET Nat
      BY DEF T
  <2> QED BY <1>11, <1>12, <2>1, Induction
<1>14. 7 \in T
    BY <1>13
<1>15. f[N] = t[7] /\ t[7] \in Nat
    BY <1>3, <1>14
<1>16. f[N + 1] = f[N]
  <2>1. N + 1 \in 1..N + 1 /\ (N + 1) - 1 = N
      OBVIOUS
  <2>2. f[N + 1] = f[N] + Weight(cells[N + 1])
      BY <1>9, <2>1
  <2>3. Weight(cells[N + 1]) = 0
      BY <1>1, <1>3, <1>5
  <2>4. f[N] \in Nat
      BY <1>15
  <2> QED BY <2>2, <2>3, <2>4
<1> QED BY <1>9, <1>10, <1>15, <1>16

\* The capture before its last two writes,
PktBody == Body(PktHeader(0, 0))
PktCells == PktBody \o <<PktFooter(0)>>

\* and the header that is filled in, and the file behind it.
SizedHeader == PktHeader(footer_pos + PKT_FOOTER_SIZE, footer_pos)
SealedPkt(crc) == Body(SizedHeader) \o <<PktFooter(crc)>>

HeaderSays(h, total, footer) ==
    /\ h.kind = "pkt" /\ h.packet_count = 7 /\ h.total_length = total /\ h.footer_offset = footer

LEMMA PktHeaderIs ==
    ASSUME NEW total, NEW footer
    PROVE  /\ HeaderLike(PktHeader(total, footer)) /\ DataAt80(PktHeader(total, footer))
           /\ NoPacket(PktHeader(total, footer)) /\ HeaderSays(PktHeader(total, footer), total, footer)
<1> DEFINE h == PktHeader(total, footer)
<1>1. /\ "width" \in DOMAIN h /\ h.width = 32 /\ h.data_offset = 80 /\ h.kind = "pkt"
      /\ h.packet_count = 7 /\ h.total_length = total /\ h.footer_offset = footer
    BY DEF PktHeader, PKT_HEADER_SIZE, SESSION_SIZE, PKT_COUNT
<1> HIDE DEF h
<1> QED BY <1>1 DEF HeaderLike, DataAt80, NoPacket, HeaderSays, h, WidthOf

FooterSays(f) ==
    f.kind = "pkt footer" /\ f.packet_count_check = 7 /\ f.total_payload_bytes = PayloadTotal(7)

LEMMA PktFooterIs ==
    ASSUME NEW crc
    PROVE  WidthOf(PktFooter(crc)) = 16 /\ NoPacket(PktFooter(crc)) /\ FooterSays(PktFooter(crc))
<1> DEFINE f == PktFooter(crc)
<1>1. /\ "width" \in DOMAIN f /\ f.width = 16 /\ f.kind = "pkt footer"
      /\ f.packet_count_check = 7 /\ f.total_payload_bytes = PayloadTotal(Len(Packets))
    BY DEF PktFooter, PKT_FOOTER_SIZE, PKT_COUNT
<1>2. Len(Packets) = 7
    BY PacketsAre
<1> HIDE DEF f
<1> QED BY <1>1, <1>2 DEF NoPacket, FooterSays, f, WidthOf

\* A capture of a header, a footer and the packets between them.
LEMMA CaptureOf ==
    ASSUME NEW total, NEW footer, NEW crc
    PROVE  \E F : /\ Captured(Body(PktHeader(total, footer)) \o <<PktFooter(crc)>>, F,
                              PktHeader(total, footer), PktFooter(crc))
                  /\ Body(PktHeader(total, footer)) = F[7]
<1> DEFINE h == PktHeader(total, footer)
           f == PktFooter(crc)
<1>1. HeaderLike(h)
    BY PktHeaderIs
<1>2. WidthOf(f) = 16
    BY PktFooterIs
<1> HIDE DEF h, f
<1>3. PICK F : Bodies(F, h) /\ Body(h) = F[7]
    BY BodyGrows
<1> QED BY <1>3, <1>1, <1>2 DEF h, f, Captured

\* No body depends on its header but in its first cell.
LEMMA BodySame ==
    ASSUME NEW total, NEW footer
    PROVE  Alike(Body(PktHeader(0, 0)), Body(PktHeader(total, footer)))
<1> DEFINE h == PktHeader(total, footer)
           g == PktHeader(0, 0)
<1>1. HeaderLike(h) /\ HeaderLike(g)
    BY PktHeaderIs
<1> HIDE DEF h, g
<1>2. PICK F : Bodies(F, g) /\ Body(g) = F[7]
    BY BodyGrows
<1>3. PICK G : Bodies(G, h) /\ Body(h) = G[7]
    BY BodyGrows
<1> QED BY <1>2, <1>3, <1>1, BodiesAlike DEF h, g

\* What the pattern checks of a capture with its offsets filled in.
PktSealed(cells) ==
    /\ PktFollowed(cells)
    /\ At(cells, cells[1].footer_offset).total_payload_bytes = PayloadBytes(cells)

LEMMA SealedIs ==
    ASSUME NEW crc
    PROVE  /\ PktSealed(SealedPkt(crc)) /\ Len(SealedPkt(crc)) \in Nat \ {0}
           /\ SealedPkt(crc)[Len(SealedPkt(crc))].kind = "pkt footer"
<1> DEFINE h == SizedHeader
           f == PktFooter(crc)
           d == SealedPkt(crc)
<1>1. PICK F : Captured(d, F, h, f) /\ Body(h) = F[7]
    BY CaptureOf DEF SealedPkt, SizedHeader
<1>2. HeaderLike(h) /\ DataAt80(h) /\ NoPacket(h) /\ HeaderSays(h, footer_pos + 16, footer_pos)
    BY PktHeaderIs DEF SizedHeader, PKT_FOOTER_SIZE
<1>3. NoPacket(f) /\ FooterSays(f)
    BY PktFooterIs
<1>4. footer_pos = SizeOf(F[7])
    BY BodySame, <1>1 DEF SizedHeader, Alike, footer_pos
<1> HIDE DEF h, f, d
<1>5. Footed(d, F, f)
    BY <1>1, CapturedIs
<1>6. /\ Wide(d) /\ Len(F[7]) \in Nat /\ Len(d) = Len(F[7]) + 1 /\ SizeOf(F[7]) \in Nat
      /\ SizeOf(d) = SizeOf(F[7]) + 16 /\ d[Len(F[7]) + 1] = f
      /\ \A n \in 0..7 : Begins(F[n], d)
    BY <1>5, Zenon DEF Footed
<1>7. d[1] = h
  <2>1. Len(F[0]) = 2 /\ F[0][1] = h
      BY <1>1, BodyIs DEF Captured
  <2>2. 0 \in 0..7 /\ 1 \in 1..2
      OBVIOUS
  <2>3. Begins(F[0], d)
      BY <1>6, <2>2
  <2> QED BY <2>1, <2>2, <2>3 DEF Begins
<1>8. At(d, footer_pos) = f
    BY <1>6, AtIs, <1>4
<1>9. PktCursor(d, 7) = footer_pos
    BY <1>1, <1>2, <1>4, CursorIs
<1>10. PayloadBytes(d) = PayloadTotal(7)
    BY <1>1, <1>2, <1>3, BytesAreTotal
<1>11. /\ d[1].packet_count = 7 /\ d[1].total_length = footer_pos + 16 /\ d[1].footer_offset = footer_pos
    BY <1>2, <1>7 DEF HeaderSays
<1>12. /\ At(d, footer_pos).kind = "pkt footer" /\ At(d, footer_pos).packet_count_check = 7
       /\ At(d, footer_pos).total_payload_bytes = PayloadTotal(7)
    BY <1>3, <1>8 DEF FooterSays
<1>14. PktFollowed(d)
    BY <1>9, <1>11, <1>12, <1>4, <1>6 DEF PktFollowed
<1>15. Len(d) \in Nat \ {0} /\ d[Len(d)].kind = "pkt footer"
  <2>1. PICK n \in Nat : n = Len(F[7])
      BY <1>6
  <2>3. Len(d) \in Nat \ {0} /\ d[Len(d)] = f
      BY <1>6, <2>1
  <2> QED BY <2>3, <1>3 DEF FooterSays
<1> QED BY <1>10, <1>11, <1>12, <1>14, <1>15 DEF PktSealed, d

\* While the packets are written the header has no offsets, and no cell is the
\* footer of the other sample.
LEMMA CaptureGrows ==
    ASSUME NEW cells, Begins(cells, PktCells)
    PROVE  /\ Len(cells) >= 1 => cells[1].kind = "pkt" /\ cells[1].footer_offset = 0
           /\ \A i \in 1..Len(cells) : cells[i].kind # "cdb footer"
<1> DEFINE h == PktHeader(0, 0)
           f == PktFooter(0)
           d == PktCells
<1>1. PICK F : Captured(d, F, h, f)
    BY CaptureOf DEF PktCells, PktBody
<1>2. h.kind = "pkt" /\ h.footer_offset = 0
    BY PktHeaderIs DEF HeaderSays
<1>3. f.kind = "pkt footer"
    BY PktFooterIs DEF FooterSays
<1>4. Session.kind = "session"
    BY DEF Session
<1> HIDE DEF h, f
<1>5. Begins(cells, d)
    OBVIOUS
<1> HIDE DEF d
<1>6. Footed(d, F, f)
    BY <1>1, CapturedIs
<1>7. /\ Len(F[7]) \in Nat /\ Len(d) = Len(F[7]) + 1 /\ d[Len(F[7]) + 1] = f
      /\ (\A i \in 1..Len(F[7]) : d[i] = F[7][i]) /\ \A n \in 0..7 : Begins(F[n], d)
    BY <1>6, Zenon DEF Footed
<1>8. Len(F[0]) = 2 /\ F[0][1] = h /\ F[0][2] = Session /\ \A n \in 0..7 : Begins(F[n], F[7])
    BY <1>1, BodyIs DEF Captured
<1>9. 2 <= Len(F[7]) /\ d[1] = h /\ d[2] = Session
  <2>1. 0 \in 0..7 /\ 1 \in 1..2 /\ 2 \in 1..2
      OBVIOUS
  <2>2. Begins(F[0], d) /\ Begins(F[0], F[7])
      BY <1>7, <1>8, <2>1
  <2> QED BY <1>8, <2>1, <2>2 DEF Begins
<1>10. \A i \in 3..Len(F[7]) : InPacket(F[7][i])
    BY <1>1, BodyInPackets DEF Captured
<1>11. PICK N \in Nat : N = Len(F[7])
    BY <1>7
<1>12. ASSUME NEW i \in 1..N + 1
       PROVE  d[i].kind # "cdb footer"
  <2>1. i = 1 \/ i = 2 \/ i \in 3..N \/ i = N + 1
      OBVIOUS
  <2>2. CASE i \in 3..N
    <3>1. d[i] = F[7][i]
      <4>1. i \in 1..N
          BY <2>2
      <4> QED BY <1>7, <1>11, <4>1
    <3>2. InPacket(d[i])
        BY <1>10, <1>11, <2>2, <3>1
    <3> QED BY <3>2 DEF InPacket
  <2> QED BY <1>2, <1>3, <1>4, <1>7, <1>9, <1>11, <2>1, <2>2
<1>13. Len(cells) \in Nat /\ Len(cells) <= N + 1 /\ \A i \in 1..Len(cells) : cells[i] = d[i]
    BY <1>5, <1>7, <1>11, IndexSet DEF Begins
<1>14. \A i \in 1..Len(cells) : i \in 1..N + 1
    BY <1>13
<1>15. Len(cells) >= 1 => cells[1] = d[1]
    BY <1>13
<1> QED BY <1>2, <1>9, <1>12, <1>13, <1>14, <1>15

\* What the generator leaves of its files, at each of its writes.
SampleMade(d) ==
    \/ Begins(d, CdbCells) \/ Begins(d, PktCells)
    \/ \E crc : d = SealedPkt(crc)

\* What CaptureIsSealed says of a file.
IsSealed(cells) ==
    /\ cells[Len(cells)].kind = "cdb footer" => CdbFollowed(cells)
    /\ cells[1].kind = "pkt" /\ cells[1].footer_offset # 0 => PktSealed(cells)

LEMMA MadeIsSealed ==
    ASSUME NEW d, SampleMade(d), d # <<>>
    PROVE  IsSealed(d)
<1>1. CASE Begins(d, CdbCells)
    BY <1>1, IndexSet, EmptySequence, CdbSealed DEF Begins, IsSealed
<1>2. CASE Begins(d, PktCells)
  <2>3. d[1].footer_offset = 0 /\ d[Len(d)].kind # "cdb footer"
    <3>1. PICK n \in Nat \ {0} : n = Len(d)
        BY <1>2, IndexSet, EmptySequence DEF Begins
    <3>2. n >= 1 /\ n \in 1..Len(d)
        BY <3>1
    <3> QED BY <3>1, <3>2, <1>2, CaptureGrows
  <2> QED BY <2>3 DEF IsSealed
<1>3. CASE \E crc : d = SealedPkt(crc)
    BY <1>3, SealedIs DEF IsSealed
<1> QED BY <1>1, <1>2, <1>3 DEF SampleMade

\* The cells of a capture: its body and its footer.
FootedBody(c, b, h, f) ==
    /\ IsSequence(c) /\ IsSequence(b) /\ Len(b) >= 2 /\ Len(c) = Len(b) + 1
    /\ b[1] = h /\ (\A i \in 1..Len(b) : c[i] = b[i]) /\ c[Len(b) + 1] = f

LEMMA CaptureCells ==
    ASSUME NEW total, NEW footer, NEW crc
    PROVE  FootedBody(Body(PktHeader(total, footer)) \o <<PktFooter(crc)>>, Body(PktHeader(total, footer)),
                      PktHeader(total, footer), PktFooter(crc))
<1> DEFINE h == PktHeader(total, footer)
           f == PktFooter(crc)
           b == Body(h)
           d == b \o <<f>>
<1>1. PICK F : Captured(d, F, h, f) /\ b = F[7]
    BY CaptureOf
<1> HIDE DEF h, f, b, d
<1>2. Footed(d, F, f)
    BY <1>1, CapturedIs
<1>3. /\ Wide(d) /\ Wide(F[7]) /\ Len(d) = Len(F[7]) + 1
      /\ d[Len(F[7]) + 1] = f /\ (\A i \in 1..Len(F[7]) : d[i] = F[7][i])
    BY <1>2, Zenon DEF Footed
<1>4. Len(F[0]) = 2 /\ F[0][1] = h /\ Begins(F[0], F[7])
    BY <1>1, BodyIs DEF Captured
<1>5. Len(b) >= 2 /\ b[1] = h
    BY <1>1, <1>4 DEF Begins
<1>8. FootedBody(d, b, h, f)
    BY <1>5, <1>1, <1>3 DEF FootedBody, Wide
<1> QED BY <1>8 DEF h, f, b, d

CdbLen == Len(CdbCells)
PktLen == Len(PktCells)
SampleScript(crc) == Into("sample.cdb", WriteAll(CdbCells)) \o Into("sample.pkt", PktWrites(crc))

\* Neither of the two files is empty.
LEMMA SampleLengths ==
    /\ IsSequence(CdbCells) /\ CdbLen \in Nat \ {0} /\ CdbCells[1].kind = "cdb"
    /\ IsSequence(PktCells) /\ PktLen \in Nat /\ PktCells[1].kind = "pkt"
    /\ Len(PktBody) \in Nat \ {0} /\ Len(PktBody) + 1 = PktLen
<1>1. IsSequence(CdbCells) /\ CdbLen \in Nat \ {0} /\ CdbCells[1].kind = "cdb"
    BY CdbCellsAre DEF CdbHead, CdbLen
<1> DEFINE h == PktHeader(0, 0)
           f == PktFooter(0)
<1>2. FootedBody(PktCells, PktBody, h, f)
    BY CaptureCells DEF PktCells, PktBody
<1>3. h.kind = "pkt"
    BY DEF PktHeader
<1> HIDE DEF h, f
<1>4. PICK n \in Nat : n = Len(PktBody) /\ n >= 2
    BY <1>2, IndexSet DEF FootedBody
<1> QED BY <1>1, <1>4, <1>2, <1>3 DEF FootedBody, PktLen

\* A capture with its offsets differs from one without them in its first cell,
\* and from one with another check sum in its last.
LEMMA SealedCells ==
    ASSUME NEW crc
    PROVE  /\ IsSequence(SealedPkt(crc)) /\ Len(SealedPkt(crc)) = PktLen
           /\ SealedPkt(crc)[1] = SizedHeader /\ SealedPkt(crc)[PktLen] = PktFooter(crc)
           /\ \A i \in 2..Len(PktBody) : SealedPkt(crc)[i] = PktCells[i]
<1> DEFINE h == PktHeader(0, 0)
           g == SizedHeader
           b == Body(g)
           d == SealedPkt(crc)
           e == PktFooter(0)
           f == PktFooter(crc)
<1>1. FootedBody(PktCells, PktBody, h, e)
    BY CaptureCells DEF PktCells, PktBody
<1>2. FootedBody(d, b, g, f)
    BY CaptureCells DEF SealedPkt, SizedHeader
<1>3. Alike(PktBody, b)
    BY BodySame DEF PktBody, SizedHeader
<1> HIDE DEF h, g, b, d, e, f
<1>4. PICK n \in Nat : n = Len(PktBody) /\ n >= 2
    BY <1>1, IndexSet DEF FootedBody
<1>5. Len(b) = n /\ \A i \in 2..n : b[i] = PktBody[i]
    BY <1>3, <1>4 DEF Alike
<1>6. PktLen = n + 1 /\ \A i \in 1..n : PktCells[i] = PktBody[i]
    BY <1>1, <1>4 DEF FootedBody, PktLen
<1>7. /\ IsSequence(d) /\ Len(d) = n + 1 /\ b[1] = g /\ (\A i \in 1..n : d[i] = b[i])
      /\ d[n + 1] = f
    BY <1>2, <1>5 DEF FootedBody
<1>8. d[1] = g
  <2>1. 1 \in 1..n
      BY <1>4
  <2> QED BY <1>7, <2>1
<1>9. \A i \in 2..n : d[i] = PktCells[i]
  <2> TAKE i \in 2..n
  <2>1. i \in 1..n
      OBVIOUS
  <2> QED BY <1>5, <1>6, <1>7, <2>1
<1> QED BY <1>4, <1>6, <1>7, <1>8, <1>9 DEF g, d, f

\* Its offsets are filled in,
LEMMA OffsetsFilledIn == Written(PktCells, WriteAt(0, <<SizedHeader>>)) = SealedPkt(0)
<1> DEFINE h == SizedHeader
           d == Written(PktCells, WriteAt(0, <<h>>))
           e == SealedPkt(0)
<1>1. PICK n \in Nat \ {0} : n = Len(PktBody) /\ PktLen = n + 1
    BY SampleLengths
<1>2. IsSequence(PktCells) /\ Len(PktCells) = n + 1
    BY <1>1, SampleLengths DEF PktLen
<1>3. /\ IsSequence(e) /\ Len(e) = n + 1 /\ e[1] = h /\ e[n + 1] = PktFooter(0)
      /\ \A i \in 2..n : e[i] = PktCells[i]
    BY <1>1, SealedCells
<1>4. PktCells[n + 1] = PktFooter(0)
    BY CaptureCells, <1>1 DEF PktCells, PktBody, FootedBody
<1> HIDE DEF h
<1>5. IsSequence(<<h>>) /\ Len(<<h>>) = 1 /\ <<h>>[1] = h
    BY SingleSequence
<1>6. Puts(d, PktCells, 0, <<h>>)
    BY <1>2, <1>5, WrittenAt
<1> HIDE DEF d, e
<1>7. IsSequence(d) /\ Len(d) = n + 1 /\ d[1] = h /\ \A i \in 2..n + 1 : d[i] = PktCells[i]
    BY <1>6, <1>2, <1>5 DEF Puts
<1>8. \A i \in 1..n + 1 : d[i] = e[i]
  <2> TAKE i \in 1..n + 1
  <2> QED BY <1>3, <1>4, <1>7, <1>1
<1> QED BY <1>3, <1>7, <1>8, SameSequence DEF d, e, h

\* and then its footer.
LEMMA FooterFilledIn ==
    ASSUME NEW crc
    PROVE  Written(SealedPkt(0), WriteAt(Len(PktBody), <<PktFooter(crc)>>)) = SealedPkt(crc)
<1> DEFINE f == PktFooter(crc)
           c == SealedPkt(0)
           e == SealedPkt(crc)
<1>1. PICK n \in Nat \ {0} : n = Len(PktBody) /\ PktLen = n + 1
    BY SampleLengths
<1> DEFINE d == Written(c, WriteAt(n, <<f>>))
<1>2. /\ IsSequence(c) /\ Len(c) = n + 1 /\ c[1] = SizedHeader
      /\ \A i \in 2..n : c[i] = PktCells[i]
    BY <1>1, SealedCells
<1>3. /\ IsSequence(e) /\ Len(e) = n + 1 /\ e[1] = SizedHeader /\ e[n + 1] = f
      /\ \A i \in 2..n : e[i] = PktCells[i]
    BY <1>1, SealedCells
<1> HIDE DEF c, e, f
<1>4. IsSequence(<<f>>) /\ Len(<<f>>) = 1 /\ <<f>>[1] = f
    BY SingleSequence
<1>5. Puts(d, c, n, <<f>>)
    BY <1>2, <1>4, WrittenAt
<1> HIDE DEF d
<1>6. IsSequence(d) /\ Len(d) = n + 1 /\ d[n + 1] = f /\ \A i \in 1..n : d[i] = c[i]
    BY <1>2, <1>4, <1>5 DEF Puts
<1>7. \A i \in 1..n + 1 : d[i] = e[i]
  <2> TAKE i \in 1..n + 1
  <2> QED BY <1>2, <1>3, <1>6
<1>8. d = e
    BY <1>3, <1>6, <1>7, SameSequence
<1> QED BY <1>1, <1>8 DEF d, c, e, f

\* One more cell of a file that is written from its beginning.
LEMMA BeginsNext ==
    ASSUME NEW d, NEW all, Begins(d, all), NEW k \in 1..Len(all), Len(d) = k - 1
    PROVE  /\ Begins(Written(d, WriteEnd(<<all[k]>>)), all)
           /\ Len(Written(d, WriteEnd(<<all[k]>>))) = k
<1> DEFINE c == all[k]
           e == Written(d, WriteEnd(<<c>>))
<1>1. PICK N \in Nat : N = Len(all)
    BY IndexSet DEF Begins
<1>2. IsSequence(d) /\ IsSequence(all) /\ k \in 1..N /\ \A i \in 1..Len(d) : d[i] = all[i]
    BY <1>1 DEF Begins
<1>3. Join(e, d, <<c>>)
    BY <1>2, WrittenEnd
<1> HIDE DEF e
<1>5. PICK m \in Nat : m = Len(d) /\ m + 1 = k
    BY <1>3 DEF Join
<1>6. IsSequence(e) /\ Len(e) = k /\ e[k] = c /\ \A i \in 1..m : e[i] = d[i]
    BY <1>3, <1>5, SingleSequence DEF Join
<1>7. \A i \in 1..k : e[i] = all[i]
  <2> TAKE i \in 1..k
  <2> QED BY <1>2, <1>5, <1>6
<1> QED BY <1>6, <1>1, <1>2, <1>7 DEF e, Begins

EndEntry(file, cell) == [file |-> file, write |-> WriteEnd(<<cell>>)]
AtEntry(file, at, cell) == [file |-> file, write |-> WriteAt(at, <<cell>>)]

\* The writes of the generator, one by one.
LaidOut(s) ==
    /\ IsSequence(s) /\ Len(s) = CdbLen + PktLen + 4
    /\ s[1] = [file |-> "sample.cdb", write |-> Emptied]
    /\ \A i \in 1..CdbLen : s[i + 1] = EndEntry("sample.cdb", CdbCells[i])
    /\ s[CdbLen + 2] = [file |-> "sample.pkt", write |-> Emptied]
    /\ \A i \in 1..PktLen : s[CdbLen + 2 + i] = EndEntry("sample.pkt", PktCells[i])
    /\ s[CdbLen + PktLen + 3] = AtEntry("sample.pkt", 0, SizedHeader)
    /\ \E crc : s[CdbLen + PktLen + 4] = AtEntry("sample.pkt", Len(PktBody), PktFooter(crc))

\* The writes of the generator are these.
LEMMA SampleScriptIs ==
    ASSUME NEW crc
    PROVE  LaidOut(SampleScript(crc))
<1>1. PICK C \in Nat \ {0} : C = CdbLen
    BY SampleLengths
<1>2. PICK b \in Nat : b = PktLen
    BY SampleLengths
<1> DEFINE wc == WriteAll(CdbCells)
           wp == WriteAll(PktCells)
           h == SizedHeader
           f == PktFooter(crc)
           t == <<WriteAt(0, <<h>>), WriteAt(Len(PktBody), <<f>>)>>
           w == wp \o t
           x == Into("sample.cdb", wc)
           y == Into("sample.pkt", w)
           s == x \o y
<1>3. /\ IsSequence(wc) /\ Len(wc) = C + 1 /\ wc[1] = Emptied
      /\ \A i \in 1..C : wc[i + 1] = WriteEnd(<<CdbCells[i]>>)
    BY <1>1, SampleLengths, WriteAllIs DEF CdbLen
<1>4. /\ IsSequence(wp) /\ Len(wp) = b + 1 /\ wp[1] = Emptied
      /\ \A i \in 1..b : wp[i + 1] = WriteEnd(<<PktCells[i]>>)
    BY <1>2, SampleLengths, WriteAllIs DEF PktLen
<1>5. PktWrites(crc) = w
    BY DEF PktWrites, PktCells, PktBody, SizedHeader
<1> DEFINE t1 == WriteAt(0, <<h>>)
           t2 == WriteAt(Len(PktBody), <<f>>)
<1> HIDE DEF wc, wp, h, f
<1>7. IsSequence(t) /\ Len(t) = 2 /\ t[1] = t1 /\ t[2] = t2
  <2> HIDE DEF t1, t2
  <2>1. t = <<t1, t2>>
      BY DEF t1, t2
  <2> HIDE DEF t
  <2> QED BY <2>1 DEF IsSequence
<1> HIDE DEF t, t1, t2
<1>8. Join(w, wp, t)
    BY <1>4, <1>7, Joined
<1> HIDE DEF w
<1>9. /\ IsSequence(w) /\ Len(w) = b + 3 /\ (\A i \in 1..b + 1 : w[i] = wp[i])
      /\ w[b + 2] = t1 /\ w[b + 3] = t2
    BY <1>4, <1>7, <1>8 DEF Join
<1>10. /\ IsSequence(x) /\ Len(x) = C + 1
       /\ \A i \in 1..C + 1 : x[i] = [file |-> "sample.cdb", write |-> wc[i]]
    BY <1>3, IntoIs
<1>11. /\ IsSequence(y) /\ Len(y) = b + 3
       /\ \A i \in 1..b + 3 : y[i] = [file |-> "sample.pkt", write |-> w[i]]
    BY <1>9, IntoIs
<1> HIDE DEF x, y
<1>12. Join(s, x, y)
    BY <1>10, <1>11, Joined
<1>13. SampleScript(crc) = s
    BY <1>5 DEF SampleScript, x, y, wc
<1> HIDE DEF s
<1>14. /\ IsSequence(s) /\ Len(s) = C + b + 4 /\ (\A i \in 1..C + 1 : s[i] = x[i])
       /\ \A i \in 1..b + 3 : s[(C + 1) + i] = y[i]
  <2>1. PICK p \in Nat, q \in Nat : p = Len(x) /\ q = Len(y) /\ p = C + 1 /\ q = b + 3
      BY <1>10, <1>11
  <2>2. /\ IsSequence(s) /\ Len(s) = p + q
        /\ (\A i \in 1..p : s[i] = x[i]) /\ \A i \in 1..q : s[p + i] = y[i]
      BY <2>1, <1>12 DEF Join
  <2> QED BY <2>1, <2>2
<1>15. s[1] = [file |-> "sample.cdb", write |-> Emptied]
    BY <1>3, <1>10, <1>14
<1>16. \A i \in 1..C : s[i + 1] = EndEntry("sample.cdb", CdbCells[i])
  <2> TAKE i \in 1..C
  <2> QED BY <1>3, <1>10, <1>14 DEF EndEntry
<1>17. s[C + 2] = [file |-> "sample.pkt", write |-> Emptied]
  <2>1. 1 \in 1..b + 3 /\ (C + 1) + 1 = C + 2
      BY <1>4, <1>9
  <2>2. s[C + 2] = y[1]
      BY <1>14, <2>1
  <2>3. y[1] = [file |-> "sample.pkt", write |-> w[1]]
      BY <1>11, <2>1
  <2>4. w[1] = Emptied
      BY <1>4, <1>9
  <2> QED BY <2>2, <2>3, <2>4, Zenon
<1>18. \A i \in 1..b : s[C + 2 + i] = EndEntry("sample.pkt", PktCells[i])
  <2> TAKE i \in 1..b
  <2> QED BY <1>4, <1>9, <1>11, <1>14 DEF EndEntry
<1>19. s[C + b + 3] = [file |-> "sample.pkt", write |-> t1]
       /\ s[C + b + 4] = [file |-> "sample.pkt", write |-> t2]
    BY <1>14, <1>9, <1>11
<1>20. s[C + b + 3] = AtEntry("sample.pkt", 0, h)
    BY <1>19 DEF t1, AtEntry
<1>21. s[C + b + 4] = AtEntry("sample.pkt", Len(PktBody), f)
    BY <1>19 DEF t2, AtEntry
<1> QED BY <1>1, <1>2, <1>13, <1>14, <1>15, <1>16, <1>17, <1>18, <1>20, <1>21 DEF LaidOut, h, f

\* The two files after k of these writes.
SampledTo(c, p, k) ==
    /\ k \in 1..CdbLen + 1 => Begins(c, CdbCells) /\ Len(c) = k - 1
    /\ k \in CdbLen + 2..CdbLen + PktLen + 2 => Begins(p, PktCells) /\ Len(p) = k - (CdbLen + 2)
    /\ k = CdbLen + PktLen + 3 => p = SealedPkt(0)

Sampling(c, p, script) ==
    \E s, k : /\ LaidOut(s) /\ k \in 0..Len(s) /\ IsSequence(script) /\ Len(script) = Len(s) - k
              /\ \A i \in 1..Len(script) : script[i] = s[k + i]
              /\ SampledTo(c, p, k)

\* A sequence of cells that does not begin as a container does.
Foreign(d) == IsSequence(d) /\ (Len(d) >= 1 => d[1].kind \in {"cdb", "pkt"})

\* Neither sample begins as a container of the other tools.
LEMMA MadeForeign ==
    ASSUME NEW d, SampleMade(d)
    PROVE  Foreign(d)
<1>1. CdbCells[1].kind = "cdb" /\ PktCells[1].kind = "pkt"
    BY SampleLengths
<1>2. CASE Begins(d, CdbCells)
    BY <1>1, <1>2, FirstSame DEF Begins, Foreign
<1>3. CASE Begins(d, PktCells)
    BY <1>1, <1>3, FirstSame DEF Begins, Foreign
<1>4. CASE \E crc : d = SealedPkt(crc)
    BY <1>4, SealedCells DEF SizedHeader, PktHeader, Foreign
<1> QED BY <1>2, <1>3, <1>4 DEF SampleMade

\* At the start neither file is opened yet.
LEMMA SampleStarts ==
    ASSUME NEW crc, NEW c, NEW p
    PROVE  Sampling(c, p, SampleScript(crc)) /\ SampleScript(crc) # <<>>
<1> DEFINE s == SampleScript(crc)
<1>1. LaidOut(s)
    BY SampleScriptIs
<1> HIDE DEF s
<1>2. IsSequence(s) /\ Len(s) = CdbLen + PktLen + 4 /\ CdbLen \in Nat /\ PktLen \in Nat
    BY <1>1, SampleLengths DEF LaidOut
<1>3. SampledTo(c, p, 0)
    BY <1>2 DEF SampledTo
<1>4. 0 \in 0..Len(s) /\ Len(s) = Len(s) - 0 /\ \A i \in 1..Len(s) : s[i] = s[0 + i]
    BY <1>2
<1>5. Sampling(c, p, s)
    BY <1>1, <1>2, <1>3, <1>4 DEF Sampling
<1>6. s # <<>>
  <2>1. Len(s) # 0
      BY <1>2
  <2> QED BY <2>1
<1> QED BY <1>5, <1>6 DEF s

\* One write of a script, and its file.
LEMMA EntryIs ==
    ASSUME NEW script, IsSequence(script), script # <<>>, NEW e, script[1] = e, ~Several(e.write)
    PROVE  /\ Head(script) = e /\ FirstOf(Head(script).write) = e.write
           /\ NextScript(script) = Tail(script)
BY NextIsTail, HeadTail

\* Writes of one cell reach the disk at once.
LEMMA OneCell ==
    /\ ~Several(Emptied)
    /\ \A cell : ~Several(WriteEnd(<<cell>>))
    /\ \A at, cell : ~Several(WriteAt(at, <<cell>>))
BY SingleSequence DEF Emptied, WriteEnd, WriteAt, Several

\* What a write of the generator leaves of the two files.
SampleStep(c, p, script, rest) ==
    \/ /\ Head(script).file = "sample.cdb" /\ rest # <<>>
       /\ Sampling(Written(c, FirstOf(Head(script).write)), p, rest)
       /\ SampleMade(Written(c, FirstOf(Head(script).write)))
    \/ /\ Head(script).file = "sample.pkt"
       /\ Sampling(c, Written(p, FirstOf(Head(script).write)), rest)
       /\ SampleMade(Written(p, FirstOf(Head(script).write)))

\* Each of its writes goes into one of the two files and leaves it so made.
LEMMA SampleNext ==
    ASSUME NEW c, NEW p, NEW script, Sampling(c, p, script), script # <<>>
    PROVE  IsSequence(NextScript(script)) /\ SampleStep(c, p, script, NextScript(script))
<1>1. PICK s, k : /\ LaidOut(s) /\ k \in 0..Len(s) /\ IsSequence(script) /\ Len(script) = Len(s) - k
                  /\ \A i \in 1..Len(script) : script[i] = s[k + i]
                  /\ SampledTo(c, p, k)
    BY DEF Sampling
<1>2. PICK C \in Nat \ {0} : C = CdbLen
    BY SampleLengths
<1>3. PICK b \in Nat \ {0} : b = Len(PktBody) /\ b + 1 = PktLen
    BY SampleLengths
<1>4. Len(s) = C + (b + 1) + 4 /\ k \in Nat
    BY <1>1, <1>2, <1>3 DEF LaidOut
<1> DEFINE e == s[k + 1]
           t == Tail(script)
           L == Len(s)
<1>5. /\ k + 1 \in 1..L /\ script[1] = e /\ IsSequence(t) /\ Len(t) = L - (k + 1)
      /\ \A i \in 1..Len(t) : t[i] = s[(k + 1) + i]
  <2>1. /\ Len(script) \in Nat \ {0} /\ IsSequence(t) /\ Len(t) = Len(script) - 1
        /\ \A i \in 1..Len(script) - 1 : t[i] = script[i + 1]
      BY <1>1, HeadTail
  <2>2. 1 \in 1..Len(script) /\ k + 1 \in 1..L
      BY <1>1, <1>4, <2>1
  <2>3. ASSUME NEW i \in 1..Len(t)
        PROVE  t[i] = s[(k + 1) + i]
    <3>1. i + 1 \in 1..Len(script) /\ k + (i + 1) = (k + 1) + i /\ i \in 1..Len(script) - 1
        BY <2>1, <1>4
    <3> QED BY <1>1, <2>1, <3>1
  <2> QED BY <1>1, <1>4, <2>1, <2>2, <2>3
<1>6. ASSUME NEW x, NEW y, SampledTo(x, y, k + 1)
      PROVE  Sampling(x, y, t)
  <2> DEFINE j == k + 1
  <2>1. j \in 0..Len(s) /\ IsSequence(t) /\ Len(t) = Len(s) - j
      BY <1>4, <1>5
  <2>2. (\A i \in 1..Len(t) : t[i] = s[j + i]) /\ SampledTo(x, y, j)
      BY <1>5, <1>6
  <2>3. LaidOut(s)
      BY <1>1
  <2> HIDE DEF t, j
  <2> QED BY <2>1, <2>2, <2>3, Zenon DEF Sampling
<1>7. k + 1 < L => t # <<>>
  <2>1. k + 1 < L => Len(t) > 0
      BY <1>4, <1>5
  <2> HIDE DEF t
  <2> QED BY <2>1, EmptySequence
<1> HIDE DEF t, e
<1>8. k = 0 \/ k \in 1..C \/ k = C + 1 \/ k - (C + 1) \in 1..b + 1 \/ k = C + b + 3 \/ k = C + b + 4
    BY <1>4, <1>5
<1>9. SUFFICES /\ \/ /\ e.file = "sample.cdb" /\ t # <<>>
                     /\ Sampling(Written(c, e.write), p, t) /\ SampleMade(Written(c, e.write))
                  \/ /\ e.file = "sample.pkt"
                     /\ Sampling(c, Written(p, e.write), t) /\ SampleMade(Written(p, e.write))
               /\ ~Several(e.write)
  <2>1. /\ Head(script) = e /\ FirstOf(Head(script).write) = e.write
        /\ NextScript(script) = t
      BY <1>1, <1>5, <1>9, EntryIs DEF t
  <2> QED BY <1>5, <1>9, <2>1 DEF SampleStep
<1>10. CASE k = 0
  <2>1. e = [file |-> "sample.cdb", write |-> Emptied]
      BY <1>1, <1>10 DEF e, LaidOut
  <2>2. e.file = "sample.cdb" /\ e.write = Emptied /\ Written(c, e.write) = <<>>
      BY <2>1, WrittenEmptied
  <2>3. Begins(<<>>, CdbCells) /\ Len(<<>>) = 0
      BY SampleLengths, NothingBegins
  <2>4. SampledTo(<<>>, p, k + 1)
      BY <1>2, <1>3, <1>10, <2>3 DEF SampledTo
  <2>5. t # <<>>
      BY <1>4, <1>7, <1>10
  <2> QED BY <1>6, <2>2, <2>3, <2>4, <2>5, OneCell DEF SampleMade
<1>11. CASE k \in 1..C
  <2>1. e = EndEntry("sample.cdb", CdbCells[k])
      BY <1>1, <1>2, <1>11 DEF e, LaidOut
  <2> DEFINE w == WriteEnd(<<CdbCells[k]>>)
             d == Written(c, w)
  <2>2. e.file = "sample.cdb" /\ e.write = w
      BY <2>1 DEF EndEntry
  <2>3. Begins(c, CdbCells) /\ Len(c) = k - 1 /\ k \in 1..Len(CdbCells)
      BY <1>1, <1>2, <1>11 DEF SampledTo, CdbLen
  <2>4. Begins(d, CdbCells) /\ Len(d) = k
      BY <2>3, BeginsNext
  <2>5. ~Several(w)
      BY OneCell
  <2> HIDE DEF w, d
  <2>6. SampledTo(d, p, k + 1)
      BY <1>2, <1>3, <1>11, <2>4 DEF SampledTo
  <2>7. t # <<>>
      BY <1>4, <1>7, <1>11
  <2> QED BY <1>6, <2>2, <2>4, <2>5, <2>6, <2>7 DEF d, SampleMade
<1>12. CASE k = C + 1
  <2>1. e = [file |-> "sample.pkt", write |-> Emptied]
    <3>1. k + 1 = C + 2
        BY <1>12
    <3> QED BY <1>1, <1>2, <3>1 DEF e, LaidOut
  <2>2. e.file = "sample.pkt" /\ e.write = Emptied /\ Written(p, e.write) = <<>>
      BY <2>1, WrittenEmptied
  <2>3. Begins(<<>>, PktCells) /\ Len(<<>>) = 0
      BY SampleLengths, NothingBegins
  <2>4. SampledTo(c, <<>>, k + 1)
      BY <1>2, <1>3, <1>12, <2>3 DEF SampledTo
  <2> QED BY <1>6, <2>2, <2>3, <2>4, OneCell DEF SampleMade
<1>14. CASE k - (C + 1) \in 1..b + 1
  <2>1. PICK i \in 1..b + 1 : i = k - (C + 1)
      BY <1>14
  <2> DEFINE w == WriteEnd(<<PktCells[i]>>)
             d == Written(p, w)
  <2>2. e = EndEntry("sample.pkt", PktCells[i])
    <3>1. i \in 1..PktLen /\ k + 1 = C + 2 + i
        BY <1>3, <1>4, <2>1
    <3> QED BY <1>1, <1>2, <3>1 DEF e, LaidOut
  <2>3. e.file = "sample.pkt" /\ e.write = w
      BY <2>2 DEF EndEntry
  <2>4. Begins(p, PktCells) /\ Len(p) = i - 1 /\ i \in 1..Len(PktCells)
    <3>1. k \in C + 2..C + PktLen + 2 /\ k - (C + 2) = i - 1 /\ i \in 1..PktLen
        BY <1>3, <1>4, <2>1
    <3> QED BY <1>1, <1>2, <3>1 DEF SampledTo, PktLen
  <2>5. Begins(d, PktCells) /\ Len(d) = i
      BY <2>4, BeginsNext
  <2>6. ~Several(w)
      BY OneCell
  <2> HIDE DEF w, d
  <2>7. SampledTo(c, d, k + 1)
    <3>1. PICK j \in Nat : j = k + 1
        BY <1>4
    <3>2. ~(j \in 1..CdbLen + 1) /\ j # CdbLen + PktLen + 3 /\ j - (CdbLen + 2) = i
        BY <1>2, <1>3, <1>4, <2>1, <3>1
    <3>3. SampledTo(c, d, j)
        BY <2>5, <3>2 DEF SampledTo
    <3> QED BY <3>1, <3>3
  <2> QED BY <1>6, <2>3, <2>5, <2>6, <2>7 DEF d, SampleMade
<1>15. CASE k = C + b + 3
  <2> DEFINE w == WriteAt(0, <<SizedHeader>>)
  <2>1. e = AtEntry("sample.pkt", 0, SizedHeader)
    <3>1. C + PktLen + 3 = k + 1
        BY <1>3, <1>15
    <3> QED BY <1>1, <1>2, <3>1 DEF e, LaidOut
  <2>2. e.file = "sample.pkt" /\ e.write = w
      BY <2>1 DEF AtEntry
  <2>3. p = PktCells
    <3>1. k \in C + 2..C + PktLen + 2 /\ k - (C + 2) = PktLen
        BY <1>3, <1>15
    <3>2. Begins(p, PktCells) /\ Len(p) = PktLen
        BY <1>1, <1>2, <3>1 DEF SampledTo
    <3> QED BY <3>2, SameSequence DEF Begins, PktLen
  <2>4. Written(p, w) = SealedPkt(0)
      BY <2>3, OffsetsFilledIn
  <2>5. ~Several(w)
      BY OneCell
  <2> HIDE DEF w
  <2>6. SampledTo(c, SealedPkt(0), k + 1)
      BY <1>2, <1>3, <1>15 DEF SampledTo
  <2> QED BY <1>6, <2>2, <2>4, <2>5, <2>6 DEF SampleMade
<1>16. CASE k = C + b + 4
  <2>1. PICK crc : s[C + PktLen + 4] = AtEntry("sample.pkt", Len(PktBody), PktFooter(crc))
      BY <1>1, <1>2 DEF LaidOut
  <2> DEFINE w == WriteAt(Len(PktBody), <<PktFooter(crc)>>)
  <2>2. e = AtEntry("sample.pkt", Len(PktBody), PktFooter(crc))
    <3>1. C + PktLen + 4 = k + 1
        BY <1>3, <1>16
    <3> QED BY <2>1, <3>1 DEF e
  <2>3. e.file = "sample.pkt" /\ e.write = w
      BY <2>2 DEF AtEntry
  <2>4. p = SealedPkt(0)
      BY <1>1, <1>2, <1>3, <1>16 DEF SampledTo
  <2>5. Written(p, w) = SealedPkt(crc)
      BY <2>4, FooterFilledIn
  <2>6. ~Several(w)
      BY OneCell
  <2> HIDE DEF w
  <2>7. SampledTo(c, SealedPkt(crc), k + 1)
      BY <1>2, <1>3, <1>16 DEF SampledTo
  <2> QED BY <1>6, <2>3, <2>5, <2>6, <2>7 DEF SampleMade
<1> QED BY <1>8, <1>10, <1>11, <1>12, <1>14, <1>15, <1>16

-----------------------------------------------------------------------------
(***************************************************************************)
(* What a file is, and what its writer was given.                          *)
(***************************************************************************)
CrypHolds(cells, p) ==
    /\ p.plain \in Seq(Bytes) /\ p.key \in DOMAIN HashOf
    /\ \E iv \in Block :
          /\ Begins(cells, Encrypted(p.plain, p.key, iv))
          /\ p.whole => Len(cells) = Len(Encrypted(p.plain, p.key, iv))

Crypt24Holds(cells, p) ==
    /\ p.plain \in Seq(Bytes)
    /\ \E iv : /\ Begins(cells, Crypt24Cells(p.plain, iv))
               /\ p.whole => Len(cells) = Len(Crypt24Cells(p.plain, iv))

OpenedHolds(cells, p) ==
    /\ p.of.kind = "cryp" /\ p.key = p.of.key =>
          /\ Begins(cells, ByteCells(p.of.plain))
          /\ p.whole /\ p.of.whole => Len(cells) = Len(p.of.plain)
    /\ p.of.kind = "crypt24" /\ p.whole =>
          /\ p.exit = "0" => cells = ByteCells(p.of.plain)
          /\ p.of.whole => p.exit = "0"

\* What begins as a container does is one, and what has bytes only has bytes.
Looks(cells, kind) ==
    /\ IsSequence(cells)
    /\ IsPlain(cells) => \A i \in 1..Len(cells) : cells[i].val \in Bytes
    /\ IsTable(cells) => kind = "table"
    /\ IsCryp(cells) => kind = "cryp"
    /\ cells # <<>> /\ cells[1].kind = "CRYPT24" => kind = "crypt24"

Means(cells, p) ==
    /\ Looks(cells, p.kind)
    /\ p.kind = "table" => TableHolds(cells, p.recs, p.sound)
    /\ p.kind = "cryp" => CrypHolds(cells, p)
    /\ p.kind = "crypt24" => Crypt24Holds(cells, p)
    /\ p.kind = "opened" => OpenedHolds(cells, p)

\* What the properties say of a file.
Safe(cells, p) ==
    /\ p.kind = "table" /\ p.sound => IndexIsTrue(cells, p.recs)
    /\ p.kind = "opened" => OpenedHolds(cells, p)

\* A file that is what its writer was given is as the properties want it.
LEMMA MeansSafe ==
    ASSUME NEW cells, NEW p, Means(cells, p)
    PROVE  Safe(cells, p)
<1>2. ASSUME p.kind = "table", p.sound
      PROVE  IndexIsTrue(cells, p.recs)
    BY <1>2, TableIndexed DEF Means, TableHolds
<1> QED BY <1>2 DEF Safe, Means

\* By its first cell.
LEMMA LooksBy ==
    ASSUME NEW cells, NEW kind, IsSequence(cells), Len(cells) >= 1 => cells[1].kind # "byte",
           Len(cells) >= 1 /\ cells[1].kind = "header" /\ cells[1].magic = "CDAT" => kind = "table",
           Len(cells) >= 1 /\ cells[1].kind = "cryp" => kind = "cryp",
           Len(cells) >= 1 /\ cells[1].kind = "CRYPT24" => kind = "crypt24"
    PROVE  Looks(cells, kind)
<1>1. Len(cells) \in Nat /\ DOMAIN cells = 1..Len(cells)
    BY IndexSet
<1>3. ASSUME IsPlain(cells), NEW i \in 1..Len(cells)
      PROVE  FALSE
    BY <1>1, <1>3 DEF IsPlain
<1> QED BY <1>3, <1>1, EmptySequence DEF Looks, IsTable, IsCryp

\* Bytes.
LEMMA LooksPlain ==
    ASSUME NEW cells, IsSequence(cells), NEW kind,
           \A i \in 1..Len(cells) : cells[i].kind = "byte" /\ cells[i].val \in Bytes
    PROVE  Looks(cells, kind)
BY IndexSet, EmptySequence DEF Looks, IsTable, IsCryp

\* A file of bytes, cell by cell.
LEMMA ByteCellsAre ==
    ASSUME NEW bytes \in Seq(Bytes)
    PROVE  /\ IsSequence(bytes) /\ IsSequence(ByteCells(bytes)) /\ Len(ByteCells(bytes)) = Len(bytes)
           /\ \A i \in 1..Len(bytes) : ByteCells(bytes)[i] = [kind |-> "byte", val |-> bytes[i]]
           /\ \A i \in 1..Len(bytes) : bytes[i] \in Bytes
<1>1. IsSequence(bytes)
    BY SequenceOf
<1>2. Len(bytes) \in Nat /\ DOMAIN bytes = 1..Len(bytes)
    BY <1>1, IndexSet
<1>3. ByteCells(bytes) = [i \in 1..Len(bytes) |-> [kind |-> "byte", val |-> bytes[i]]]
    BY <1>2 DEF ByteCells
<1> DEFINE b == ByteCells(bytes)
<1> HIDE DEF b
<1> QED BY <1>1, <1>3, <1>2, FunctionIs DEF b

\* And so is each beginning of one.
LEMMA BeginningLooksPlain ==
    ASSUME NEW bytes \in Seq(Bytes), NEW cells, Begins(cells, ByteCells(bytes)), NEW kind
    PROVE  Looks(cells, kind)
<1> DEFINE b == ByteCells(bytes)
           n == Len(bytes)
<1>1. /\ IsSequence(b) /\ Len(b) = n /\ n \in Nat
      /\ \A i \in 1..n : b[i] = [kind |-> "byte", val |-> bytes[i]] /\ bytes[i] \in Bytes
    BY ByteCellsAre, IndexSet
<1> HIDE DEF b, n
<1>2. IsSequence(cells) /\ Len(cells) <= n /\ \A i \in 1..Len(cells) : cells[i] = b[i]
    BY <1>1 DEF Begins, b
<1>3. ASSUME NEW i \in 1..Len(cells)
      PROVE  cells[i].kind = "byte" /\ cells[i].val \in Bytes
    BY <1>1, <1>2, IndexSet
<1> QED BY <1>2, <1>3, LooksPlain

\* The values of a plain file.
LEMMA ValuesAre ==
    ASSUME NEW cells, NEW kind, Looks(cells, kind), IsPlain(cells)
    PROVE  ValuesOf(cells) \in Seq(Bytes)
BY IndexSet DEF Looks, ValuesOf

\* Beginnings of byte sequences, in cells.
LEMMA ByteCellsBegin ==
    ASSUME NEW some \in Seq(Bytes), NEW bytes \in Seq(Bytes), Begins(some, bytes)
    PROVE  Begins(ByteCells(some), ByteCells(bytes))
<1> DEFINE a == ByteCells(some)
           b == ByteCells(bytes)
<1>1. /\ IsSequence(a) /\ Len(a) = Len(some)
      /\ \A i \in 1..Len(some) : a[i] = [kind |-> "byte", val |-> some[i]]
    BY ByteCellsAre
<1>2. /\ IsSequence(b) /\ Len(b) = Len(bytes)
      /\ \A i \in 1..Len(bytes) : b[i] = [kind |-> "byte", val |-> bytes[i]]
    BY ByteCellsAre
<1>3. Len(some) \in Nat /\ Len(bytes) \in Nat /\ Len(some) <= Len(bytes)
      /\ \A i \in 1..Len(some) : some[i] = bytes[i]
    BY DEF Begins
<1> HIDE DEF a, b
<1>4. ASSUME NEW i \in 1..Len(a)
      PROVE  a[i] = b[i]
  <2>1. i \in 1..Len(some) /\ i \in 1..Len(bytes)
      BY <1>1, <1>3
  <2> QED BY <1>1, <1>2, <1>3, <2>1
<1> QED BY <1>1, <1>2, <1>3, <1>4 DEF Begins, a, b

\* A beginning of a container of the cipher, or all of it.
LEMMA CrypMeans ==
    ASSUME NEW plain \in Seq(Bytes), NEW key \in DOMAIN HashOf, NEW iv \in Block, NEW cells,
           Begins(cells, Encrypted(plain, key, iv)), NEW w \in BOOLEAN,
           w => Len(cells) = Len(Encrypted(plain, key, iv))
    PROVE  Means(cells, Cryp(plain, key, w))
<1> DEFINE p == Cryp(plain, key, w)
           all == Encrypted(plain, key, iv)
<1> HIDE DEF p
<1>2. all[1].kind = "cryp"
  <2>1. PICK ct : Sealed(all, ct, plain, iv)
      BY EncryptedIs
  <2> HIDE DEF all
  <2> QED BY <2>1 DEF Sealed, CrypHeader
<1>3. Begins(cells, all) /\ (w => Len(cells) = Len(all))
    OBVIOUS
<1> HIDE DEF all
<1>5. Looks(cells, "cryp")
    BY <1>2, <1>3, FirstSame, LooksBy DEF Begins
<1> QED BY <1>5, <1>3 DEF Means, p, CrypHolds, Cryp

\* A beginning of a CRYPT24 file, or all of it.
LEMMA Crypt24Means ==
    ASSUME NEW plain \in Seq(Bytes), NEW iv, NEW cells, Begins(cells, Crypt24Cells(plain, iv)),
           NEW w \in BOOLEAN, w => Len(cells) = Len(Crypt24Cells(plain, iv))
    PROVE  Means(cells, Crypt24(plain, w))
<1> DEFINE p == Crypt24(plain, w)
           all == Crypt24Cells(plain, iv)
<1> HIDE DEF p
<1>2. all[1].kind = "CRYPT24"
  <2>2. Is24(all, CbcEncrypt(plain, CKey, iv), plain, iv)
      BY Crypt24Is, SequenceOf
  <2> HIDE DEF all
  <2> QED BY <2>2 DEF Is24
<1>3. Begins(cells, all) /\ (w => Len(cells) = Len(all))
    OBVIOUS
<1> HIDE DEF all
<1>5. Looks(cells, "crypt24")
    BY <1>2, <1>3, FirstSame, LooksBy DEF Begins
<1> QED BY <1>5, <1>3 DEF Means, p, Crypt24Holds, Crypt24

\* Opened files are bytes.
LEMMA OpenedMeans ==
    ASSUME NEW bytes \in Seq(Bytes), NEW cells, Begins(cells, ByteCells(bytes)), NEW p,
           p.kind = "opened", OpenedHolds(cells, p)
    PROVE  Means(cells, p)
BY BeginningLooksPlain DEF Means

\* A table with its records.
LEMMA TableMeans ==
    ASSUME NEW cells, NEW p, p.kind = "table", TableHolds(cells, p.recs, p.sound)
    PROVE  Means(cells, p)
BY LooksBy DEF TableHolds, Header, Means

\* Nothing is known of a file that looks like none of the containers.
LEMMA UnknownMeans ==
    ASSUME NEW cells, Looks(cells, "unknown")
    PROVE  Means(cells, Unknown)
BY DEF Unknown, Means

\* The samples are no containers,
LEMMA ForeignMeans ==
    ASSUME NEW cells, Foreign(cells)
    PROVE  Means(cells, Unknown)
BY LooksBy, UnknownMeans DEF Foreign

\* nor is a table before its last write,
LEMMA PlaceholderMeans ==
    ASSUME NEW cells, IsSequence(cells), Len(cells) >= 1 => cells[1] = Placeholder
    PROVE  Means(cells, Unknown)
<1>1. Placeholder.kind = "header" /\ Placeholder.magic = ""
    BY DEF Placeholder
<1>2. Looks(cells, "unknown")
    BY <1>1, LooksBy
<1> QED BY <1>2, UnknownMeans

\* nor are the files that were there before.
LEMMA UntouchedMeans ==
    ASSUME NEW cells, Untouched(cells)
    PROVE  Means(cells, Unknown)
BY IndexSet, UnknownMeans DEF Untouched, Looks, IsTable, IsCryp

\* cells written by process_encrypt's prepare_iv.
LEMMA IvIs ==
    ASSUME NEW time \in Bytes, NEW unset \in Bytes
    PROVE  Iv(time, unset) \in Block
<1>1. BYTES \in Nat \ {0} /\ BLOCK_SIZE \in Nat
    BY CipherAssumption
<1>2. ASSUME NEW i \in 1..BLOCK_SIZE
      PROVE  (IF i = BLOCK_SIZE THEN unset ELSE XOR[time][i % BYTES]) \in Bytes
  <2>1. i % BYTES \in Bytes
      BY <1>1, Remainder DEF Bytes
  <2> QED BY <2>1, KeyAssumption
<1> QED BY <1>2 DEF Iv, Block

-----------------------------------------------------------------------------
(***************************************************************************)
(* Running commands, and what the file is at each of their writes.         *)
(***************************************************************************)
StreamRuns(cells, script, file, torn, whole) ==
    \E all : /\ Streams(cells, script, file, all)
             /\ \A s : Begins(s, all) => Means(s, torn)
             /\ Means(all, whole)

AddRuns(cells, script, file, torn, whole) ==
    /\ torn.kind = "table" /\ ~torn.sound /\ whole.kind = "table"
    /\ TableHolds(cells, torn.recs, FALSE)
    /\ \E rec : whole.recs = Append(torn.recs, rec)
    /\ \E goal, head :
          /\ Lays(cells, script, file, goal, head) /\ Len(goal) >= 1
          /\ Place(script, goal, 1) >= Behind(torn.recs)
          /\ TableHolds([goal EXCEPT ![1] = head], whole.recs, whole.sound)

\* The file is not open yet, or empty, or begins with a placeholder.
CreateOpens(script, file) ==
    \E goal, head, rest :
        /\ IsSequence(rest) /\ Creates(rest, file, goal, head)
        /\ script = <<OpenEntry(file)>> \o (<<PlaceholderEntry(file)>> \o rest)
CreateBegins(cells, script, file) ==
    \E goal, head, rest :
        /\ cells = <<>> /\ IsSequence(rest) /\ Creates(rest, file, goal, head)
        /\ script = <<PlaceholderEntry(file)>> \o rest
CreateLays(cells, script, file) ==
    \E goal, head :
        /\ Lays(cells, script, file, goal, head) /\ Len(goal) >= 1
        /\ Place(script, goal, 1) >= 1 /\ cells[1] = Placeholder
        /\ TableHolds([goal EXCEPT ![1] = head], Sample, TRUE)

CreateRuns(cells, script, file, torn, whole) ==
    /\ torn = Unknown /\ whole = Table(Sample, TRUE)
    /\ CreateOpens(script, file) \/ CreateBegins(cells, script, file) \/ CreateLays(cells, script, file)

\* What a write leaves of a file.
Leaves(d, rest, torn, whole) ==
    /\ rest # <<>> => Means(d, torn)
    /\ rest = <<>> => Means(d, whole) /\ Safe(d, torn)

\* A command that writes a file from its beginning to its end leaves a beginning of it.
LEMMA StreamStep ==
    ASSUME NEW cells, NEW script, NEW file, NEW torn, NEW whole,
           StreamRuns(cells, script, file, torn, whole), script # <<>>
    PROVE  LET d == Written(cells, FirstOf(Head(script).write))
               rest == NextScript(script)
           IN  /\ Head(script).file = file /\ IsSequence(rest) /\ Leaves(d, rest, torn, whole)
               /\ StreamRuns(d, rest, file, torn, whole)
<1> DEFINE d == Written(cells, FirstOf(Head(script).write))
           rest == NextScript(script)
<1>1. PICK all : /\ Streams(cells, script, file, all)
                 /\ \A s : Begins(s, all) => Means(s, torn)
                 /\ Means(all, whole)
    BY DEF StreamRuns
<1>2. Head(script).file = file /\ IsSequence(rest) /\ Goes(d, rest, file, all)
    BY <1>1, StreamNext
<1>3. IsSequence(all)
    BY <1>1 DEF Streams
<1> HIDE DEF d, rest
<1>5. Means(d, torn)
    BY <1>1, <1>2 DEF Goes
<1>7. StreamRuns(d, rest, file, torn, whole)
    BY <1>1, <1>2, <1>3 DEF StreamRuns, Streams
<1>8. Leaves(d, rest, torn, whole)
    BY <1>5, MeansSafe, <1>2, <1>3, StreamEnds, <1>1 DEF Leaves
<1> QED BY <1>2, <1>7, <1>8 DEF d, rest

\* There is at least the write of the first cell.
LEMMA LaysScript ==
    ASSUME NEW cells, NEW script, NEW file, NEW goal, NEW head, Lays(cells, script, file, goal, head)
    PROVE  IsSequence(script) /\ Len(script) \in Nat \ {0} /\ script # <<>> /\ IsSequence(cells)
<1> HIDE DEF Lays
<1> QED BY EmptySequence, IndexSet DEF Lays

\* cmd_add leaves the records it found, and lists no fewer (fileformat.c:492-537).
LEMMA AddStep ==
    ASSUME NEW cells, NEW script, NEW file, NEW torn, NEW whole,
           AddRuns(cells, script, file, torn, whole), script # <<>>
    PROVE  LET d == Written(cells, FirstOf(Head(script).write))
               rest == NextScript(script)
           IN  /\ Head(script).file = file /\ IsSequence(rest) /\ Leaves(d, rest, torn, whole)
               /\ rest # <<>> => AddRuns(d, rest, file, torn, whole)
               /\ Begins(Listed(cells), Listed(d))
<1> DEFINE d == Written(cells, FirstOf(Head(script).write))
           rest == NextScript(script)
           old == torn.recs
           new == whole.recs
<1>1. /\ torn.kind = "table" /\ ~torn.sound /\ whole.kind = "table"
      /\ TableHolds(cells, old, FALSE)
    BY DEF AddRuns
<1>2. PICK rec : new = Append(old, rec)
    BY DEF AddRuns
<1>3. PICK goal, head :
          /\ Lays(cells, script, file, goal, head) /\ Len(goal) >= 1
          /\ Place(script, goal, 1) >= Behind(old)
          /\ TableHolds([goal EXCEPT ![1] = head], new, whole.sound)
    BY DEF AddRuns
<1>4. Len(script) \in Nat \ {0}
    BY <1>3, LaysScript
<1>5. AreRecords(old) /\ IsSequence(old) /\ Len(old) \in Nat
    BY <1>1, RecordsCount DEF TableHolds
<1>6. Behind(old) \in Nat
    BY <1>5, BehindIs
<1>7. cells # <<>> /\ Listed(cells) = Listing(old, Visible(old, Counted(old)))
    BY <1>1, TableListed
<1>8. Counted(old) \in Nat /\ Counted(old) <= Len(old)
    BY <1>5, CountedIs
<1>9. CASE Len(script) # 1
  <2>1. /\ Head(script).file = file /\ Lays(d, rest, file, goal, head)
        /\ Place(script, goal, 1) \in Nat
        /\ Place(rest, goal, 1) >= Place(script, goal, 1)
        /\ Same(cells, d, Place(script, goal, 1))
      BY <1>3, <1>9, LaysNext
  <2> HIDE DEF d, rest
  <2>2. IsSequence(rest) /\ Len(rest) \in Nat \ {0} /\ rest # <<>> /\ IsSequence(d)
      BY <2>1, LaysScript
  <2>3. Same(cells, d, Behind(old))
      BY <1>3, <1>6, <2>1 DEF Same
  <2>4. TableHolds(d, old, FALSE)
      BY <1>1, <2>2, <2>3, TableKept
  <2>5. Place(rest, goal, 1) >= Behind(old)
      BY <2>1, <1>3, <1>6 DEF Lays, Agrees
  <2>6. AddRuns(d, rest, file, torn, whole)
      BY <1>2, <1>3, <2>1, <2>5, <1>1, <2>4 DEF AddRuns
  <2>8. Leaves(d, rest, torn, whole)
      BY <2>2, <1>1, <2>4, TableMeans DEF Leaves, TableHolds
  <2>9. Begins(Listed(cells), Listed(d))
    <3>2. Visible(old, Counted(old)) \in Nat
        BY <1>8, VisibleIs
    <3> QED BY <1>7, <3>2, ListingIs, BeginsItself, <2>4, TableListed, ZenonT(30)
  <2> QED BY <2>1, <2>2, <2>6, <2>8, <2>9 DEF d, rest
<1>10. CASE Len(script) = 1
  <2>1. /\ Head(script).file = file /\ rest = <<>>
        /\ Begins([goal EXCEPT ![1] = head], d)
      BY <1>3, <1>10, LaysEnd
  <2> HIDE DEF d, rest
  <2>2. TableHolds(d, new, whole.sound)
      BY <1>3, <2>1, TableExtends
  <2>3. Means(d, whole)
      BY <1>1, <2>2, TableMeans
  <2>4. Safe(d, torn)
      BY <1>1 DEF Safe
  <2>5. Leaves(d, rest, torn, whole)
      BY <2>1, <2>3, <2>4 DEF Leaves
  <2>6. Begins(Listed(cells), Listed(d))
    <3>2. /\ IsSequence(new) /\ Len(new) = Len(old) + 1
          /\ \A i \in 1..Len(old) : new[i] = old[i]
        BY <1>2, <1>5, AppendedAt
    <3>3. /\ Counted(new) \in Nat /\ Counted(old) <= Counted(new)
          /\ \A i \in 1..Counted(old) : old[i] = new[i]
        BY <1>5, <1>8, <3>2, CountedNext
    <3>4. Begins(Listing(old, Visible(old, Counted(old))), Listing(new, Visible(new, Counted(new))))
        BY <1>8, <3>3, ListingGrows
    <3> QED BY <1>7, <3>4, <2>2, TableListed
  <2> QED BY <2>1, <2>5, <2>6, EmptySequence DEF d, rest
<1> QED BY <1>9, <1>10

\* The first write into an empty file.
LEMMA WrittenFirst ==
    ASSUME NEW c
    PROVE  Written(<<>>, WriteAt(0, <<c>>)) = <<c>>
<1> DEFINE e == <<>>
           a == SubSeq(e, 1, 0)
           b == SubSeq(e, 2, 0)
<1>1. e \in Seq({}) /\ Len(e) = 0
    OBVIOUS
<1>2. IsSequence(<<c>>) /\ Len(<<c>>) = 1 /\ <<c>>[1] = c
    BY SingleSequence
<1>3. Written(<<>>, WriteAt(0, <<c>>)) = a \o <<c>> \o b
    BY <1>1, <1>2 DEF Written, WriteAt
<1> HIDE DEF e
<1>4. a = [i \in 1..0 |-> e[i]] /\ b = [i \in 1..0 |-> e[i + 1]]
    BY <1>1
<1> HIDE DEF a, b
<1>5. IsSequence(a) /\ Len(a) = 0 /\ IsSequence(b) /\ Len(b) = 0
    BY <1>4, FunctionIs
<1> DEFINE u == a \o <<c>>
           d == u \o b
<1>6. Join(u, a, <<c>>)
    BY <1>2, <1>5, Joined
<1> HIDE DEF u
<1>7. IsSequence(u) /\ Len(u) = 1 /\ u[1] = c
    BY <1>2, <1>5, <1>6 DEF Join
<1>8. Join(d, u, b)
    BY <1>5, <1>7, Joined
<1> HIDE DEF d
<1>9. IsSequence(d) /\ Len(d) = 1 /\ d[1] = c
    BY <1>5, <1>7, <1>8 DEF Join
<1>10. d = <<c>>
    BY <1>2, <1>9, SameSequence
<1> QED BY <1>3, <1>10 DEF d, u

\* cmd_create leaves no table before its last write (fileformat.c:346-389).
LEMMA CreateStep ==
    ASSUME NEW cells, NEW script, NEW file, NEW torn, NEW whole,
           CreateRuns(cells, script, file, torn, whole), script # <<>>
    PROVE  LET d == Written(cells, FirstOf(Head(script).write))
               rest == NextScript(script)
           IN  /\ Head(script).file = file /\ IsSequence(rest) /\ Leaves(d, rest, torn, whole)
               /\ rest # <<>> => CreateRuns(d, rest, file, torn, whole)
<1> DEFINE d == Written(cells, FirstOf(Head(script).write))
           rest == NextScript(script)
<1>1. torn = Unknown /\ whole = Table(Sample, TRUE)
    BY DEF CreateRuns
<1>2. CASE CreateOpens(script, file)
  <2>1. PICK goal, head, more :
            /\ IsSequence(more) /\ Creates(more, file, goal, head)
            /\ script = <<OpenEntry(file)>> \o (<<PlaceholderEntry(file)>> \o more)
      BY <1>2 DEF CreateOpens
  <2> DEFINE t == <<PlaceholderEntry(file)>> \o more
             e == OpenEntry(file)
  <2>2. IsSequence(t) /\ t # <<>>
      BY <2>1, ConsTail
  <2>3. e.file = file /\ e.write = Emptied
      BY DEF OpenEntry
  <2>4. script = <<e>> \o t
      BY <2>1
  <2> HIDE DEF t, e
  <2>5. IsSequence(script) /\ script[1] = e /\ Tail(script) = t
      BY <2>2, <2>4, ConsTail
  <2>6. Head(script) = e /\ FirstOf(Head(script).write) = Emptied /\ rest = t
      BY <2>3, OneCell, <2>5, EntryIs
  <2>7. d = <<>>
      BY <2>6, WrittenEmptied
  <2> HIDE DEF d, rest
  <2>8. CreateBegins(d, rest, file)
      BY <2>1, <2>6, <2>7 DEF CreateBegins, t
  <2>9. Means(d, torn)
      BY <1>1, <2>7, EmptySequence, PlaceholderMeans
  <2> QED BY <1>1, <2>2, <2>3, <2>6, <2>8, <2>9 DEF CreateRuns, Leaves, d, rest
<1>3. CASE CreateBegins(cells, script, file)
  <2>1. PICK goal, head, more :
            /\ cells = <<>> /\ IsSequence(more) /\ Creates(more, file, goal, head)
            /\ script = <<PlaceholderEntry(file)>> \o more
      BY <1>3 DEF CreateBegins
  <2> DEFINE e == PlaceholderEntry(file)
  <2>2. e.file = file /\ e.write = WriteAt(0, <<Placeholder>>)
      BY DEF PlaceholderEntry
  <2> HIDE DEF e
  <2>4. IsSequence(script) /\ script[1] = e /\ Tail(script) = more
      BY <2>1, ConsTail DEF e
  <2>5. Head(script) = e /\ FirstOf(Head(script).write) = WriteAt(0, <<Placeholder>>) /\ rest = more
      BY <2>2, OneCell, <2>4, EntryIs
  <2>6. d = <<Placeholder>>
      BY <2>1, <2>5, WrittenFirst
  <2> HIDE DEF d, rest
  <2>7. /\ Lays(d, rest, file, goal, head) /\ Len(goal) >= 1 /\ Place(rest, goal, 1) >= 1
        /\ d[1] = Placeholder /\ TableHolds([goal EXCEPT ![1] = head], Sample, TRUE)
    <3>1. /\ Lays(<<Placeholder>>, more, file, goal, head) /\ Len(goal) >= 1
          /\ Place(more, goal, 1) = 1 /\ TableHolds([goal EXCEPT ![1] = head], Sample, TRUE)
        BY <2>1 DEF Creates
    <3>2. Place(more, goal, 1) >= 1
        BY <3>1
    <3>3. d[1] = Placeholder
        BY <2>6, SingleSequence
    <3>4. Lays(d, rest, file, goal, head) /\ Place(rest, goal, 1) >= 1
      <4>1. rest = more /\ d = <<Placeholder>>
          BY <2>5, <2>6
      <4> QED BY <3>1, <3>2, <4>1, Zenon
    <3> QED BY <3>1, <3>3, <3>4, Zenon
  <2>8. CreateLays(d, rest, file)
      BY <2>7 DEF CreateLays
  <2>9. rest # <<>> /\ IsSequence(rest)
      BY <2>7, LaysScript
  <2>10. Means(d, torn)
      BY <1>1, <2>6, SingleSequence, PlaceholderMeans
  <2> QED BY <1>1, <2>2, <2>5, <2>8, <2>9, <2>10 DEF CreateRuns, Leaves, d, rest
<1>4. CASE CreateLays(cells, script, file)
  <2>1. PICK goal, head :
            /\ Lays(cells, script, file, goal, head) /\ Len(goal) >= 1
            /\ Place(script, goal, 1) >= 1 /\ cells[1] = Placeholder
            /\ TableHolds([goal EXCEPT ![1] = head], Sample, TRUE)
      BY <1>4 DEF CreateLays
  <2>2. Len(script) \in Nat \ {0} /\ IsSequence(cells)
      BY <2>1, LaysScript
  <2>3. CASE Len(script) # 1
    <3>1. /\ Head(script).file = file /\ Lays(d, rest, file, goal, head)
          /\ Place(script, goal, 1) \in Nat
          /\ Place(rest, goal, 1) >= Place(script, goal, 1)
          /\ Same(cells, d, Place(script, goal, 1))
        BY <2>1, <2>3, LaysNext
    <3> HIDE DEF d, rest
    <3>2. IsSequence(rest) /\ rest # <<>> /\ IsSequence(d)
        BY <3>1, LaysScript
    <3>3. d[1] = Placeholder /\ Place(rest, goal, 1) >= 1
        BY <2>1, <3>1 DEF Same, Lays, Agrees
    <3>4. CreateLays(d, rest, file)
        BY <2>1, <3>1, <3>3 DEF CreateLays
    <3>5. Means(d, torn)
        BY <1>1, <3>2, <3>3, PlaceholderMeans
    <3> QED BY <1>1, <3>1, <3>2, <3>4, <3>5 DEF CreateRuns, Leaves, d, rest
  <2>4. CASE Len(script) = 1
    <3>1. /\ Head(script).file = file /\ rest = <<>>
          /\ Begins([goal EXCEPT ![1] = head], d)
        BY <2>1, <2>4, LaysEnd
    <3> HIDE DEF d, rest
    <3>3. Means(d, whole)
      <4>1. whole.kind = "table" /\ whole.recs = Sample /\ whole.sound = TRUE
          BY <1>1 DEF Table
      <4> QED BY <4>1, TableMeans, <2>1, <3>1, TableExtends
    <3>4. Safe(d, torn)
        BY <1>1 DEF Unknown, Safe
    <3> QED BY <3>1, <3>3, <3>4, EmptySequence DEF Leaves, d, rest
  <2> QED BY <2>3, <2>4
<1> QED BY <1>2, <1>3, <1>4 DEF CreateRuns

-----------------------------------------------------------------------------
(***************************************************************************)
(* The inductive invariant.                                                *)
(***************************************************************************)
SamplesRun(d, script, file, torn, whole) ==
    /\ file = "sample.pkt" /\ torn = Unknown /\ whole = Unknown
    /\ {"sample.cdb", "sample.pkt"} \subseteq DOMAIN d
    /\ Sampling(d["sample.cdb"], d["sample.pkt"], script)

\* The writes a command has still to make, with the disk as it is.
Pending(tool, d, script, file, torn, whole) ==
    IF tool = "generate" THEN SamplesRun(d, script, file, torn, whole)
    ELSE IF tool = "add" THEN AddRuns(d[file], script, file, torn, whole)
    ELSE StreamRuns(d[file], script, file, torn, whole)
         \/ CreateRuns(d[file], script, file, torn, whole)

IsCommand(p) ==
    /\ p = [tool |-> p.tool, file |-> p.file, script |-> p.script,
            torn |-> p.torn, whole |-> p.whole, exit |-> p.exit]
    /\ p.tool \notin {"none", "parse"} /\ p.file \in Files /\ IsSequence(p.script)

Filed ==
    /\ bench \in Benches
    /\ DOMAIN disk = DOMAIN bench.disk /\ DOMAIN put = DOMAIN bench.disk

\* A command has written all but its exit code.
Ended(f) == proc # Idle /\ proc.script = <<>> /\ f = proc.file
FileHolds(f) ==
    /\ ~Ended(f) => Means(disk[f], put[f])
    /\ Ended(f) => Means(disk[f], proc.whole) /\ Safe(disk[f], put[f])

Running ==
    proc # Idle =>
        /\ IsCommand(proc) /\ last = NoReport
        /\ proc.script # <<>> =>
              Pending(proc.tool, disk, proc.script, proc.file, proc.torn, proc.whole)

Reported ==
    last.tool = "parse" /\ last.exit = "0" =>
        proc = Idle /\ last.file \in Files /\ last.found = Listed(disk[last.file])

BenchInv ==
    /\ Filed
    /\ \A f \in Files : FileHolds(f)
    /\ Running
    /\ Reported

\* Nothing was written, nothing runs, nothing was reported.
LEMMA InitHolds == Init => BenchInv
<1> SUFFICES ASSUME Init PROVE BenchInv
    OBVIOUS
<1> USE DEF Init
<1>1. proc = Idle /\ last = NoReport /\ last.tool = "none"
    BY DEF NoReport
<1>3. ASSUME NEW f \in Files
      PROVE  FileHolds(f)
    BY UntouchedMeans, <1>1, BenchAssumption DEF Files, FileHolds, Ended
<1>4. Filed
    BY DEF Filed
<1> QED BY <1>1, <1>3, <1>4 DEF BenchInv, Running, Reported

\* A write of a command: g is its file, cells what the file is then, and rest
\* what the command has still to write.
Advances(tool, d, script, file, torn, whole, g, cells, rest) ==
    /\ g \in DOMAIN d /\ IsSequence(rest)
    /\ rest = <<>> => g = file
    /\ Leaves(cells, rest, torn, whole)
    /\ rest # <<>> => Pending(tool, [d EXCEPT ![g] = cells], rest, file, torn, whole)
    /\ tool = "add" => Begins(Listed(d[g]), Listed(cells))

\* A write of the generator.
LEMMA SamplesAdvance ==
    ASSUME NEW d, NEW script, NEW file, NEW torn, NEW whole,
           SamplesRun(d, script, file, torn, whole), script # <<>>
    PROVE  Advances("generate", d, script, file, torn, whole, Head(script).file,
                    Written(d[Head(script).file], FirstOf(Head(script).write)), NextScript(script))
<1> DEFINE g == Head(script).file
           cells == Written(d[g], FirstOf(Head(script).write))
           rest == NextScript(script)
           c == d["sample.cdb"]
           p == d["sample.pkt"]
<1>1. /\ file = "sample.pkt" /\ torn = Unknown /\ whole = Unknown
      /\ "sample.cdb" \in DOMAIN d /\ "sample.pkt" \in DOMAIN d
      /\ Sampling(c, p, script)
    BY DEF SamplesRun
<1>2. IsSequence(rest) /\ SampleStep(c, p, script, rest)
    BY <1>1, SampleNext
<1>4. ASSUME SampleMade(cells)
      PROVE  Leaves(cells, rest, torn, whole)
    BY <1>1, <1>4, ForeignMeans, MadeForeign DEF Leaves, Safe, Unknown
<1>5. CASE /\ g = "sample.cdb" /\ rest # <<>>
           /\ Sampling(Written(c, FirstOf(Head(script).write)), p, rest)
           /\ SampleMade(Written(c, FirstOf(Head(script).write)))
  <2>2. Sampling(cells, p, rest) /\ SampleMade(cells)
      BY <1>5
  <2> HIDE DEF cells, rest
  <2> DEFINE e == [d EXCEPT ![g] = cells]
  <2>3. e["sample.cdb"] = cells /\ e["sample.pkt"] = p /\ DOMAIN e = DOMAIN d
      BY <1>1, <1>5
  <2> HIDE DEF e
  <2>4. SamplesRun(e, rest, file, torn, whole)
      BY <1>1, <2>2, <2>3 DEF SamplesRun
  <2>6. g \in DOMAIN d /\ rest # <<>>
      BY <1>1, <1>5
  <2>7. Leaves(cells, rest, torn, whole)
      BY <1>4, <2>2
  <2>8. Advances("generate", d, script, file, torn, whole, g, cells, rest)
    <3> HIDE DEF g
    <3> QED BY <1>2, <2>6, <2>7, <2>4 DEF Advances, e, Pending
  <2> QED BY <2>8 DEF cells, rest
<1>6. CASE /\ g = "sample.pkt"
           /\ Sampling(c, Written(p, FirstOf(Head(script).write)), rest)
           /\ SampleMade(Written(p, FirstOf(Head(script).write)))
  <2>2. Sampling(c, cells, rest) /\ SampleMade(cells)
      BY <1>6
  <2> HIDE DEF cells, rest
  <2> DEFINE e == [d EXCEPT ![g] = cells]
  <2>3. e["sample.pkt"] = cells /\ e["sample.cdb"] = c /\ DOMAIN e = DOMAIN d
      BY <1>1, <1>6
  <2> HIDE DEF e
  <2>4. SamplesRun(e, rest, file, torn, whole)
      BY <1>1, <2>2, <2>3 DEF SamplesRun
  <2>6. g \in DOMAIN d /\ g = file
      BY <1>1, <1>6
  <2>7. Leaves(cells, rest, torn, whole)
      BY <1>4, <2>2
  <2>8. Advances("generate", d, script, file, torn, whole, g, cells, rest)
    <3> HIDE DEF g
    <3> QED BY <1>2, <2>6, <2>7, <2>4 DEF Advances, e, Pending
  <2> QED BY <2>8 DEF cells, rest
<1> QED BY <1>2, <1>5, <1>6 DEF SampleStep

\* A write of cmd_add.
LEMMA AddAdvances ==
    ASSUME NEW d, NEW script, NEW file \in DOMAIN d, NEW torn, NEW whole,
           AddRuns(d[file], script, file, torn, whole), script # <<>>
    PROVE  Advances("add", d, script, file, torn, whole, Head(script).file,
                    Written(d[Head(script).file], FirstOf(Head(script).write)), NextScript(script))
<1> DEFINE g == Head(script).file
           cells == Written(d[g], FirstOf(Head(script).write))
           rest == NextScript(script)
           e == [d EXCEPT ![g] = cells]
           first == Written(d[file], FirstOf(Head(script).write))
<1>1. /\ Head(script).file = file /\ IsSequence(rest) /\ Leaves(first, rest, torn, whole)
      /\ rest # <<>> => AddRuns(first, rest, file, torn, whole)
      /\ Begins(Listed(d[file]), Listed(first))
    BY AddStep
<1>2. g = file /\ cells = first
    BY <1>1
<1> HIDE DEF cells, rest, first
<1>5. Advances("add", d, script, file, torn, whole, g, cells, rest)
  <2> HIDE DEF g
  <2> QED BY <1>1, <1>2 DEF Advances, Pending
<1> QED BY <1>5 DEF cells, rest

\* A write of any other command.
LEMMA OthersAdvance ==
    ASSUME NEW d, NEW tool, tool # "generate", tool # "add", NEW script, NEW file \in DOMAIN d,
           NEW torn, NEW whole, script # <<>>,
           StreamRuns(d[file], script, file, torn, whole)
           \/ CreateRuns(d[file], script, file, torn, whole)
    PROVE  Advances(tool, d, script, file, torn, whole, Head(script).file,
                    Written(d[Head(script).file], FirstOf(Head(script).write)), NextScript(script))
<1> DEFINE g == Head(script).file
           cells == Written(d[g], FirstOf(Head(script).write))
           rest == NextScript(script)
           e == [d EXCEPT ![g] = cells]
           first == Written(d[file], FirstOf(Head(script).write))
<1>1. /\ Head(script).file = file /\ IsSequence(rest) /\ Leaves(first, rest, torn, whole)
      /\ rest # <<>> => StreamRuns(first, rest, file, torn, whole)
                        \/ CreateRuns(first, rest, file, torn, whole)
    BY StreamStep, CreateStep
<1>2. g = file /\ cells = first
    BY <1>1
<1> HIDE DEF cells, rest, first
<1>5. Advances(tool, d, script, file, torn, whole, g, cells, rest)
  <2> HIDE DEF g
  <2> QED BY <1>1, <1>2 DEF Advances, Pending
<1> QED BY <1>5 DEF cells, rest

\* A write of any command.
LEMMA RunsAdvance ==
    ASSUME NEW d, NEW tool, NEW script, NEW file \in DOMAIN d, NEW torn, NEW whole,
           Pending(tool, d, script, file, torn, whole), script # <<>>
    PROVE  Advances(tool, d, script, file, torn, whole, Head(script).file,
                    Written(d[Head(script).file], FirstOf(Head(script).write)), NextScript(script))
BY SamplesAdvance, AddAdvances, OthersAdvance DEF Pending

-----------------------------------------------------------------------------
\* WriteNext, by the invariant.
WriteHolds(file, cells, rest) ==
    /\ Advances(proc.tool, disk, proc.script, proc.file, proc.torn, proc.whole, file, cells, rest)
    /\ disk' = [disk EXCEPT ![file] = cells] /\ put' = [put EXCEPT ![file] = proc.torn]
    /\ proc' = [tool |-> proc.tool, file |-> proc.file, script |-> rest,
                torn |-> proc.torn, whole |-> proc.whole, exit |-> proc.exit]
    /\ IsCommand(proc) /\ proc # Idle /\ proc.script # <<>>
    /\ UNCHANGED <<bench, runs, last>> /\ last = NoReport

LEMMA WriteNextHolds ==
    ASSUME BenchInv, WriteNext
    PROVE  \E file, cells, rest : WriteHolds(file, cells, rest)
<1> DEFINE file == Head(proc.script).file
           cells == Written(disk[file], FirstOf(Head(proc.script).write))
           rest == NextScript(proc.script)
<1>1. proc # Idle /\ proc.script # <<>> /\ UNCHANGED <<bench, runs, last>>
    BY DEF WriteNext
<1>2. /\ IsCommand(proc) /\ last = NoReport
      /\ Pending(proc.tool, disk, proc.script, proc.file, proc.torn, proc.whole)
    BY <1>1 DEF BenchInv, Running
<1>3. Advances(proc.tool, disk, proc.script, proc.file, proc.torn, proc.whole, file, cells, rest)
    BY <1>2, <1>1, RunsAdvance DEF IsCommand, Files
<1>4. /\ disk' = [disk EXCEPT ![file] = cells] /\ put' = [put EXCEPT ![file] = proc.torn]
      /\ proc' = [proc EXCEPT !.script = rest]
    BY DEF WriteNext, NextScript
<1> HIDE DEF file, cells, rest
<1>6. WriteHolds(file, cells, rest)
    BY <1>1, <1>2, <1>3, <1>4 DEF WriteHolds, IsCommand
<1> QED BY <1>6

\* A command that has a name runs.
LEMMA NotIdle ==
    ASSUME NEW p, p.tool # "none"
    PROVE  p # Idle
BY DEF Idle

\* Each action keeps the invariant: a write,
LEMMA WriteNextKeeps ==
    ASSUME BenchInv, WriteNext
    PROVE  BenchInv'
<1>1. PICK file, cells, rest : WriteHolds(file, cells, rest)
    BY WriteNextHolds
<1>2. /\ Advances(proc.tool, disk, proc.script, proc.file, proc.torn, proc.whole, file, cells, rest)
      /\ disk' = [disk EXCEPT ![file] = cells] /\ put' = [put EXCEPT ![file] = proc.torn]
      /\ proc' = [tool |-> proc.tool, file |-> proc.file, script |-> rest,
                  torn |-> proc.torn, whole |-> proc.whole, exit |-> proc.exit]
      /\ IsCommand(proc) /\ proc # Idle /\ proc.script # <<>>
      /\ bench' = bench /\ runs' = runs /\ last' = last /\ last = NoReport
    BY <1>1 DEF WriteHolds
<1>3. /\ file \in DOMAIN disk /\ IsSequence(rest)
      /\ rest = <<>> => file = proc.file
      /\ Leaves(cells, rest, proc.torn, proc.whole)
      /\ rest # <<>> => Pending(proc.tool, disk', rest, proc.file, proc.torn, proc.whole)
    BY <1>2 DEF Advances
<1>4. Filed /\ \A f \in Files : FileHolds(f)
    BY DEF BenchInv
<1>5. DOMAIN disk' = DOMAIN disk /\ DOMAIN put' = DOMAIN put /\ DOMAIN put = DOMAIN disk
    BY <1>2, <1>4 DEF Filed
<1>6. disk'[file] = cells /\ put'[file] = proc.torn
    BY <1>2, <1>3, <1>5
<1>7. /\ proc'.tool = proc.tool /\ proc'.file = proc.file /\ proc'.script = rest
      /\ proc'.torn = proc.torn /\ proc'.whole = proc.whole /\ proc'.exit = proc.exit
    BY <1>2
<1>8. IsCommand(proc)'
    BY <1>2, <1>3, <1>5, <1>7 DEF IsCommand, Files
<1>9. (proc # Idle)'
    BY <1>8, NotIdle DEF IsCommand
<1>10. Filed'
    BY <1>2, <1>4, <1>5 DEF Filed
<1>11. ASSUME NEW f \in Files'
       PROVE  FileHolds(f)'
  <2>1. f \in DOMAIN disk /\ f \in Files
      BY <1>5 DEF Files
  <2>2. CASE f = file
    <3>1. CASE rest = <<>>
      <4>1. Ended(f)' /\ Means(cells, proc.whole) /\ Safe(cells, proc.torn)
          BY <1>3, <1>7, <1>9, <2>2, <3>1 DEF Ended, Leaves
      <4> QED BY <1>6, <1>7, <2>2, <4>1 DEF FileHolds
    <3>2. CASE rest # <<>>
      <4>1. ~Ended(f)' /\ Means(cells, proc.torn)
          BY <1>3, <1>7, <3>2 DEF Ended, Leaves
      <4> QED BY <1>6, <2>2, <4>1 DEF FileHolds
    <3> QED BY <3>1, <3>2
  <2>3. CASE f # file
    <3>2. ~Ended(f) /\ ~Ended(f)'
        BY <1>2, <1>3, <1>7, <2>3 DEF Ended
    <3> QED BY <3>2, <1>2, <1>5, <2>1, <2>3, <1>4 DEF FileHolds
  <2> QED BY <2>2, <2>3
<1>12. Running'
    BY <1>2, <1>3, <1>7, <1>8, <1>9 DEF Running
<1>13. Reported'
    BY <1>2 DEF NoReport, Reported
<1> QED BY <1>10, <1>11, <1>12, <1>13 DEF BenchInv

\* the end of a command,
LEMMA FinishKeeps ==
    ASSUME BenchInv, Finish
    PROVE  BenchInv'
<1>1. /\ proc # Idle /\ proc.script = <<>>
      /\ put' = [put EXCEPT ![proc.file] = proc.whole]
      /\ last' = [tool |-> proc.tool, file |-> proc.file, exit |-> proc.exit, found |-> <<>>]
      /\ proc' = Idle /\ bench' = bench /\ runs' = runs /\ disk' = disk
    BY DEF Finish
<1>2. IsCommand(proc)
    BY <1>1 DEF BenchInv, Running
<1>3. Filed /\ \A f \in Files : FileHolds(f)
    BY DEF BenchInv
<1>4. proc.file \in DOMAIN disk /\ DOMAIN put = DOMAIN disk /\ DOMAIN put' = DOMAIN put
    BY <1>1, <1>2, <1>3 DEF Filed, Files, IsCommand
<1>5. Filed'
    BY <1>1, <1>3, <1>4 DEF Filed
<1>6. ASSUME NEW f \in Files'
      PROVE  FileHolds(f)'
    BY <1>1, <1>3, <1>4 DEF Files, Ended, FileHolds
<1>7. Running'
    BY <1>1 DEF Running
<1>8. Reported'
    BY <1>1, <1>2 DEF IsCommand, Reported
<1> QED BY <1>5, <1>6, <1>7, <1>8 DEF BenchInv

\* its death,
LEMMA DieKeeps ==
    ASSUME BenchInv, Die
    PROVE  BenchInv'
<1>1. /\ proc # Idle /\ proc.script # <<>> /\ proc' = Idle
      /\ bench' = bench /\ runs' = runs /\ disk' = disk /\ last' = last /\ put' = put
    BY DEF Die
<1>3. Filed /\ \A f \in Files : FileHolds(f)
    BY DEF BenchInv
<1>4. Filed'
    BY <1>1, <1>3 DEF Filed
<1>5. ASSUME NEW f \in Files'
      PROVE  FileHolds(f)'
    BY <1>1, <1>3 DEF Files, FileHolds, Ended
<1>6. Running'
    BY <1>1 DEF Running
<1>7. Reported'
    BY <1>1 DEF NoReport, Reported, BenchInv, Running
<1> QED BY <1>4, <1>5, <1>6, <1>7 DEF BenchInv

\* With no command running, every file is what its last writer was given.
LEMMA FileMeans ==
    ASSUME BenchInv, proc = Idle, NEW f \in Files
    PROVE  Means(disk[f], put[f])
BY DEF BenchInv, FileHolds, Ended

\* its start,
LEMMA StartKeeps ==
    ASSUME BenchInv, proc = Idle, NEW tool, tool \notin {"none", "parse"}, NEW file \in Files,
           NEW script, IsSequence(script), script # <<>>, NEW torn, NEW whole, NEW exit,
           Pending(tool, disk, script, file, torn, whole),
           Start(tool, file, script, torn, whole, exit)
    PROVE  BenchInv'
<1>1. /\ proc' = [tool |-> tool, file |-> file, script |-> script,
                  torn |-> torn, whole |-> whole, exit |-> exit]
      /\ last' = NoReport /\ bench' = bench /\ disk' = disk /\ put' = put
    BY DEF Start
<1>2. /\ proc'.tool = tool /\ proc'.file = file /\ proc'.script = script
      /\ proc'.torn = torn /\ proc'.whole = whole /\ proc'.exit = exit
    BY <1>1
<1>3. Filed'
    BY <1>1 DEF BenchInv, Filed
<1>4. ASSUME NEW f \in Files'
      PROVE  FileHolds(f)'
    BY <1>1, FileMeans, <1>2 DEF Files, Ended, FileHolds
<1>6. Running'
    BY <1>1, <1>2 DEF Running, IsCommand, Files
<1>7. Reported'
    BY <1>1 DEF NoReport, Reported
<1> QED BY <1>3, <1>4, <1>6, <1>7 DEF BenchInv

\* and a command that writes nothing.
LEMMA ReportKeeps ==
    ASSUME BenchInv, proc = Idle, NEW tool, NEW file, NEW exit, NEW found,
           tool = "parse" /\ exit = "0" => file \in Files /\ found = Listed(disk[file]),
           Report(tool, file, exit, found)
    PROVE  BenchInv'
<1>1. /\ last' = [tool |-> tool, file |-> file, exit |-> exit, found |-> found]
      /\ bench' = bench /\ disk' = disk /\ proc' = proc /\ put' = put
    BY DEF Report
<1>2. Filed'
    BY <1>1 DEF BenchInv, Filed
<1>3. ASSUME NEW f \in Files'
      PROVE  FileHolds(f)'
    BY <1>1, FileMeans DEF Files, Ended, FileHolds
<1>4. Running'
    BY <1>1 DEF Running
<1>5. Reported'
    BY <1>1 DEF Reported, Files
<1> QED BY <1>2, <1>3, <1>4, <1>5 DEF BenchInv

\* cmd_create (fileformat.c:346-389).
LEMMA CreateKeeps ==
    ASSUME BenchInv, NEW file \in Files, Create(file)
    PROVE  BenchInv'
<1> DEFINE script == Into(file, CreateWrites)
           whole == Table(Sample, TRUE)
<1>1. proc = Idle /\ Start("create", file, script, Unknown, whole, "0")
    BY DEF Create, Ready
<1>2. CreateOpens(script, file) /\ IsSequence(script) /\ script # <<>>
  <2>1. PICK goal, head, rest :
            /\ IsSequence(rest) /\ Creates(rest, file, goal, head)
            /\ script = <<OpenEntry(file)>> \o (<<PlaceholderEntry(file)>> \o rest)
      BY CreateStarts
  <2> HIDE DEF script
  <2> QED BY <2>1, ConsTail DEF CreateOpens
<1> HIDE DEF script, whole
<1> QED BY <1>1, <1>2, StartKeeps DEF Pending, CreateRuns, whole

\* cmd_add (fileformat.c:492-537).
LEMMA AddKeeps ==
    ASSUME BenchInv, NEW file \in Files, NEW rec \in bench.recs, Add(file, rec)
    PROVE  BenchInv'
<1>1. proc = Idle
    BY DEF Add, Ready
<1>2. CASE ~IsTable(disk[file])
    BY <1>2, <1>1, ReportKeeps DEF Add
<1>3. CASE IsTable(disk[file])
  <2> DEFINE old == put[file]
             recs == old.recs
             script == Into(file, AddWrites(disk[file], rec))
             torn == Table(recs, FALSE)
             whole == Table(Append(recs, rec), old.sound)
  <2>1. Start("add", file, script, torn, whole, "0")
      BY <1>3 DEF Add
  <2>2. TableHolds(disk[file], recs, old.sound)
      BY <1>1, FileMeans, <1>3 DEF Means, Looks
  <2>3. IsRecord(rec)
      BY BenchAssumption DEF BenchInv, Filed
  <2>4. PICK goal, head :
            /\ Lays(disk[file], script, file, goal, head) /\ Len(goal) >= 1
            /\ Place(script, goal, 1) = Behind(recs)
            /\ TableHolds([goal EXCEPT ![1] = head], Append(recs, rec), old.sound)
      BY <2>2, <2>3, AddStarts
  <2>6. Place(script, goal, 1) >= Behind(recs)
      BY <2>2, RecordsCount, BehindIs, <2>4 DEF TableHolds
  <2>7. /\ torn.kind = "table" /\ torn.recs = recs /\ ~torn.sound
        /\ whole.kind = "table" /\ whole.recs = Append(recs, rec) /\ whole.sound = old.sound
      BY DEF Table
  <2>8. TableHolds(disk[file], recs, FALSE)
      BY <2>2 DEF TableHolds
  <2> HIDE DEF script, torn, whole, recs
  <2>9. AddRuns(disk[file], script, file, torn, whole)
      BY <2>7, <2>4, <2>6, <2>8 DEF AddRuns
  <2>10. Pending("add", disk, script, file, torn, whole)
      BY <2>9 DEF Pending
  <2> QED BY <1>1, <2>1, <2>10, StartKeeps, <2>4, LaysScript
<1> QED BY <1>2, <1>3

\* cmd_parse (fileformat.c:395-486).
LEMMA ParseKeeps ==
    ASSUME BenchInv, NEW file \in Files, Parse(file)
    PROVE  BenchInv'
<1>1. proc = Idle
    BY DEF Parse, Ready
<1>2. PICK outcome \in ParseOutcomes(disk[file]) : Report("parse", file, outcome.exit, outcome.list)
    BY DEF Parse
<1>3. outcome.exit = "0" => outcome.list = Listed(disk[file])
  <2>1. CASE ~IsTable(disk[file])
      BY <1>2, <2>1 DEF ParseOutcomes
  <2>2. CASE IsTable(disk[file])
    <3> DEFINE list == Listed(disk[file])
    <3> HIDE DEF list
    <3>2. CASE outcome = [exit |-> "0", list |-> list]
        BY <3>2 DEF list
    <3>3. CASE \E n : outcome = [exit |-> "killed", list |-> SubSeq(list, 1, n)]
        BY <3>3
    <3> QED BY <3>2, <3>3, <1>2, <2>2 DEF ParseOutcomes
  <2> QED BY <2>1, <2>2
<1> QED BY <1>1, <1>2, <1>3, ReportKeeps

\* A command that writes one file from its beginning to its end.
LEMMA StreamKeeps ==
    ASSUME BenchInv, proc = Idle, NEW tool, tool \notin {"none", "parse", "generate", "add"},
           NEW file \in Files, NEW all, IsSequence(all), NEW torn, NEW whole, NEW exit,
           \A s : Begins(s, all) => Means(s, torn), Means(all, whole),
           Start(tool, file, Into(file, WriteAll(all)), torn, whole, exit)
    PROVE  BenchInv'
<1> DEFINE script == Into(file, WriteAll(all))
<1>1. Streams(disk[file], script, file, all) /\ script # <<>>
    BY StreamStarts
<1> HIDE DEF script
<1>5. Start(tool, file, script, torn, whole, exit)
    BY DEF script
<1> QED BY <1>1, <1>5, StartKeeps DEF Streams, Pending, StreamRuns

\* The values of a plain file are bytes.
LEMMA PlainValues ==
    ASSUME BenchInv, proc = Idle, NEW file \in Files, IsPlain(disk[file])
    PROVE  ValuesOf(disk[file]) \in Seq(Bytes)
BY FileMeans, ValuesAre DEF Means

\* The key of a password that is not empty is one of those that have round keys.
LEMMA KeyDerived ==
    ASSUME BenchInv, NEW password \in bench.passwords, Derivable(password)
    PROVE  KeyOf(password) \in DOMAIN HashOf
BY BenchAssumption, KeyAssumption DEF BenchInv, Filed, Derivable, KeyOf

\* process_encrypt (ch14-crypto/crypto.c:395-450).
LEMMA EncryptKeeps ==
    ASSUME BenchInv, NEW in \in Files, NEW out \in Files, NEW password \in bench.passwords,
           NEW time \in bench.times, NEW unset \in bench.junk,
           Encrypt(in, out, password, time, unset)
    PROVE  BenchInv'
<1> DEFINE plain == IF in = out THEN <<>> ELSE ValuesOf(disk[in])
           key == KeyOf(password)
           iv == Iv(time, unset)
           all == Encrypted(plain, key, iv)
           torn == Cryp(plain, key, FALSE)
           whole == Cryp(plain, key, TRUE)
<1>1. proc = Idle /\ (disk[in] = NoFile \/ IsPlain(disk[in]))
    BY DEF Encrypt, Ready
<1>3. CASE Report("encrypt", out, "killed", <<>>) \/ Report("encrypt", out, "1", <<>>)
    BY <1>1, <1>3, ReportKeeps
<1>4. CASE /\ Derivable(password) /\ disk[in] # NoFile
           /\ Start("encrypt", out, Into(out, WriteAll(all)), torn, whole, "0")
  <2>2. plain \in Seq(Bytes)
      BY <1>1, <1>4, PlainValues
  <2>3. key \in DOMAIN HashOf
      BY <1>4, KeyDerived
  <2>4. iv \in Block
      BY BenchAssumption, IvIs DEF BenchInv, Filed
  <2> HIDE DEF plain, key, iv
  <2>5. ASSUME NEW s, Begins(s, all)
        PROVE  Means(s, torn)
    <3> HIDE DEF all
    <3> QED BY <2>2, <2>3, <2>4, CrypMeans, <2>5 DEF all
  <2>6. IsSequence(all)
    <3>1. PICK ct : Sealed(all, ct, plain, iv)
        BY <2>2, <2>3, <2>4, EncryptedIs
    <3> HIDE DEF all
    <3> QED BY <3>1 DEF Sealed
  <2>7. Means(all, whole)
      BY <2>6, BeginsItself, <2>2, <2>3, <2>4, CrypMeans
  <2> HIDE DEF all, torn, whole
  <2> QED BY <1>1, <1>4, <2>5, <2>6, <2>7, StreamKeeps
<1> QED BY <1>3, <1>4 DEF Encrypt

\* main and write_encrypted_file (ch24-crypto/crypto.c:216-252).
LEMMA Encrypt24Keeps ==
    ASSUME BenchInv, NEW in \in Files, NEW iv, Encrypt24(in, iv)
    PROVE  BenchInv'
<1> DEFINE out == in \o ".enc"
           plain == ValuesOf(disk[in])
           all == Crypt24Cells(plain, iv)
           torn == Crypt24(plain, FALSE)
           whole == Crypt24(plain, TRUE)
<1>1. proc = Idle /\ out \in Files /\ (disk[in] = NoFile \/ IsPlain(disk[in]))
    BY DEF Encrypt24, Ready
<1>2. \/ Report("encrypt24", out, "1", <<>>)
      \/ /\ disk[in] # NoFile
         /\ Start("encrypt24", out, Into(out, WriteAll(all)), torn, whole, "0")
    BY DEF Encrypt24
<1> HIDE DEF out
<1>3. CASE Report("encrypt24", out, "1", <<>>)
    BY <1>1, <1>3, ReportKeeps
<1>4. CASE /\ disk[in] # NoFile
           /\ Start("encrypt24", out, Into(out, WriteAll(all)), torn, whole, "0")
  <2>1. plain \in Seq(Bytes)
      BY <1>1, <1>4, PlainValues
  <2> HIDE DEF plain
  <2>2. ASSUME NEW s, Begins(s, all)
        PROVE  Means(s, torn)
      BY <2>1, <2>2, Crypt24Means
  <2>3. IsSequence(all)
    <3>2. Is24(all, CbcEncrypt(plain, CKey, iv), plain, iv)
        BY Crypt24Is, <2>1, SequenceOf
    <3> HIDE DEF all
    <3> QED BY <3>2 DEF Is24
  <2>4. Means(all, whole)
      BY <2>3, BeginsItself, <2>1, Crypt24Means
  <2> HIDE DEF all, torn, whole
  <2> QED BY <1>1, <1>4, <2>2, <2>3, <2>4, StreamKeeps
<1> QED BY <1>2, <1>3, <1>4

\* generate_cdb and generate_pkt (ch06-fileformat/fileformat.c:107-191, 335-525).
LEMMA GenerateKeeps ==
    ASSUME BenchInv, NEW crc, Generate(crc)
    PROVE  BenchInv'
<1> DEFINE script == SampleScript(crc)
<1>1. proc = Idle /\ Start("generate", "sample.pkt", script, Unknown, Unknown, "0")
    BY DEF Generate, Ready, SampleScript
<1>2. {"sample.cdb", "sample.pkt"} \subseteq DOMAIN disk
    BY BenchAssumption DEF BenchInv, Filed, Generate, Ready
<1>3. Sampling(disk["sample.cdb"], disk["sample.pkt"], script) /\ script # <<>>
    BY SampleStarts
<1> HIDE DEF script
<1>5. Pending("generate", disk, script, "sample.pkt", Unknown, Unknown)
    BY <1>2, <1>3 DEF Pending, SamplesRun
<1> QED BY <1>1, <1>3, <1>5, StartKeeps, <1>2 DEF Sampling, Files

\* The parser of chapter 15 and its harness write nothing.
LEMMA SectionsKeep ==
    ASSUME BenchInv, NEW file \in Files, ParseFile(file) \/ FuzzFile(file)
    PROVE  BenchInv'
BY ReportKeeps DEF ParseFile, FuzzFile, Ready

\* What the cipher opens: bytes, and with the right key a beginning of the file
\* that was encrypted, or all of it.
Recovers(of, key, bytes, whole) ==
    /\ of.kind = "cryp" /\ of.plain \in Seq(Bytes) /\ bytes \in Seq(Bytes)
    /\ key = of.key =>
          Begins(bytes, of.plain) /\ (of.whole /\ whole => Len(bytes) = Len(of.plain))

\* What the cipher reads is a beginning of the container, and not empty.
LEMMA FetchedIs ==
    ASSUME NEW in \in Files, NEW out, IsSequence(disk[in]), disk[in] # <<>>
    PROVE  /\ Begins(Fetched(in, out), disk[in]) /\ Fetched(in, out) # <<>>
           /\ Len(Fetched(in, out)) \in Nat
<1> DEFINE all == disk[in]
           cells == Fetched(in, out)
           S == {Len(all), READ_AHEAD}
<1>1. Len(all) \in Nat /\ Len(all) > 0
    BY EmptySequence DEF IsSequence
<1>2. CASE in # out
    BY <1>1, <1>2, BeginsItself DEF Fetched
<1>3. CASE in = out
  <2>1. Min(S) \in Nat /\ Min(S) > 0 /\ Min(S) <= Len(all)
    <3>1. S \in SUBSET Nat
        BY <1>1, ReadAheadAssumption
    <3>2. CASE Len(all) <= READ_AHEAD
        BY <1>1, <3>1, <3>2, LeastIs, ReadAheadAssumption
    <3>3. CASE ~(Len(all) <= READ_AHEAD)
        BY <1>1, <3>1, <3>3, LeastIs, ReadAheadAssumption
    <3> QED BY <3>2, <3>3
  <2>2. PICK k \in Nat : k = Min(S) /\ k > 0 /\ k <= Len(all)
      BY <2>1
  <2>3. cells = SubSeq(all, 1, k)
      BY <1>3, <2>2 DEF Fetched
  <2>4. IsSequence(cells) /\ Len(cells) = k /\ \A i \in 1..k : cells[i] = all[i]
    <3>1. IsSequence(all)
        OBVIOUS
    <3> HIDE DEF cells, all
    <3> QED BY <2>2, <2>3, <3>1, Beginning
  <2> HIDE DEF cells
  <2>5. cells # <<>>
    <3>1. Len(cells) # 0 /\ Len(<<>>) = 0
        BY <2>2, <2>4
    <3> QED BY <3>1, Zenon
  <2> QED BY <2>2, <2>4, <2>5 DEF Begins, cells
<1> QED BY <1>2, <1>3

LEMMA CrypOpened ==
    ASSUME BenchInv, proc = Idle, NEW in \in Files, NEW out, NEW key \in DOMAIN HashOf,
           IsCryp(disk[in])
    PROVE  Recovers(put[in], key, Decrypted(Fetched(in, out), key), Fetched(in, out) = disk[in])
<1> DEFINE file == disk[in]
           cells == Fetched(in, out)
           of == put[in]
           orig == of.plain
           bytes == Decrypted(cells, key)
<1>1. of.kind = "cryp" /\ CrypHolds(file, of) /\ file # <<>>
    BY FileMeans DEF Means, Looks, IsCryp
<1>2. PICK iv \in Block :
          /\ Begins(file, Encrypted(of.plain, of.key, iv))
          /\ of.whole => Len(file) = Len(Encrypted(of.plain, of.key, iv))
    BY <1>1 DEF CrypHolds
<1>3. of.plain \in Seq(Bytes) /\ of.key \in DOMAIN HashOf
    BY <1>1 DEF CrypHolds
<1>4. Begins(cells, Encrypted(of.plain, of.key, iv)) /\ cells # <<>>
  <2>1. Begins(cells, file) /\ cells # <<>>
      BY <1>1, <1>2, FetchedIs DEF Begins
  <2> HIDE DEF cells, file
  <2> QED BY <1>2, <2>1, BeginsInTurn
<1>5. /\ bytes \in Seq(Bytes)
      /\ key = of.key =>
            \E m \in Nat : /\ m <= Len(orig) /\ bytes = SubSeq(orig, 1, m)
                           /\ Len(cells) = Len(Encrypted(orig, of.key, iv)) => m = Len(orig)
  <2> HIDE DEF cells
  <2> QED BY <1>3, <1>4, DecryptedIs
<1>6. key = of.key => Begins(bytes, orig) /\ (of.whole /\ cells = file => Len(bytes) = Len(orig))
  <2> SUFFICES ASSUME key = of.key
               PROVE  Begins(bytes, orig) /\ (of.whole /\ cells = file => Len(bytes) = Len(orig))
      OBVIOUS
  <2> HIDE DEF bytes, cells
  <2>1. PICK m \in Nat : /\ m <= Len(orig) /\ bytes = SubSeq(orig, 1, m)
                         /\ Len(cells) = Len(Encrypted(orig, of.key, iv)) => m = Len(orig)
      BY <1>5
  <2>2. IsSequence(orig)
      BY <1>3, SequenceOf
  <2> HIDE DEF orig, file
  <2> QED BY <1>2, <2>1, <2>2, BeginsWithSlice, Beginning DEF orig
<1> HIDE DEF bytes, cells, file
<1> QED BY <1>1, <1>3, <1>5, <1>6 DEF Recovers, bytes, cells, file

\* process_decrypt (ch14-crypto/crypto.c:452-507).
LEMMA DecryptKeeps ==
    ASSUME BenchInv, NEW in \in Files, NEW out \in Files, NEW password \in bench.passwords,
           Decrypt(in, out, password)
    PROVE  BenchInv'
<1> DEFINE cells == Fetched(in, out)
           of == put[in]
           key == KeyOf(password)
           bytes == Decrypted(cells, key)
           all == ByteCells(bytes)
           torn == Opened(of, key, "0", FALSE)
           whole == Opened(of, key, "0", cells = disk[in])
<1>1. proc = Idle
    BY DEF Decrypt, Ready
<1>3. CASE Report("decrypt", out, "killed", <<>>) \/ Report("decrypt", out, "1", <<>>)
    BY <1>1, <1>3, ReportKeeps
<1>4. CASE /\ Derivable(password) /\ IsCryp(disk[in])
           /\ Start("decrypt", out, Into(out, WriteAll(all)), torn, whole, "0")
  <2> DEFINE orig == of.plain
  <2>1. key \in DOMAIN HashOf
      BY <1>4, KeyDerived
  <2>2. Recovers(of, key, bytes, cells = disk[in])
    <3> HIDE DEF key
    <3> QED BY <1>1, <1>4, <2>1, CrypOpened
  <2>3. /\ torn.kind = "opened" /\ torn.of = of /\ torn.key = key /\ torn.whole = FALSE
        /\ whole.kind = "opened" /\ whole.of = of /\ whole.key = key
        /\ whole.whole = (cells = disk[in])
      BY DEF Opened
  <2> HIDE DEF key, bytes, torn, whole
  <2>4. /\ of.kind = "cryp" /\ orig \in Seq(Bytes) /\ bytes \in Seq(Bytes)
        /\ key = of.key =>
              Begins(bytes, orig) /\ (of.whole /\ cells = disk[in] => Len(bytes) = Len(orig))
      BY <2>2 DEF Recovers
  <2>5. IsSequence(all) /\ Len(all) = Len(bytes)
      BY <2>4, ByteCellsAre
  <2>6. key = of.key => /\ Begins(all, ByteCells(orig))
                        /\ of.whole /\ cells = disk[in] => Len(all) = Len(orig)
    <3> HIDE DEF orig, all, cells
    <3> QED BY <2>4, <2>5, ByteCellsBegin DEF all
  <2> HIDE DEF all
  <2>7. ASSUME NEW s, Begins(s, all)
        PROVE  Means(s, torn)
    <3>2. OpenedHolds(s, torn)
        BY <2>3, <2>4, <2>6, <2>7, BeginsInTurn DEF OpenedHolds
    <3> QED BY <2>3, <2>4, <3>2, OpenedMeans, <2>7 DEF all
  <2>8. Means(all, whole)
    <3>2. Begins(all, ByteCells(bytes))
        BY <2>5, BeginsItself DEF all
    <3>3. OpenedHolds(all, whole)
      <4> HIDE DEF cells
      <4> QED BY <2>3, <2>4, <2>6 DEF OpenedHolds
    <3> QED BY <2>3, <2>4, <3>2, <3>3, OpenedMeans
  <2> QED BY <1>1, <1>4, <2>5, <2>7, <2>8, StreamKeeps
<1> QED BY <1>3, <1>4 DEF Decrypt

\* A beginning of bytes is bytes.
LEMMA BeginningIn ==
    ASSUME NEW bytes \in Seq(Bytes), NEW some, Begins(some, bytes)
    PROVE  some \in Seq(Bytes)
BY IndexSet DEF Begins, IsSequence

\* What the script opens.
PyRecovers(of, result) ==
    /\ of.kind = "crypt24" /\ of.plain \in Seq(Bytes)
    /\ Begins(result.plain, of.plain) /\ (result.exit = "0" => result.plain = of.plain)
    /\ of.whole => result.exit = "0"

LEMMA Crypt24Opened ==
    ASSUME BenchInv, proc = Idle, NEW in \in Files, PyDecrypt(disk[in]).opened
    PROVE  PyRecovers(put[in], PyDecrypt(disk[in]))
<1> DEFINE cells == disk[in]
           of == put[in]
           orig == of.plain
           result == PyDecrypt(cells)
<1>1. Means(cells, of)
    BY FileMeans
<1>2. IsSequence(cells)
    BY <1>1 DEF Means, Looks
<1>3. cells # <<>> /\ cells[1].kind = "CRYPT24"
  <2> HIDE DEF cells
  <2> QED BY EmptySequence, <1>2, OpenedLong DEF cells
<1>4. of.kind = "crypt24" /\ Crypt24Holds(cells, of)
    BY <1>1, <1>3 DEF Means, Looks
<1>5. PICK iv : /\ Begins(cells, Crypt24Cells(of.plain, iv))
                /\ of.whole => Len(cells) = Len(Crypt24Cells(of.plain, iv))
    BY <1>4 DEF Crypt24Holds
<1>6. orig \in Seq(Bytes) /\ IsSequence(orig)
    BY <1>4, SequenceOf DEF Crypt24Holds
<1>7. result.opened
    OBVIOUS
<1>8. /\ Begins(result.plain, orig) /\ (result.exit = "0" => result.plain = orig)
      /\ Len(cells) = Len(Crypt24Cells(orig, iv)) => result.exit = "0"
  <2> HIDE DEF cells
  <2> QED BY <1>5, <1>6, <1>7, PyDecryptIs
<1> HIDE DEF result
<1> QED BY <1>4, <1>5, <1>6, <1>8 DEF result, PyRecovers

\* main of the script (ch24-checkpoint-decrypt.py:254-358).
LEMMA Decrypt24Keeps ==
    ASSUME BenchInv, NEW in \in Files, NEW out \in Files, Decrypt24(in, out)
    PROVE  BenchInv'
<1> DEFINE cells == disk[in]
           of == put[in]
           result == PyDecrypt(cells)
           bytes == result.plain
           all == ByteCells(bytes)
           torn == Opened(of, PyKey, "torn", FALSE)
           whole == Opened(of, PyKey, result.exit, TRUE)
<1>1. proc = Idle
    BY DEF Decrypt24, Ready
<1>3. CASE Report("decrypt24", out, result.exit, <<>>)
  <2> HIDE DEF result
  <2> QED BY <1>1, <1>3, ReportKeeps
<1>4. CASE /\ result.opened
           /\ Start("decrypt24", out, Into(out, WriteAll(all)), torn, whole, result.exit)
  <2> DEFINE orig == of.plain
  <2>1. PyRecovers(of, result)
      BY <1>1, <1>4, Crypt24Opened
  <2> HIDE DEF result
  <2>2. /\ of.kind = "crypt24" /\ orig \in Seq(Bytes)
        /\ Begins(bytes, orig) /\ (result.exit = "0" => bytes = orig)
        /\ of.whole => result.exit = "0"
      BY <2>1 DEF PyRecovers
  <2>3. /\ torn.kind = "opened" /\ torn.of = of /\ torn.whole = FALSE
        /\ whole.kind = "opened" /\ whole.of = of /\ whole.exit = result.exit /\ whole.whole = TRUE
      BY DEF Opened
  <2>4. bytes \in Seq(Bytes)
      BY <2>2, BeginningIn
  <2> HIDE DEF bytes, torn, whole
  <2>5. IsSequence(all)
      BY <2>4, ByteCellsAre
  <2>6. ASSUME NEW s, Begins(s, all)
        PROVE  Means(s, torn)
      BY <2>2, <2>3, <2>4, <2>6, OpenedMeans DEF OpenedHolds
  <2>7. Means(all, whole)
    <3>1. whole.exit = "0" => all = ByteCells(orig)
        BY <2>2, <2>3
    <3> HIDE DEF all, orig
    <3>3. OpenedHolds(all, whole)
        BY <2>2, <2>3, <3>1 DEF OpenedHolds, orig
    <3> QED BY <2>3, <2>4, <3>3, OpenedMeans, <2>5, BeginsItself DEF all
  <2> HIDE DEF all
  <2> QED BY <1>1, <1>4, <2>5, <2>6, <2>7, StreamKeeps
<1> QED BY <1>3, <1>4 DEF Decrypt24

\* Every step keeps it.
LEMMA NextKeeps ==
    ASSUME BenchInv, [Next]_vars
    PROVE  BenchInv'
<1>1. CASE WriteNext
    BY <1>1, WriteNextKeeps
<1>2. CASE Finish
    BY <1>2, FinishKeeps
<1>3. CASE Die
    BY <1>3, DieKeeps
<1>4. ASSUME NEW file \in Files, Create(file) \/ Parse(file) \/ ParseFile(file) \/ FuzzFile(file)
      PROVE  BenchInv'
    BY <1>4, CreateKeeps, ParseKeeps, SectionsKeep
<1>5. ASSUME NEW file \in Files, NEW rec \in bench.recs, Add(file, rec)
      PROVE  BenchInv'
    BY <1>5, AddKeeps
<1>6. ASSUME NEW in \in Files, NEW out \in Files, NEW p \in bench.passwords,
             NEW t \in bench.times, NEW unset \in bench.junk, Encrypt(in, out, p, t, unset)
      PROVE  BenchInv'
    BY <1>6, EncryptKeeps
<1>7. ASSUME NEW in \in Files, NEW out \in Files, NEW p \in bench.passwords, Decrypt(in, out, p)
      PROVE  BenchInv'
    BY <1>7, DecryptKeeps
<1>8. ASSUME NEW in \in Files, NEW iv \in bench.times, Encrypt24(in, iv)
      PROVE  BenchInv'
    BY <1>8, Encrypt24Keeps
<1>9. ASSUME NEW in \in Files, NEW out \in Files, Decrypt24(in, out)
      PROVE  BenchInv'
    BY <1>9, Decrypt24Keeps
<1>10. ASSUME NEW crc \in bench.junk, Generate(crc)
       PROVE  BenchInv'
    BY <1>10, GenerateKeeps
<1>11. CASE UNCHANGED vars
    BY <1>11 DEF vars, BenchInv, Filed, Files, FileHolds, Ended, Running, IsCommand, Reported
<1> QED BY <1>1, <1>2, <1>3, <1>4, <1>5, <1>6, <1>7, <1>8, <1>9, <1>10, <1>11 DEF Next

(***************************************************************************)
(* Every file is what its last writer was given, or a beginning of it,     *)
(* also while a command runs and when it dies between two of its writes:   *)
(* inductive over every command of the four tools                          *)
(* (ch14-fileformat/fileformat.c:346-537, ch14-crypto/crypto.c:395-507,    *)
(* ch24-crypto/crypto.c:216-252, ch24-checkpoint-decrypt.py:254-358,       *)
(* ch06-fileformat/fileformat.c:107-525).                                  *)
(***************************************************************************)
THEOREM InvariantHolds == Spec => []BenchInv
BY InitHolds, NextKeeps, PTL DEF Spec

(***************************************************************************)
(* What was written comes back: the records of a table and its index, and  *)
(* the file in a container of the cipher, or a beginning of it             *)
(* (ch14-fileformat/fileformat.c:346-537; ch14-crypto/crypto.c:395-507).   *)
(***************************************************************************)
THEOREM ComesBack == Spec => []ReadsBack
<1>1. BenchInv => ReadsBack
  <2> SUFFICES ASSUME BenchInv PROVE ReadsBack
      OBVIOUS
  <2>1. ASSUME last.tool = "parse", last.exit = "0", put[last.file].kind = "table"
        PROVE  ShownIn(last.found) = Shown(put[last.file].recs)
    <3>1. proc = Idle /\ last.file \in Files /\ last.found = Listed(disk[last.file])
        BY <2>1 DEF BenchInv, Reported
    <3> DEFINE p == put[last.file]
               cells == disk[last.file]
    <3>3. TableHolds(cells, p.recs, p.sound)
        BY <2>1, <3>1, FileMeans DEF Means
    <3>4. last.found = Listing(p.recs, Visible(p.recs, Counted(p.recs)))
        BY <3>1, <3>3, TableListed
    <3> HIDE DEF p, cells
    <3> QED BY <3>4, ListingShows, <3>3 DEF p, TableHolds
  <2>2. ASSUME NEW f \in Files
        PROVE  Safe(disk[f], put[f])
      BY MeansSafe DEF BenchInv, FileHolds
  <2>3. ASSUME NEW f \in Files, put[f].kind = "opened", put[f].of.kind = "cryp",
               put[f].key = put[f].of.key
        PROVE  /\ IsPrefix(disk[f], ByteCells(put[f].of.plain))
               /\ put[f].whole /\ put[f].of.whole => Len(disk[f]) = Len(put[f].of.plain)
      BY <2>2, <2>3, BeginningIsPrefix DEF Safe, OpenedHolds
  <2>4. ASSUME NEW f \in Files, put[f].kind = "table", put[f].sound
        PROVE  IndexIsTrue(disk[f], put[f].recs)
      BY <2>2, <2>4 DEF Safe
  <2> QED BY <2>1, <2>3, <2>4 DEF ReadsBack
<1> QED BY <1>1, InvariantHolds, PTL

(***************************************************************************)
(* When the script exits with 0 its output is the file that was encrypted, *)
(* and it does so for every whole CRYPT24 file                             *)
(* (ch24-crypto/crypto.c:161-252; ch24-checkpoint-decrypt.py:108-358).     *)
(***************************************************************************)
THEOREM SuccessTells == Spec => []SuccessIsOriginal
<1>1. BenchInv => SuccessIsOriginal
  <2> SUFFICES ASSUME BenchInv, NEW f \in Files, put[f].kind = "opened",
                      put[f].of.kind = "crypt24", put[f].whole
               PROVE  /\ put[f].exit = "0" => disk[f] = ByteCells(put[f].of.plain)
                      /\ put[f].of.whole => put[f].exit = "0"
      BY DEF SuccessIsOriginal
  <2> QED BY MeansSafe DEF OpenedHolds, Safe, BenchInv, FileHolds
<1> QED BY <1>1, InvariantHolds, PTL

\* What a table lists is a sequence.
LEMMA ListedIs ==
    ASSUME NEW cells, NEW p, Means(cells, p)
    PROVE  IsSequence(Listed(cells))
<1>1. CASE ~IsTable(cells)
    BY <1>1, EmptySequence DEF Listed
<1>2. CASE IsTable(cells)
  <2>1. TableHolds(cells, p.recs, p.sound)
      BY <1>2 DEF Means, Looks
  <2>4. Visible(p.recs, Counted(p.recs)) \in Nat
      BY VisibleIs, <2>1, RecordsCount, CountedIs DEF TableHolds
  <2> QED BY <2>4, ListingIs, <2>1, TableListed
<1> QED BY <1>1, <1>2

(***************************************************************************)
(* No write of an addition takes a record away from what the table lists   *)
(* (ch14-fileformat/fileformat.c:492-537).                                 *)
(***************************************************************************)
THEOREM AdditionsOnlyGrow == Spec => TableOnlyGrows
<1> DEFINE Grows == proc.tool = "add" => \A f \in Files : IsPrefix(Listed(disk[f]), Listed(disk'[f]))
<1>1. BenchInv /\ BenchInv' /\ [Next]_vars => [Grows]_vars
  <2> SUFFICES ASSUME BenchInv, BenchInv', Next, proc.tool = "add", NEW f \in Files
               PROVE  IsPrefix(Listed(disk[f]), Listed(disk'[f]))
      BY DEF vars
  <2>1. proc # Idle
      BY DEF Idle
  <2>2. \/ WriteNext
        \/ disk' = disk
      BY <2>1 DEF Next, Finish, Die, Create, Parse, ParseFile, FuzzFile, Add, Encrypt, Decrypt,
                  Encrypt24, Decrypt24, Generate, Ready
  <2>3. IsPrefix(Listed(disk[f]), Listed(disk[f]))
      BY ListedIs, BeginsItself, BeginningIsPrefix DEF BenchInv, FileHolds
  <2>4. CASE WriteNext
      BY <2>4, WriteNextHolds, BeginningIsPrefix, <2>3 DEF WriteHolds, Advances, Files
  <2> QED BY <2>2, <2>3, <2>4
<1> QED BY <1>1, InvariantHolds, PTL DEF Spec, TableOnlyGrows

-----------------------------------------------------------------------------
(***************************************************************************)
(* What the other programs write is neither the footer of sample.cdb nor   *)
(* the header of sample.pkt, so a file that has one of them is the         *)
(* generator's.                                                            *)
(***************************************************************************)
\* Neither the footer of one sample nor the beginning of the other.
IsClean(c) == c.kind \notin {"cdb footer", "pkt"}
Clean(cells) == IsSequence(cells) /\ \A i \in 1..Len(cells) : IsClean(cells[i])

\* Parts of them, and what is made of parts.
LEMMA CleanEmpty == Clean(<<>>)
BY EmptySequence DEF Clean

LEMMA CleanSingle ==
    ASSUME NEW c, IsClean(c)
    PROVE  Clean(<<c>>)
BY SingleSequence DEF Clean

LEMMA CleanBegins ==
    ASSUME NEW s, NEW t, Begins(s, t), Clean(t)
    PROVE  Clean(s)
<1>1. IsSequence(s) /\ Len(s) \in Nat /\ Len(s) <= Len(t) /\ \A i \in 1..Len(s) : s[i] = t[i]
    BY IndexSet DEF Begins
<1>3. ASSUME NEW i \in 1..Len(s)
      PROVE  IsClean(s[i])
    BY <1>1, IndexSet DEF Clean
<1> QED BY <1>1, <1>3 DEF Clean

LEMMA CleanJoin ==
    ASSUME NEW s, NEW t, Clean(s), Clean(t)
    PROVE  Clean(s \o t)
<1> DEFINE u == s \o t
<1>1. IsSequence(s) /\ IsSequence(t)
    BY DEF Clean
<1>2. Join(u, s, t)
    BY <1>1, Joined
<1> HIDE DEF u
<1>3. PICK n \in Nat, m \in Nat : n = Len(s) /\ m = Len(t)
    BY <1>1 DEF IsSequence
<1>4. /\ IsSequence(u) /\ Len(u) = n + m
      /\ (\A i \in 1..n : u[i] = s[i]) /\ \A i \in 1..m : u[n + i] = t[i]
    BY <1>2, <1>3 DEF Join
<1>5. (\A i \in 1..n : IsClean(s[i])) /\ \A i \in 1..m : IsClean(t[i])
    BY <1>3 DEF Clean
<1>6. ASSUME NEW i \in 1..n + m
      PROVE  IsClean(u[i])
  <2>1. CASE i \in 1..n
      BY <1>4, <1>5, <2>1
  <2>2. CASE i \notin 1..n
    <3>1. PICK j \in 1..m : i = n + j
      <4>1. i - n \in 1..m /\ i = n + (i - n)
          BY <2>2
      <4> QED BY <4>1
    <3> QED BY <1>4, <1>5, <3>1
  <2> QED BY <2>1, <2>2
<1>7. Clean(u)
    BY <1>4, <1>6 DEF Clean
<1> QED BY <1>7 DEF u

\* A write of other cells into other cells leaves other cells.
LEMMA CleanPuts ==
    ASSUME NEW cells, NEW at \in Nat, NEW c, Clean(cells), Clean(c), at <= Len(cells)
    PROVE  Clean(Written(cells, WriteAt(at, c)))
<1> DEFINE d == Written(cells, WriteAt(at, c))
<1>1. IsSequence(cells) /\ IsSequence(c)
    BY DEF Clean
<1>2. Puts(d, cells, at, c)
    BY <1>1, WrittenAt
<1> HIDE DEF d
<1>3. PICK l \in Nat, p \in Nat : l = Len(cells) /\ p = Len(c)
    BY <1>1 DEF IsSequence
<1>4. (\A i \in 1..l : IsClean(cells[i])) /\ \A i \in 1..p : IsClean(c[i])
    BY <1>3 DEF Clean
<1>5. /\ IsSequence(d) /\ (at + p <= l => Len(d) = l) /\ (at + p > l => Len(d) = at + p)
      /\ (\A i \in 1..at : d[i] = cells[i]) /\ (\A i \in 1..p : d[at + i] = c[i])
      /\ \A i \in at + p + 1..l : d[i] = cells[i]
    BY <1>2, <1>3 DEF Puts
<1>6. ASSUME NEW i \in 1..Len(d)
      PROVE  IsClean(d[i])
  <2>1. CASE i <= at
      BY <1>3, <1>5, <2>1, <1>4
  <2>2. CASE i > at /\ i <= at + p
    <3>1. PICK j \in 1..p : i = at + j
      <4>1. i - at \in 1..p /\ i = at + (i - at)
          BY <1>5, <2>2
      <4> QED BY <4>1
    <3> QED BY <1>4, <1>5, <3>1
  <2>3. CASE i > at + p
      BY <1>5, <2>3, <1>4
  <2> QED BY <1>5, <2>1, <2>2, <2>3
<1>7. Clean(d)
    BY <1>5, <1>6 DEF Clean
<1> QED BY <1>7 DEF d

LEMMA CleanAppend ==
    ASSUME NEW s, NEW c, Clean(s), IsClean(c)
    PROVE  Clean(Append(s, c))
<1> DEFINE u == Append(s, c)
<1>1. PICK n \in Nat : n = Len(s)
    BY IndexSet DEF Clean
<1>2. IsSequence(u) /\ Len(u) = n + 1 /\ (\A i \in 1..n : u[i] = s[i]) /\ u[n + 1] = c
    BY <1>1, AppendedAt DEF Clean
<1> HIDE DEF u
<1>3. ASSUME NEW i \in 1..n + 1
      PROVE  IsClean(u[i])
    BY <1>2, <1>1 DEF Clean
<1>4. Clean(u)
    BY <1>2, <1>3 DEF Clean
<1> QED BY <1>4 DEF u

\* The cells of a table are neither: headers and entries,
LEMMA TableCellsClean ==
    /\ \A n, at : IsClean(Header(n, at))
    /\ IsClean(Placeholder) /\ IsClean(Unread)
    /\ \A at : IsClean(Entry(at))
BY DEF Header, Placeholder, Unread, Entry, IsClean

\* and records.
LEMMA RecordClean ==
    ASSUME NEW rec
    PROVE  Clean(RecordCells(rec))
<1> DEFINE c == RecordCell(rec)
           n == IF NameLenByte(rec) = 0 THEN <<>> ELSE <<NameCell(rec)>>
           d == IF rec.data = "" THEN <<>> ELSE <<DataCell(rec)>>
<1>1. RecordCells(rec) = <<c>> \o n \o d
    BY DEF RecordCells, RecordCell, NameCell, DataCell
<1>4. Clean(<<c>>) /\ Clean(n) /\ Clean(d)
    BY CleanSingle, CleanEmpty DEF IsClean, RecordCell, NameCell, DataCell
<1> HIDE DEF c, n, d
<1> DEFINE u == <<c>> \o n
<1>5. Clean(u)
    BY <1>4, CleanJoin
<1> HIDE DEF u
<1> QED BY <1>4, <1>5, CleanJoin, <1>1

\* Bytes,
LEMMA BytesClean ==
    ASSUME NEW bytes \in Seq(Bytes)
    PROVE  Clean(ByteCells(bytes))
<1> DEFINE b == ByteCells(bytes)
<1>1. /\ IsSequence(b) /\ Len(b) = Len(bytes)
      /\ \A i \in 1..Len(bytes) : b[i] = [kind |-> "byte", val |-> bytes[i]]
    BY ByteCellsAre
<1> HIDE DEF b
<1>2. ASSUME NEW i \in 1..Len(b)
      PROVE  IsClean(b[i])
  <2>1. b[i] = [kind |-> "byte", val |-> bytes[i]]
      BY <1>1
  <2>2. b[i].kind = "byte"
      BY <2>1
  <2> QED BY <2>2 DEF IsClean
<1>3. Clean(b)
    BY <1>1, <1>2 DEF Clean
<1> QED BY <1>3 DEF b

\* a container of the cipher,
LEMMA CrypClean ==
    ASSUME NEW plain \in Seq(Bytes), NEW key \in DOMAIN HashOf, NEW iv \in Block
    PROVE  Clean(Encrypted(plain, key, iv))
<1> DEFINE all == Encrypted(plain, key, iv)
<1>1. PICK ct : Sealed(all, ct, plain, iv)
    BY EncryptedIs
<1> HIDE DEF all
<1>2. PICK N : N = CountOf(plain)
    OBVIOUS
<1>3. /\ IsSequence(all) /\ Len(all) = N + 1 /\ all[1] = CrypHeader(Len(plain), iv)
      /\ \A n \in 1..N : all[n + 1] = BlockCell(Blocks(plain)[n].flags, ct[n])
    BY <1>1, <1>2 DEF Sealed
<1>4. N \in Nat
    BY CountIs, <1>2
<1>6. ASSUME NEW i \in 1..N + 1
      PROVE  IsClean(all[i])
  <2>1. CASE i = 1
      BY <2>1, <1>3 DEF IsClean, CrypHeader
  <2>2. CASE i # 1
    <3>1. PICK n \in 1..N : i = n + 1
        BY <1>4, <2>2
    <3>2. all[i] = BlockCell(Blocks(plain)[n].flags, ct[n])
        BY <1>3, <3>1
    <3>3. all[i].kind = "block"
        BY <3>2 DEF BlockCell
    <3> QED BY <3>3 DEF IsClean
  <2> QED BY <2>1, <2>2
<1>7. Clean(all)
    BY <1>3, <1>6 DEF Clean
<1> QED BY <1>7 DEF all

\* and one of the AES tool.
LEMMA Crypt24Clean ==
    ASSUME NEW plain, IsSequence(plain), NEW iv
    PROVE  Clean(Crypt24Cells(plain, iv))
<1> DEFINE h == Head24(plain, iv)
           ct == CbcEncrypt(plain, CKey, iv)
<1>1. Crypt24Cells(plain, iv) = h \o ct
    BY DEF Crypt24Cells, Head24
<1>2. /\ IsSequence(ct) /\ Len(ct) = Blocks24(plain) /\ Chain24(ct, plain, CKey, iv)
    BY CbcIs
<1>3. IsSequence(h) /\ Len(h) = 6
    BY DEF Head24, IsSequence
<1>4. /\ h[1].kind = "CRYPT24" /\ h[2].kind = "major" /\ h[3].kind = "minor"
      /\ h[4].kind = "iv_len" /\ h[5].kind = "iv" /\ h[6].kind = "original_size"
    BY DEF Head24, Field
<1> HIDE DEF h, ct
<1>5. Clean(h)
  <2>1. ASSUME NEW i \in 1..6
        PROVE  IsClean(h[i])
    <3>1. i = 1 \/ i = 2 \/ i = 3 \/ i = 4 \/ i = 5 \/ i = 6
        OBVIOUS
    <3> QED BY <1>4, <3>1 DEF IsClean
  <2> QED BY <1>3, <2>1 DEF Clean
<1>6. Clean(ct)
  <2>1. ASSUME NEW n \in 1..Len(ct)
        PROVE  IsClean(ct[n])
    <3>2. ct[n].kind = "aes"
        BY <1>2, <2>1 DEF AesCell, Chain24
    <3> QED BY <3>2 DEF IsClean
  <2> QED BY <1>2, <2>1 DEF Clean
<1> QED BY <1>1, <1>5, <1>6, CleanJoin

-----------------------------------------------------------------------------
(***************************************************************************)
(* Their writes.                                                           *)
(***************************************************************************)
\* A write that empties a file, or puts such cells somewhere.
CleanWrite(w) == w = Emptied \/ \E at, c : w = WriteAt(at, c) /\ Clean(c)
CleanScript(script) == \A i \in 1..Len(script) : CleanWrite(script[i].write)

\* The first write empties the file, or goes to a place of it.
GoesInside(script, cells, file) ==
    \/ script[1] = [file |-> file, write |-> Emptied]
    \/ /\ Clean(cells)
       /\ \E at, c : at \in Nat /\ at <= Len(cells) /\ PutsFirst(script, file, at, c)

\* It puts no others,
LEMMA CleanCells ==
    ASSUME NEW at, NEW c, CleanWrite(WriteAt(at, c))
    PROVE  Clean(c)
BY DEF WriteAt, Emptied, CleanWrite

\* nor does what is left of a script when a write has been made,
LEMMA CleanTail ==
    ASSUME NEW script, IsSequence(script), script # <<>>, CleanScript(script)
    PROVE  CleanScript(Tail(script))
<1>2. ASSUME NEW i \in 1..Len(Tail(script))
      PROVE  CleanWrite(Tail(script)[i].write)
    BY HeadTail DEF CleanScript
<1> QED BY <1>2 DEF CleanScript

\* also of a write of several cells.
LEMMA CleanNext ==
    ASSUME NEW cells, NEW script, NEW file, IsSequence(script), script # <<>>,
           CleanScript(script), GoesInside(script, cells, file)
    PROVE  /\ Clean(Written(cells, FirstOf(Head(script).write)))
           /\ CleanScript(NextScript(script))
<1> DEFINE d == Written(cells, FirstOf(Head(script).write))
           rest == NextScript(script)
<1>1. Len(script) \in Nat \ {0} /\ 1 \in 1..Len(script)
    BY HeadTail
<1>2. CASE script[1] = [file |-> file, write |-> Emptied]
  <2>2. rest = Tail(script) /\ FirstOf(Head(script).write) = Emptied
      BY NextIsTail, <1>2, OneCell
  <2>3. d = <<>>
      BY <2>2, WrittenEmptied
  <2> HIDE DEF d, rest
  <2> QED BY <2>2, <2>3, CleanEmpty, CleanTail DEF d, rest
<1>3. CASE /\ Clean(cells)
           /\ \E at, c : at \in Nat /\ at <= Len(cells) /\ PutsFirst(script, file, at, c)
  <2>1. PICK at, c : at \in Nat /\ at <= Len(cells) /\ PutsFirst(script, file, at, c)
      BY <1>3
  <2>2. script[1].write = WriteAt(at, c)
      BY <2>1 DEF PutsFirst
  <2>3. Clean(c)
      BY <1>1, <2>2, CleanCells DEF CleanScript
  <2>4. CASE ~Several(script[1].write)
    <3>1. rest = Tail(script) /\ FirstOf(Head(script).write) = WriteAt(at, c)
        BY <2>2, <2>4, NextIsTail
    <3> QED BY <3>1, CleanTail, <1>3, <2>1, <2>3, CleanPuts
  <2>5. CASE Several(script[1].write)
    <3>1. /\ FirstOf(Head(script).write) = WriteAt(at, <<Head(c)>>)
          /\ IsSequence(rest) /\ Len(rest) = Len(script)
          /\ rest[1] = [file |-> file, write |-> WriteAt(at + 1, Tail(c))]
          /\ \A i \in 2..Len(script) : rest[i] = script[i]
        BY <2>1, <2>5, NextIsSeveral
    <3>2. IsSequence(c) /\ c # <<>>
        BY <2>2, <2>5, <2>3, EmptySequence DEF WriteAt, Several, Clean
    <3>3. IsClean(Head(c)) /\ Clean(Tail(c))
      <4>1. /\ Len(c) \in Nat \ {0} /\ Head(c) = c[1]
            /\ IsSequence(Tail(c)) /\ Len(Tail(c)) = Len(c) - 1
            /\ \A i \in 1..Len(c) - 1 : Tail(c)[i] = c[i + 1]
          BY <3>2, HeadTail
      <4>2. \A i \in 1..Len(c) : IsClean(c[i])
          BY <2>3 DEF Clean
      <4>3. ASSUME NEW i \in 1..Len(Tail(c))
            PROVE  IsClean(Tail(c)[i])
          BY <4>1, <4>2
      <4> QED BY <4>1, <4>3, <4>2 DEF Clean
    <3>4. Clean(d)
        BY <3>3, CleanSingle, <1>3, <2>1, <3>1, CleanPuts
    <3> HIDE DEF d, rest
    <3>5. ASSUME NEW i \in 1..Len(rest)
          PROVE  CleanWrite(rest[i].write)
        BY <3>1, <3>3, <1>1 DEF CleanWrite, CleanScript
    <3> QED BY <3>4, <3>5 DEF d, rest, CleanScript
  <2> QED BY <2>4, <2>5
<1> QED BY <1>2, <1>3 DEF GoesInside

\* The writes of a table, before they become a script.
CleanWrites(writes) == IsSequence(writes) /\ \A i \in 1..Len(writes) : CleanWrite(writes[i])

\* What a writer of a table has done so far, and its index.
CleanSoFar(w) == CleanWrites(w.writes) /\ Clean(w.index)

\* A script of them.
LEMMA CleanInto ==
    ASSUME NEW file, NEW writes, CleanWrites(writes)
    PROVE  CleanScript(Into(file, writes))
<1> DEFINE s == Into(file, writes)
<1>1. /\ IsSequence(s) /\ Len(s) = Len(writes)
      /\ \A i \in 1..Len(writes) : s[i] = [file |-> file, write |-> writes[i]]
    BY IntoIs DEF CleanWrites
<1> HIDE DEF s
<1>2. ASSUME NEW i \in 1..Len(s)
      PROVE  CleanWrite(s[i].write)
  <2>1. i \in 1..Len(writes)
      BY <1>1
  <2>3. s[i].write = writes[i]
    <3>1. s[i] = [file |-> file, write |-> writes[i]]
        BY <1>1, <2>1
    <3> QED BY <3>1
  <2> QED BY <2>3, <2>1 DEF CleanWrites
<1>3. CleanScript(s)
    BY <1>2 DEF CleanScript
<1> QED BY <1>3 DEF s

\* The index and the header of a table.
LEMMA CleanFinished ==
    ASSUME NEW w, CleanSoFar(w)
    PROVE  CleanWrites(TableFinished(w))
<1> DEFINE s == w.writes
           a == WriteAt(w.end, w.index)
           b == WriteAt(0, <<Header(Len(w.index), w.end)>>)
           u == TableFinished(w)
<1>1. IsSequence(s) /\ (\A i \in 1..Len(s) : CleanWrite(s[i])) /\ Clean(w.index)
    BY DEF CleanSoFar, CleanWrites
<1>2. /\ IsSequence(u) /\ Len(u) = Len(s) + 2 /\ (\A i \in 1..Len(s) : u[i] = s[i])
      /\ u[Len(s) + 1] = a /\ u[Len(s) + 2] = b
    BY <1>1, FinishedIs
<1>3. CleanWrite(a)
    BY <1>1 DEF CleanWrite
<1>4. CleanWrite(b)
    BY TableCellsClean, CleanSingle DEF CleanWrite
<1> HIDE DEF s, a, b, u
<1>5. PICK n \in Nat : n = Len(s)
    BY <1>1 DEF IsSequence
<1>6. ASSUME NEW i \in 1..n + 2
      PROVE  CleanWrite(u[i])
    BY <1>1, <1>2, <1>3, <1>4, <1>5
<1>7. CleanWrites(u)
    BY <1>2, <1>5, <1>6 DEF CleanWrites
<1> QED BY <1>7 DEF u

\* Each further record.
LEMMA CleanPut ==
    ASSUME NEW w, NEW rec, CleanSoFar(w)
    PROVE  CleanSoFar(PutRecord(w, rec))
<1> DEFINE s == w.writes
           x == w.index
           a == WriteAt(w.end, RecordCells(rec))
           p == PutRecord(w, rec)
<1>1. IsSequence(s) /\ (\A i \in 1..Len(s) : CleanWrite(s[i])) /\ Clean(x)
    BY DEF CleanSoFar, CleanWrites
<1>2. p.writes = Append(s, a) /\ p.index = IndexAdd(x, w.end)
    BY DEF PutRecord
<1>3. CleanWrite(a)
    BY RecordClean DEF CleanWrite
<1> HIDE DEF s, x, a, p
<1>4. Clean(IndexAdd(x, w.end))
    BY <1>1, TableCellsClean, CleanAppend DEF IndexAdd
<1> DEFINE u == Append(s, a)
<1>5. PICK n \in Nat : n = Len(s)
    BY <1>1 DEF IsSequence
<1>6. IsSequence(u) /\ Len(u) = n + 1 /\ (\A i \in 1..n : u[i] = s[i]) /\ u[n + 1] = a
    BY <1>1, <1>5, AppendedAt
<1> HIDE DEF u
<1>7. ASSUME NEW i \in 1..n + 1
      PROVE  CleanWrite(u[i])
    BY <1>1, <1>3, <1>5, <1>6
<1>8. CleanWrites(u)
    BY <1>6, <1>7 DEF CleanWrites
<1> QED BY <1>2, <1>4, <1>8 DEF CleanSoFar, u, p

\* cmd_create (ch14-fileformat/fileformat.c:346-389).
LEMMA CreateClean ==
    ASSUME NEW file
    PROVE  CleanScript(Into(file, CreateWrites))
<1>1. PICK N \in Nat : N = Len(Sample)
    BY TableAssumption DEF IsSequence
<1> DEFINE s == WritesOf(Sample, N)
           x == IndexOf(Sample, N)
           w == Prepared(Sample, N)
<1>2. /\ IsSequence(s) /\ Len(s) = N + 2 /\ s[1] = Emptied /\ s[2] = WriteAt(0, <<Placeholder>>)
      /\ \A i \in 1..N : s[i + 2] = RecordWrite(Sample, i)
    BY WritesOfIs
<1>3. w.writes = s /\ w.index = x
    BY DEF Prepared
<1>4. Clean(x)
  <2>1. /\ IsSequence(x) /\ Len(x) = CutTo(N)
        /\ \A i \in 1..CutTo(N) : x[i] = Entry(OffsetOf(Sample, i))
      BY IndexOfIs
  <2> HIDE DEF x
  <2> QED BY <2>1, TableCellsClean DEF Clean
<1> HIDE DEF s, x, w
<1>5. ASSUME NEW i \in 1..N + 2
      PROVE  CleanWrite(s[i])
  <2>1. CASE i = 1
      BY <1>2, <2>1 DEF CleanWrite
  <2>2. CASE i = 2
      BY TableCellsClean, CleanSingle, <1>2, <2>2 DEF CleanWrite
  <2>3. CASE i # 1 /\ i # 2
    <3>1. PICK j \in 1..N : i = j + 2
        BY <2>3
    <3>3. Clean(RecordCells(Sample[j]))
        BY RecordClean
    <3> QED BY <3>3, <1>2, <3>1 DEF CleanWrite, RecordWrite
  <2> QED BY <2>1, <2>2, <2>3
<1>6. CleanSoFar(w)
    BY <1>2, <1>3, <1>4, <1>5 DEF CleanSoFar, CleanWrites
<1> QED BY <1>6, CleanFinished, CleanInto, <1>1, CreateWritesIs DEF w

\* cmd_add, whose index is whatever lay there (fileformat.c:492-537).
LEMMA AddClean ==
    ASSUME NEW cells, NEW recs, NEW sound, TableHolds(cells, recs, sound), Clean(cells),
           NEW rec, NEW file
    PROVE  CleanScript(Into(file, AddWrites(cells, rec)))
<1>1. /\ IsSequence(cells) /\ AreRecords(recs)
      /\ cells[1] = Header(Counted(recs), Behind(recs))
    BY DEF TableHolds
<1>2. Len(recs) \in Nat
    BY <1>1, RecordsCount
<1>3. PICK k \in Nat, b \in Nat : k = Counted(recs) /\ b = Behind(recs)
    BY <1>2, CountedIs, BehindIs
<1>4. cells[1].num_records = k /\ cells[1].index_offset = b
    BY <1>1, <1>3 DEF Header
<1> DEFINE f == [i \in 1..k |-> IF b + i <= Len(cells) THEN cells[b + i] ELSE Unread]
           o == OldIndex(cells)
<1>5. o = IF k \in 1..MAX_RECORDS THEN f ELSE <<>>
    BY <1>4, Zenon DEF OldIndex
<1>6. /\ f = [i \in 1..k |-> f[i]]
      /\ \A i \in 1..k : f[i] = IF b + i <= Len(cells) THEN cells[b + i] ELSE Unread
    OBVIOUS
<1> HIDE DEF f, o
<1>7. Clean(f)
  <2>2. PICK l \in Nat : l = Len(cells)
      BY <1>1 DEF IsSequence
  <2>3. ASSUME NEW i \in 1..k
        PROVE  IsClean(f[i])
      BY <1>6, <2>2, TableCellsClean DEF Clean
  <2> QED BY <2>3, <1>6, FunctionIs DEF Clean
<1>8. Clean(o)
    BY <1>5, <1>7, CleanEmpty
<1> DEFINE w0 == [writes |-> <<>>, end |-> cells[1].index_offset, index |-> OldIndex(cells)]
<1>9. CleanSoFar(w0)
  <2>1. w0.writes = <<>> /\ w0.index = o
      BY DEF o
  <2> HIDE DEF w0
  <2> QED BY <1>8, <2>1, EmptySequence DEF CleanSoFar, CleanWrites
<1>10. AddWrites(cells, rec) = TableFinished(PutRecord(w0, rec))
    BY DEF AddWrites
<1> HIDE DEF w0
<1> QED BY <1>9, <1>10, CleanPut, CleanFinished, CleanInto

-----------------------------------------------------------------------------
(***************************************************************************)
(* At every step, of every command.                                        *)
(***************************************************************************)
\* What a command has still to write, of cells that are neither.
Seals(tool, cells, script, file) ==
    IF tool = "generate" THEN TRUE
    ELSE IF tool = "add" THEN Clean(cells) /\ CleanScript(script)
    ELSE IF tool = "create"
    THEN /\ CreateRuns(cells, script, file, Unknown, Table(Sample, TRUE)) /\ CleanScript(script)
         /\ Clean(cells) \/ CreateOpens(script, file)
    ELSE \E all : Streams(cells, script, file, all) /\ Clean(all)

\* The strengthened invariant: a file is one of the generator's, as it leaves it,
\* or has neither cell.
SealInv ==
    /\ \A f \in Files : Clean(disk[f]) \/ SampleMade(disk[f])
    /\ proc # Idle /\ proc.script # <<>> =>
          Seals(proc.tool, disk[proc.file], proc.script, proc.file)

\* A write of a table goes into the file.
LEMMA LaysInside ==
    ASSUME NEW cells, NEW script, NEW file, NEW goal, NEW head, Lays(cells, script, file, goal, head),
           Clean(cells)
    PROVE  GoesInside(script, cells, file)
<1>1. IsSequence(script) /\ Len(script) \in Nat \ {0} /\ IsSequence(cells)
    BY LaysScript
<1>2. PICK n \in Nat : n = Len(cells)
    BY <1>1 DEF IsSequence
<1>3. CASE Len(script) = 1
    BY <1>3, <1>2 DEF Lays, PutsFirst, GoesInside
<1>4. CASE Len(script) # 1
  <2>1. 1 \in 1..Len(script) - 1 /\ 1 < Len(script)
    <3>1. PICK k \in Nat : k = Len(script) /\ k # 0 /\ k # 1
        BY <1>1, <1>4
    <3> QED BY <3>1
  <2>2. IsPiece(script, file, goal, 1) /\ Agrees(cells, goal, Place(script, goal, 1))
      BY <2>1 DEF Lays
  <2>6. PICK at, c : at = script[1].write.at /\ c = script[1].write.cells
      OBVIOUS
  <2>7. at \in Nat /\ at <= Len(cells) /\ PutsFirst(script, file, at, c)
      BY <2>6, <2>2, <2>1 DEF PutsFirst, IsPiece, Agrees, Place
  <2> QED BY <2>7 DEF GoesInside
<1> QED BY <1>3, <1>4

\* and so does one of a new table.
LEMMA CreateInside ==
    ASSUME NEW cells, NEW script, NEW file, NEW torn, NEW whole,
           CreateRuns(cells, script, file, torn, whole), Clean(cells) \/ CreateOpens(script, file)
    PROVE  IsSequence(script) /\ GoesInside(script, cells, file)
<1>1. CASE CreateOpens(script, file)
  <2>1. PICK goal, head, more :
            /\ IsSequence(more) /\ Creates(more, file, goal, head)
            /\ script = <<OpenEntry(file)>> \o (<<PlaceholderEntry(file)>> \o more)
      BY <1>1 DEF CreateOpens
  <2> DEFINE t == <<PlaceholderEntry(file)>> \o more
             e == OpenEntry(file)
  <2>2. IsSequence(t)
      BY <2>1, ConsTail
  <2>3. script = <<e>> \o t
      BY <2>1
  <2> HIDE DEF t, e
  <2>4. IsSequence(script) /\ script[1] = e
      BY <2>2, <2>3, ConsTail
  <2> QED BY <2>4 DEF e, OpenEntry, GoesInside
<1>2. CASE CreateBegins(cells, script, file)
  <2>1. PICK goal, head, more :
            /\ cells = <<>> /\ IsSequence(more) /\ Creates(more, file, goal, head)
            /\ script = <<PlaceholderEntry(file)>> \o more
      BY <1>2 DEF CreateBegins
  <2> DEFINE e == PlaceholderEntry(file)
  <2>2. IsSequence(script) /\ script[1] = e
    <3> HIDE DEF e
    <3> QED BY <2>1, ConsTail DEF e
  <2> QED BY <2>2, <2>1, CleanEmpty, EmptySequence DEF GoesInside, PutsFirst, PlaceholderEntry
<1>3. CASE CreateLays(cells, script, file)
    BY <1>3, LaysScript, LaysInside, <1>1 DEF CreateLays
<1> QED BY <1>1, <1>2, <1>3 DEF CreateRuns

\* A write of such a command leaves cells that are neither.
SealsOn(tool, d, rest, file) == Clean(d) /\ (rest # <<>> => Seals(tool, d, rest, file))

LEMMA SealsNext ==
    ASSUME NEW tool, tool # "generate", NEW cells, NEW script, script # <<>>, NEW file,
           NEW torn, NEW whole, tool = "add" => AddRuns(cells, script, file, torn, whole),
           Seals(tool, cells, script, file)
    PROVE  /\ Head(script).file = file
           /\ SealsOn(tool, Written(cells, FirstOf(Head(script).write)), NextScript(script), file)
<1> DEFINE d == Written(cells, FirstOf(Head(script).write))
           rest == NextScript(script)
<1>1. CASE tool = "add"
  <2>1. AddRuns(cells, script, file, torn, whole) /\ Clean(cells) /\ CleanScript(script)
      BY <1>1 DEF Seals
  <2>2. PICK goal, head : Lays(cells, script, file, goal, head)
      BY <2>1 DEF AddRuns
  <2>4. Clean(d) /\ CleanScript(rest)
      BY <2>1, CleanNext, <2>2, LaysInside, LaysScript
  <2>5. Head(script).file = file
      BY <2>1, AddStep
  <2> HIDE DEF d, rest
  <2> QED BY <1>1, <2>4, <2>5 DEF SealsOn, Seals, d, rest
<1>2. CASE tool = "create"
  <2> DEFINE made == Table(Sample, TRUE)
  <2>1. /\ CreateRuns(cells, script, file, Unknown, made) /\ CleanScript(script)
        /\ Clean(cells) \/ CreateOpens(script, file)
      BY <1>2 DEF Seals
  <2> HIDE DEF made
  <2>3. Clean(d) /\ CleanScript(rest)
      BY <2>1, CleanNext, CreateInside
  <2>4. Head(script).file = file /\ (rest # <<>> => CreateRuns(d, rest, file, Unknown, made))
      BY <2>1, CreateStep
  <2> HIDE DEF d, rest
  <2> QED BY <1>2, <2>3, <2>4 DEF SealsOn, Seals, d, rest, made
<1>3. CASE tool # "add" /\ tool # "create"
  <2>1. PICK all : Streams(cells, script, file, all) /\ Clean(all)
      BY <1>3 DEF Seals
  <2>2. Head(script).file = file /\ IsSequence(rest) /\ Goes(d, rest, file, all)
      BY <2>1, StreamNext
  <2> HIDE DEF d, rest
  <2>3. Streams(d, rest, file, all)
      BY <2>1, <2>2 DEF Streams
  <2>4. Clean(d)
      BY <2>1, <2>2, CleanBegins DEF Goes
  <2> QED BY <1>3, <2>1, <2>2, <2>3, <2>4 DEF SealsOn, Seals, d, rest
<1> QED BY <1>1, <1>2, <1>3

\* None of the files is a sample before.
LEMMA SealInit == Init => SealInv
<1> SUFFICES ASSUME Init PROVE SealInv
    OBVIOUS
<1>1. proc = Idle /\ disk = bench.disk /\ bench \in Benches
    BY DEF Init
<1>2. ASSUME NEW f \in Files
      PROVE  Clean(disk[f])
  <2> DEFINE cells == disk[f]
  <2>1. Untouched(cells)
      BY <1>1, BenchAssumption DEF Files
  <2> HIDE DEF cells
  <2>4. Clean(cells)
      BY IndexSet, <2>1 DEF Clean, IsClean, Untouched
  <2> QED BY <2>4 DEF cells
<1> QED BY <1>1, <1>2 DEF SealInv

\* A write,
LEMMA SealWrite ==
    ASSUME BenchInv, SealInv, WriteNext
    PROVE  SealInv'
<1> DEFINE file == Head(proc.script).file
           cells == Written(disk[file], FirstOf(Head(proc.script).write))
           rest == NextScript(proc.script)
<1>1. proc # Idle /\ proc.script # <<>>
    BY DEF WriteNext
<1>2. /\ IsCommand(proc) /\ proc.file \in Files
      /\ Pending(proc.tool, disk, proc.script, proc.file, proc.torn, proc.whole)
    BY <1>1 DEF BenchInv, Running, IsCommand
<1>3. disk' = [disk EXCEPT ![file] = cells] /\ proc' = [proc EXCEPT !.script = rest]
    BY DEF WriteNext, NextScript
<1>4. proc'.tool = proc.tool /\ proc'.file = proc.file /\ proc'.script = rest
  <2> HIDE DEF rest
  <2> QED BY <1>2, <1>3 DEF IsCommand
<1>5. \A f \in Files : Clean(disk[f]) \/ SampleMade(disk[f])
    BY DEF SealInv
<1>7. CASE proc.tool = "generate"
  <2>4. SampleMade(cells) /\ file \in DOMAIN disk
      BY <1>1, SampleNext, <1>2, <1>7 DEF SampleStep, SamplesRun, Pending
  <2> HIDE DEF file, cells, rest
  <2>6. Seals(proc'.tool, disk'[proc'.file], proc'.script, proc'.file)
      BY <1>4, <1>7 DEF Seals
  <2> QED BY <2>6, <1>3, <1>5, <2>4 DEF SealInv, Files
<1>8. CASE proc.tool # "generate"
  <2>2. /\ file = proc.file
        /\ SealsOn(proc.tool, Written(disk[proc.file], FirstOf(Head(proc.script).write)), rest, proc.file)
      BY <1>1, <1>8, SealsNext, <1>2 DEF SealInv, Pending
  <2>3. SealsOn(proc.tool, cells, rest, proc.file)
      BY <2>2
  <2> HIDE DEF file, cells, rest
  <2>4. Clean(cells) /\ (rest # <<>> => Seals(proc.tool, cells, rest, proc.file))
      BY <2>3 DEF SealsOn
  <2>7. proc'.script # <<>> => Seals(proc'.tool, disk'[proc'.file], proc'.script, proc'.file)
      BY <1>4, <2>4, <1>2, <1>3, <2>2 DEF Files
  <2> QED BY <2>7, <1>3, <1>5, <2>2, <2>4 DEF SealInv, Files
<1> QED BY <1>7, <1>8

\* the start of a command,
LEMMA SealStart ==
    ASSUME SealInv, NEW tool, NEW file, NEW script, NEW torn, NEW whole, NEW exit,
           Start(tool, file, script, torn, whole, exit), Seals(tool, disk[file], script, file)
    PROVE  SealInv'
BY DEF Start, SealInv, Files

\* of one that writes a file from its beginning to its end,
LEMMA SealStream ==
    ASSUME SealInv, NEW tool, tool \notin {"generate", "add", "create"}, NEW file,
           NEW all, Clean(all), NEW torn, NEW whole, NEW exit,
           Start(tool, file, Into(file, WriteAll(all)), torn, whole, exit)
    PROVE  SealInv'
<1> DEFINE script == Into(file, WriteAll(all))
<1>1. Streams(disk[file], script, file, all)
    BY StreamStarts DEF Clean
<1> HIDE DEF script
<1> QED BY SealStart, <1>1 DEF script, Seals

\* the end of one, and a report.
LEMMA SealRest ==
    ASSUME SealInv, disk' = disk, proc' = proc \/ proc' = Idle
    PROVE  SealInv'
BY DEF SealInv, Files

\* A command that writes nothing.
LEMMA SealReport ==
    ASSUME SealInv, NEW tool, NEW file, NEW exit, NEW found, Report(tool, file, exit, found)
    PROVE  SealInv'
BY SealRest DEF Report

\* cmd_create (ch14-fileformat/fileformat.c:346-389).
LEMMA SealCreate ==
    ASSUME SealInv, NEW file \in Files, Create(file)
    PROVE  SealInv'
<1> DEFINE script == Into(file, CreateWrites)
           whole == Table(Sample, TRUE)
<1>1. Start("create", file, script, Unknown, whole, "0")
    BY DEF Create
<1>2. CreateOpens(script, file)
  <2>1. PICK goal, head, rest :
            /\ IsSequence(rest) /\ Creates(rest, file, goal, head)
            /\ script = <<OpenEntry(file)>> \o (<<PlaceholderEntry(file)>> \o rest)
      BY CreateStarts
  <2> HIDE DEF script
  <2> QED BY <2>1 DEF CreateOpens
<1>3. CleanScript(script)
    BY CreateClean
<1> HIDE DEF script, whole
<1> QED BY <1>1, SealStart, <1>2, <1>3 DEF Seals, whole, CreateRuns

\* cmd_add (fileformat.c:492-537): neither sample begins as a table.
LEMMA SealAdd ==
    ASSUME BenchInv, SealInv, NEW file \in Files, NEW rec \in bench.recs, Add(file, rec)
    PROVE  SealInv'
<1>1. proc = Idle
    BY DEF Add, Ready
<1>2. CASE ~IsTable(disk[file])
    BY <1>2, SealReport DEF Add
<1>3. CASE IsTable(disk[file])
  <2> DEFINE cells == disk[file]
             old == put[file]
             script == Into(file, AddWrites(cells, rec))
             torn == Table(old.recs, FALSE)
             whole == Table(Append(old.recs, rec), old.sound)
  <2>1. Start("add", file, script, torn, whole, "0")
      BY <1>3 DEF Add
  <2>2. TableHolds(cells, old.recs, old.sound)
      BY <1>1, FileMeans, <1>3 DEF Means, Looks
  <2>3. Clean(cells) \/ SampleMade(cells)
      BY DEF SealInv
  <2> HIDE DEF cells
  <2>4. ~SampleMade(cells)
    <3> SUFFICES ASSUME SampleMade(cells) PROVE FALSE
        OBVIOUS
    <3>1. IsSequence(cells) /\ cells # <<>> /\ cells[1].kind = "header"
        BY <1>3, <2>2 DEF IsTable, TableHolds, cells
    <3> QED BY <3>1, MadeForeign, IndexSet, EmptySequence DEF Foreign
  <2>5. Clean(cells)
      BY <2>3, <2>4
  <2>6. CleanScript(script)
      BY <2>2, <2>5, AddClean
  <2> HIDE DEF script, torn, whole, old
  <2> QED BY <2>1, SealStart, <2>5, <2>6 DEF Seals, cells
<1> QED BY <1>2, <1>3

\* process_encrypt (ch14-crypto/crypto.c:395-450).
LEMMA SealEncrypt ==
    ASSUME BenchInv, SealInv, NEW in \in Files, NEW out \in Files, NEW password \in bench.passwords,
           NEW time \in bench.times, NEW unset \in bench.junk,
           Encrypt(in, out, password, time, unset)
    PROVE  SealInv'
<1> DEFINE plain == IF in = out THEN <<>> ELSE ValuesOf(disk[in])
           key == KeyOf(password)
           iv == Iv(time, unset)
           all == Encrypted(plain, key, iv)
           torn == Cryp(plain, key, FALSE)
           whole == Cryp(plain, key, TRUE)
<1>3. CASE Report("encrypt", out, "killed", <<>>) \/ Report("encrypt", out, "1", <<>>)
    BY <1>3, SealReport
<1>4. CASE /\ Derivable(password) /\ disk[in] # NoFile
           /\ Start("encrypt", out, Into(out, WriteAll(all)), torn, whole, "0")
  <2>2. plain \in Seq(Bytes)
      BY <1>4, PlainValues DEF Encrypt, Ready
  <2>3. key \in DOMAIN HashOf
      BY <1>4, KeyDerived
  <2>4. iv \in Block
      BY BenchAssumption, IvIs DEF BenchInv, Filed
  <2> HIDE DEF plain, key, iv
  <2>5. Clean(all)
      BY <2>2, <2>3, <2>4, CrypClean
  <2> HIDE DEF all, torn, whole
  <2> QED BY <1>4, <2>5, SealStream
<1> QED BY <1>3, <1>4 DEF Encrypt

\* process_decrypt (ch14-crypto/crypto.c:452-507).
LEMMA SealDecrypt ==
    ASSUME BenchInv, SealInv, NEW in \in Files, NEW out \in Files, NEW password \in bench.passwords,
           Decrypt(in, out, password)
    PROVE  SealInv'
<1> DEFINE cells == Fetched(in, out)
           of == put[in]
           key == KeyOf(password)
           bytes == Decrypted(cells, key)
           all == ByteCells(bytes)
           torn == Opened(of, key, "0", FALSE)
           whole == Opened(of, key, "0", cells = disk[in])
<1>1. proc = Idle
    BY DEF Decrypt, Ready
<1>3. CASE Report("decrypt", out, "killed", <<>>) \/ Report("decrypt", out, "1", <<>>)
    BY <1>3, SealReport
<1>4. CASE /\ Derivable(password) /\ IsCryp(disk[in])
           /\ Start("decrypt", out, Into(out, WriteAll(all)), torn, whole, "0")
  <2>1. key \in DOMAIN HashOf
      BY <1>4, KeyDerived
  <2>2. bytes \in Seq(Bytes)
    <3>1. Recovers(of, key, bytes, cells = disk[in])
      <4> HIDE DEF key
      <4> QED BY <1>1, <1>4, <2>1, CrypOpened
    <3> HIDE DEF key, bytes
    <3> QED BY <3>1 DEF Recovers
  <2> HIDE DEF bytes
  <2>3. Clean(all)
      BY <2>2, BytesClean
  <2> HIDE DEF all, torn, whole
  <2> QED BY <1>4, <2>3, SealStream
<1> QED BY <1>3, <1>4 DEF Decrypt

\* write_encrypted_file (ch24-crypto/crypto.c:216-252).
LEMMA SealEncrypt24 ==
    ASSUME BenchInv, SealInv, NEW in \in Files, NEW iv, Encrypt24(in, iv)
    PROVE  SealInv'
<1> DEFINE out == in \o ".enc"
           plain == ValuesOf(disk[in])
           all == Crypt24Cells(plain, iv)
           torn == Crypt24(plain, FALSE)
           whole == Crypt24(plain, TRUE)
<1>2. \/ Report("encrypt24", out, "1", <<>>)
      \/ /\ disk[in] # NoFile
         /\ Start("encrypt24", out, Into(out, WriteAll(all)), torn, whole, "0")
    BY DEF Encrypt24
<1> HIDE DEF out
<1>3. CASE Report("encrypt24", out, "1", <<>>)
    BY <1>3, SealReport
<1>4. CASE /\ disk[in] # NoFile
           /\ Start("encrypt24", out, Into(out, WriteAll(all)), torn, whole, "0")
  <2>1. plain \in Seq(Bytes)
      BY <1>4, PlainValues DEF Encrypt24, Ready
  <2> HIDE DEF plain
  <2>3. Clean(all)
      BY Crypt24Clean, <2>1, SequenceOf
  <2> HIDE DEF all, torn, whole
  <2> QED BY <1>4, <2>3, SealStream
<1> QED BY <1>2, <1>3, <1>4

\* main of the script (ch24-checkpoint-decrypt.py:254-358).
LEMMA SealDecrypt24 ==
    ASSUME BenchInv, SealInv, NEW in \in Files, NEW out \in Files, Decrypt24(in, out)
    PROVE  SealInv'
<1> DEFINE result == PyDecrypt(disk[in])
           of == put[in]
           all == ByteCells(result.plain)
           torn == Opened(of, PyKey, "torn", FALSE)
           whole == Opened(of, PyKey, result.exit, TRUE)
<1>1. proc = Idle
    BY DEF Decrypt24, Ready
<1>3. CASE Report("decrypt24", out, result.exit, <<>>)
  <2> HIDE DEF result
  <2> QED BY <1>3, SealReport
<1>4. CASE /\ result.opened
           /\ Start("decrypt24", out, Into(out, WriteAll(all)), torn, whole, result.exit)
  <2>1. PyRecovers(of, result)
      BY <1>1, <1>4, Crypt24Opened
  <2> HIDE DEF result
  <2> DEFINE bytes == result.plain
  <2> HIDE DEF bytes
  <2>4. Clean(all)
      BY BytesClean, BeginningIn, <2>1 DEF bytes, PyRecovers
  <2> HIDE DEF all, torn, whole
  <2> QED BY <1>4, <2>4, SealStream
<1> QED BY <1>3, <1>4 DEF Decrypt24

\* generate_cdb and generate_pkt (ch06-fileformat/fileformat.c:107-191, 335-525).
LEMMA SealGenerate ==
    ASSUME SealInv, NEW crc, Generate(crc)
    PROVE  SealInv'
<1> DEFINE script == SampleScript(crc)
<1>1. Start("generate", "sample.pkt", script, Unknown, Unknown, "0")
    BY DEF Generate, SampleScript
<1> HIDE DEF script
<1> QED BY <1>1, SealStart DEF Seals

\* Every step keeps it.
LEMMA SealNext ==
    ASSUME BenchInv, SealInv, [Next]_vars
    PROVE  SealInv'
<1>1. CASE WriteNext
    BY <1>1, SealWrite
<1>2. CASE Finish \/ Die
    BY <1>2, SealRest DEF Finish, Die
<1>3. ASSUME NEW file \in Files, Create(file)
      PROVE  SealInv'
    BY <1>3, SealCreate
<1>4. ASSUME NEW file \in Files, Parse(file) \/ ParseFile(file) \/ FuzzFile(file)
      PROVE  SealInv'
    BY <1>4, SealReport DEF Parse, ParseFile, FuzzFile
<1>5. ASSUME NEW file \in Files, NEW rec \in bench.recs, Add(file, rec)
      PROVE  SealInv'
    BY <1>5, SealAdd
<1>6. ASSUME NEW in \in Files, NEW out \in Files, NEW p \in bench.passwords,
             NEW t \in bench.times, NEW unset \in bench.junk, Encrypt(in, out, p, t, unset)
      PROVE  SealInv'
    BY <1>6, SealEncrypt
<1>7. ASSUME NEW in \in Files, NEW out \in Files, NEW p \in bench.passwords, Decrypt(in, out, p)
      PROVE  SealInv'
    BY <1>7, SealDecrypt
<1>8. ASSUME NEW in \in Files, NEW iv \in bench.times, Encrypt24(in, iv)
      PROVE  SealInv'
    BY <1>8, SealEncrypt24
<1>9. ASSUME NEW in \in Files, NEW out \in Files, Decrypt24(in, out)
      PROVE  SealInv'
    BY <1>9, SealDecrypt24
<1>10. ASSUME NEW crc \in bench.junk, Generate(crc)
       PROVE  SealInv'
    BY <1>10, SealGenerate
<1>11. CASE UNCHANGED vars
    BY <1>11, SealRest DEF vars
<1> QED BY <1>1, <1>2, <1>3, <1>4, <1>5, <1>6, <1>7, <1>8, <1>9, <1>10, <1>11 DEF Next

\* What has no footer and no header of a capture is sealed as it is.
LEMMA CleanIsSealed ==
    ASSUME NEW d, Clean(d), d # <<>>
    PROVE  IsSealed(d)
<1>1. Len(d) \in Nat \ {0}
    BY IndexSet, EmptySequence DEF Clean
<1>3. IsClean(d[1]) /\ IsClean(d[Len(d)])
    BY <1>1 DEF Clean
<1> QED BY <1>3 DEF IsClean, IsSealed

(***************************************************************************)
(* A sample with its offsets filled in, or its footer there, is complete:  *)
(* what the patterns place by offsets and counts is where they place it,   *)
(* whenever the generator died and whatever the other tools wrote          *)
(* (ch06-fileformat/fileformat.c:107-191, 335-525;                         *)
(* hexpat/ch06_fileformat.hexpat).                                         *)
(***************************************************************************)
THEOREM CapturesAreSealed == Spec => []CaptureIsSealed
<1>1. SealInv => CaptureIsSealed
  <2> SUFFICES ASSUME SealInv, NEW f \in Files, disk[f] # <<>>
               PROVE  /\ disk[f][Len(disk[f])].kind = "cdb footer" => CdbFollowed(disk[f])
                      /\ disk[f][1].kind = "pkt" /\ disk[f][1].footer_offset # 0 =>
                            /\ PktFollowed(disk[f])
                            /\ At(disk[f], disk[f][1].footer_offset).total_payload_bytes =
                                  PayloadBytes(disk[f])
      BY DEF CaptureIsSealed
  <2> QED BY CleanIsSealed, MadeIsSealed DEF IsSealed, PktSealed, SealInv
<1> QED BY <1>1, InvariantHolds, SealInit, SealNext, PTL DEF Spec

-----------------------------------------------------------------------------
(***************************************************************************)
(* The sections of chapter 15.                                             *)
(***************************************************************************)
\* The header of a file, and the signature if it has one.
LEMMA PreambleIs ==
    ASSUME NEW version, NEW checksummed, NEW count
    PROVE  LET a == Preamble(version, checksummed, count)
               h == FileHeader(version, checksummed, count)
           IN  /\ Wide(a) /\ Begins(<<h>>, a) /\ Wide(<<h>>) /\ SizeOf(<<h>>) = 8
               /\ version = 3 => /\ SizeOf(a) = 24 /\ Len(a) = 2
                                 /\ a[2] = Signature("SIG", 66)
               /\ version # 3 => SizeOf(a) = 8
<1> DEFINE h == FileHeader(version, checksummed, count)
           s == Signature("SIG", 66)
           t == IF version = 3 THEN <<s>> ELSE <<>>
           a == Preamble(version, checksummed, count)
<1>1. a = <<h>> \o t
    BY DEF Preamble
<1>2. "width" \in DOMAIN h /\ h.width = 8
    BY DEF FileHeader, HEADER_SIZE
<1>3. "width" \in DOMAIN s /\ s.width = 16
    BY DEF Signature, SIG_SIZE
<1> HIDE DEF h, s, a
<1>4. Wide(<<h>>) /\ SizeOf(<<h>>) = 8
    BY <1>2, SizeOfOne DEF WidthOf
<1>5. Wide(<<s>>) /\ SizeOf(<<s>>) = 16
    BY <1>3, SizeOfOne DEF WidthOf
<1>7. Wide(t) /\ (version = 3 => t = <<s>> /\ SizeOf(t) = 16) /\ (version # 3 => SizeOf(t) = 0)
    BY <1>5, EmptySequence, NoSize DEF Wide
<1> HIDE DEF t
<1>8. Wide(a) /\ Begins(<<h>>, a) /\ SizeOf(a) = 8 + SizeOf(t)
    BY <1>1, <1>4, <1>7, SizeTogether
<1>9. version = 3 => Len(a) = 2 /\ a[2] = s
  <2>1. Join(a, <<h>>, t)
      BY <1>1, <1>4, <1>7, Joined DEF Wide
  <2>2. Len(<<h>>) = 1 /\ Len(<<s>>) = 1 /\ <<s>>[1] = s /\ 1 \in 1..1 /\ 1 + 1 = 2
      BY SingleSequence
  <2> QED BY <1>7, <2>1, <2>2 DEF Join
<1> QED BY <1>4, <1>7, <1>8, <1>9 DEF h, s, a

\* The file behind its n-th section.
Layout(F, version, checksummed, sections) ==
    Accumulates(F, Len(sections), Preamble(version, checksummed, Len(sections)),
                [n \in 1..Len(sections) |-> Chunk(sections[n])])

LEMMA FileIs ==
    ASSUME NEW version, NEW checksummed, NEW sections, IsSequence(sections)
    PROVE  \E F : /\ Layout(F, version, checksummed, sections)
                  /\ FileOf(version, checksummed, sections) = F[Len(sections)]
<1>1. PICK N \in Nat : N = Len(sections)
    BY IndexSet
<1> DEFINE a == Preamble(version, checksummed, N)
           b == [n \in 1..N |-> Chunk(sections[n])]
           Is(f) == f = [n \in 0..N |->
                            IF n = 0 THEN a
                            ELSE f[n - 1] \o (<<DescriptorOf(sections[n])>> \o sections[n].payload)]
           g == CHOOSE f : Is(f)
<1>2. \A f : Is(f) <=> Accumulates(f, N, a, b)
  <2> TAKE f
  <2> HIDE DEF a
  <2>1. \A n \in 0..N : n # 0 =>
            f[n - 1] \o (<<DescriptorOf(sections[n])>> \o sections[n].payload) = f[n - 1] \o b[n]
    <3> TAKE n \in 0..N
    <3>2. n # 0 => b[n] = <<DescriptorOf(sections[n])>> \o sections[n].payload
        BY DEF Chunk
    <3> QED BY <3>2
  <2> HIDE DEF b
  <2> QED BY <2>1 DEF Accumulates
<1>4. \E f : Is(f)
  <2> HIDE DEF Is, a, b
  <2> QED BY <1>2, Accumulated
<1>5. Is(g)
    BY <1>4
<1>6. FileOf(version, checksummed, sections) = g[N]
    BY <1>1 DEF FileOf
<1> HIDE DEF Is, g
<1> QED BY <1>1, <1>6, <1>2, <1>5 DEF Layout

\* The sections of a file, as they are by themselves.
Contents(sections) == [n \in 1..Len(sections) |-> SectionOf(sections[n])]

\* What parse_sections makes of a file (ch15-fileformat/fileformat.c:468-544).
LEMMA ParsedIs ==
    ASSUME NEW cells, NEW version \in 1..3, NEW checksummed, NEW sections, IsSequence(sections),
           \A n \in 1..Len(sections) : IsSection(sections[n]),
           cells = FileOf(version, checksummed, sections), SizeOf(cells) < OFFSETS
    PROVE  /\ Wide(cells) /\ Begins(Preamble(version, checksummed, Len(sections)), cells)
           /\ ParseSections(cells).ret = 0 /\ ParseSections(cells).sections = Contents(sections)
<1>1. PICK N \in Nat : N = Len(sections)
    BY IndexSet
<1> DEFINE a == Preamble(version, checksummed, N)
           b == [n \in 1..N |-> Chunk(sections[n])]
           h == FileHeader(version, checksummed, N)
<1>2. PICK F : Accumulates(F, N, a, b) /\ cells = F[N]
    BY <1>1, FileIs DEF Layout
<1>3. \A n \in 1..N : b[n] = Chunk(sections[n]) /\ Wide(b[n])
    BY <1>1, ChunkIs
<1>4. /\ Wide(a) /\ Begins(<<h>>, a)
      /\ version = 3 => SizeOf(a) = 24
      /\ version # 3 => SizeOf(a) = 8
    BY PreambleIs, ZenonT(30)
<1>5. h.version = version /\ h.section_count = N
    BY DEF FileHeader
<1> HIDE DEF a, b, h
<1>6. /\ F[0] = a /\ \A n \in 1..N : F[n] = F[n - 1] \o b[n]
      /\ \A n \in 0..N : Wide(F[n]) /\ Begins(F[n], F[N])
    BY <1>2, <1>3, <1>4, AccumulatedBegins
<1>7. Wide(cells) /\ Begins(a, cells)
    BY <1>2, <1>6
<1>8. cells[1] = h
  <2>2. Begins(<<h>>, cells)
      BY <1>4, <1>7, BeginsInTurn
  <2> QED BY <2>2, FirstSame, SingleSequence
<1>9. FirstOffset(cells) = SizeOf(a)
    BY <1>4, <1>5, <1>8 DEF FirstOffset, HEADER_SIZE, SIG_SIZE
<1> DEFINE first == [offset |-> FirstOffset(cells), ret |-> 0, sections |-> <<>>]
           List(n) == [i \in 1..n |-> SectionOf(sections[i])]
           At_(n) == [offset |-> SizeOf(F[n]), ret |-> 0, sections |-> List(n)]
           Finds(g) == g = [i \in 0..N |-> IF i = 0 THEN first ELSE Visited(cells, g[i - 1])]
           p == [i \in 0..N |-> At_(i)]
<1>10. At_(0) = first
  <2>1. List(0) = <<>>
    <3>1. List(0) = [i \in 1..0 |-> List(0)[i]]
        OBVIOUS
    <3> HIDE DEF List
    <3> QED BY EmptySequence, <3>1, FunctionIs
  <2> HIDE DEF List
  <2> QED BY <1>6, <1>9, <2>1
<1>11. \A n \in 1..N : Visited(cells, At_(n - 1)) = At_(n)
  <2> TAKE n \in 1..N
  <2>1. PICK m \in 0..N : m = n - 1 /\ n = m + 1
      OBVIOUS
  <2>2. F[n] = F[m] \o Chunk(sections[n]) /\ Wide(F[m]) /\ IsSection(sections[n])
      BY <1>1, <1>3, <1>6, <2>1
  <2>3. Begins(F[m] \o Chunk(sections[n]), cells)
    <3>1. n \in 0..N
        OBVIOUS
    <3> QED BY <1>2, <1>6, <2>2, <3>1
  <2>4. Visited(cells, [offset |-> SizeOf(F[m]), ret |-> 0, sections |-> List(m)])
           = [offset |-> SizeOf(F[m] \o Chunk(sections[n])), ret |-> 0,
              sections |-> Append(List(m), SectionOf(sections[n]))]
    <3> HIDE DEF List
    <3> QED BY <1>7, <2>2, <2>3, SectionVisited
  <2>5. Append(List(m), SectionOf(sections[n])) = List(n)
    <3> DEFINE s == List(m)
               t == List(n)
               e == SectionOf(sections[n])
    <3>1. s = [i \in 1..m |-> s[i]] /\ t = [i \in 1..n |-> t[i]]
        OBVIOUS
    <3>2. \A i \in 1..m : s[i] = t[i]
        BY <2>1
    <3>3. t[n] = e
        OBVIOUS
    <3> HIDE DEF s, t, e
    <3>4. IsSequence(s) /\ Len(s) = m /\ IsSequence(t) /\ Len(t) = n
        BY <3>1, FunctionIs
    <3>5. /\ IsSequence(Append(s, e)) /\ Len(Append(s, e)) = m + 1
          /\ (\A i \in 1..m : Append(s, e)[i] = s[i]) /\ Append(s, e)[m + 1] = e
        BY <3>4, AppendedAt
    <3>6. \A i \in 1..n : Append(s, e)[i] = t[i]
      <4> TAKE i \in 1..n
      <4>1. i \in 1..m \/ i = m + 1
          BY <2>1
      <4> QED BY <2>1, <3>2, <3>3, <3>5, <4>1
    <3>7. Append(s, e) = t
        BY <2>1, <3>4, <3>5, <3>6, SameSequence
    <3> QED BY <3>7 DEF s, t, e
  <2> HIDE DEF List
  <2> QED BY <2>1, <2>2, <2>4, <2>5
<1> HIDE DEF first, At_
<1>13. Finds(p)
  <2>1. \A n \in 0..N : At_(n) = IF n = 0 THEN first ELSE Visited(cells, p[n - 1])
    <3> TAKE n \in 0..N
    <3>1. CASE n = 0
        BY <1>10, <3>1
    <3>2. CASE n # 0
        BY <3>2, <1>11
    <3> QED BY <3>1, <3>2
  <2> QED BY <2>1
<1> HIDE DEF p
<1> DEFINE g == CHOOSE q : Finds(q)
<1>14. Finds(g)
    BY <1>13
<1>15. ParseSections(cells) = g[N]
    BY <1>5, <1>8 DEF ParseSections, first
<1> HIDE DEF g
<1>16. g[0] = first /\ \A n \in 1..N : g[n] = Visited(cells, g[n - 1])
    BY <1>14
<1> HIDE DEF Finds
<1> DEFINE T == {n \in Nat : n <= N => g[n] = At_(n)}
<1>17. T = Nat
  <2>1. 0 \in T
      BY <1>10, <1>16
  <2>2. \A n \in T : n + 1 \in T
    <3> SUFFICES ASSUME NEW n \in T, n + 1 <= N PROVE g[n + 1] = At_(n + 1)
        OBVIOUS
    <3>1. PICK m \in 1..N : m = n + 1 /\ m - 1 = n
        OBVIOUS
    <3> QED BY <1>11, <3>1, <1>16
  <2> HIDE DEF T
  <2> QED BY <2>1, <2>2, Induction DEF T
<1>19. At_(N).ret = 0 /\ At_(N).sections = Contents(sections)
    BY <1>1 DEF At_, Contents
<1> QED BY <1>1, <1>7, <1>19, <1>15, <1>17 DEF a

\* Header and signature are as they should be.
LEMMA HeadersOk ==
    ASSUME NEW cells, Wide(cells), NEW version \in 1..3, NEW checksummed, NEW count,
           Begins(Preamble(version, checksummed, count), cells)
    PROVE  /\ cells[1].version = version /\ HeaderOk(cells)
           /\ SizeOf(cells) \in Nat /\ SizeOf(cells) >= 8
           /\ version = 3 /\ SizeOf(cells) >= HEADER_SIZE + 32 => SignatureOk(cells)
<1> DEFINE a == Preamble(version, checksummed, count)
           h == FileHeader(version, checksummed, count)
           s == Signature("SIG", 66)
<1>1. /\ Wide(a) /\ Begins(<<h>>, a) /\ Wide(<<h>>) /\ SizeOf(<<h>>) = 8
      /\ version = 3 => Len(a) = 2 /\ a[2] = s
    BY PreambleIs
<1>2. h.kind = "cstm" /\ h.version = version
    BY DEF FileHeader
<1>3. s.kind = "sig" /\ s.marker = "SIG" /\ s.check = 66
    BY DEF Signature
<1>4. Begins(a, cells)
    OBVIOUS
<1> HIDE DEF a, h, s
<1>5. Begins(<<h>>, cells)
    BY <1>1, <1>4, BeginsInTurn
<1>6. SizeOf(cells) \in Nat /\ SizeOf(cells) >= 8
    BY <1>1, <1>5, SizeBegins
<1>7. IsSequence(<<h>>) /\ Len(<<h>>) = 1 /\ <<h>>[1] = h
    BY SingleSequence
<1>8. cells[1] = h
    BY <1>5, <1>7, FirstSame
<1>10. ASSUME version = 3, SizeOf(cells) >= HEADER_SIZE + 32
       PROVE  SignatureOk(cells)
  <2>1. 2 <= Len(cells) /\ cells[2] = s /\ Len(cells) \in Nat
    <3>0. Len(a) = 2 /\ a[2] = s /\ 2 \in 1..2
        BY <1>1, <1>10
    <3>2. Len(cells) \in Nat
        BY IndexSet DEF Wide
    <3> QED BY <3>0, <3>2, <1>4 DEF Begins
  <2>2. At(cells, SizeOf(<<h>>)) = cells[Len(<<h>>) + 1]
    <3>1. Len(<<h>>) < Len(cells)
        BY <1>7, <2>1
    <3> QED BY <1>5, <3>1, AtIs
  <2>3. At(cells, 8) = s
      BY <1>7, <1>1, <2>1, <2>2
  <2> QED BY <1>3, <1>10, <2>3 DEF SignatureOk, HEADER_SIZE
<1> QED BY <1>2, <1>6, <1>8, <1>10 DEF HeaderOk, HEADER_SIZE, MAX_VERSION

\* An outcome tells of all the sections, or the process was killed at one of them.
TellsOf(outcome, list) ==
    \/ outcome.exit = "0" /\ outcome.sections = list
    \/ /\ outcome.exit = "killed"
       /\ \E k \in 0..Len(list) : outcome.sections = SubSeq(list, 1, k)

LEMMA OutcomesTell ==
    ASSUME NEW list, IsSequence(list), NEW risky, NEW outcome \in Outcomes("0", list, risky)
    PROVE  TellsOf(outcome, list)
<1>1. DOMAIN list = 1..Len(list) /\ Len(list) \in Nat
    BY IndexSet
<1>3. CASE outcome = [exit |-> "0", sections |-> list]
    BY <1>3 DEF TellsOf
<1>4. ASSUME NEW i \in DOMAIN list, outcome = [exit |-> "killed", sections |-> SubSeq(list, 1, i - 1)]
      PROVE  TellsOf(outcome, list)
    BY <1>1, <1>4 DEF TellsOf
<1>5. CASE outcome = [exit |-> "killed", sections |-> list]
  <2>1. SubSeq(list, 1, Len(list)) = list /\ Len(list) \in 0..Len(list)
      BY <1>1, WholeSlice
  <2> QED BY <1>5, <2>1 DEF TellsOf
<1> QED BY <1>3, <1>4, <1>5 DEF Outcomes

\* Either program tells of the sections of a file what they are.
LEMMA RunsTell ==
    ASSUME NEW cells, NEW sections, IsFileOf(cells, sections),
           NEW outcome \in RunParser(cells) \cup RunHarness(cells)
    PROVE  TellsOf(outcome, Contents(sections))
<1>1. /\ IsSequence(sections) /\ SizeOf(cells) <= MAX_FUZZED
      /\ \A n \in DOMAIN sections : IsSection(sections[n])
    BY DEF IsFileOf
<1>2. PICK version \in 1..3 : \E checksummed \in BOOLEAN :
          /\ cells = FileOf(version, checksummed, sections)
          /\ version = 3 => SizeOf(cells) >= HEADER_SIZE + 32
    BY DEF IsFileOf, MAX_VERSION
<1>3. PICK checksummed \in BOOLEAN :
          /\ cells = FileOf(version, checksummed, sections)
          /\ version = 3 => SizeOf(cells) >= HEADER_SIZE + 32
    BY <1>2
<1>4. \A n \in 1..Len(sections) : IsSection(sections[n])
    BY <1>1, IndexSet
<1>5. PICK N \in Nat : N = Len(sections)
    BY <1>1, IndexSet
<1>6. /\ MAX_FUZZED \in Nat /\ MAX_INPUT \in Nat /\ OFFSETS \in Nat
      /\ MAX_FUZZED <= MAX_INPUT /\ MAX_INPUT < OFFSETS
    BY SectionsAssumption
<1>7. Wide(cells)
  <2>1. PICK F : Layout(F, version, checksummed, sections) /\ cells = F[N]
      BY <1>1, <1>3, <1>5, FileIs
  <2> DEFINE b == [n \in 1..N |-> Chunk(sections[n])]
             a == Preamble(version, checksummed, N)
  <2>2. Wide(a) /\ \A n \in 1..N : Wide(b[n])
      BY <1>4, <1>5, PreambleIs, ChunkIs
  <2>3. Accumulates(F, N, a, b)
      BY <1>5, <2>1 DEF Layout
  <2>4. N \in 0..N
      OBVIOUS
  <2> HIDE DEF a, b
  <2> QED BY <2>1, <2>2, <2>3, <2>4, AccumulatedBegins
<1>8. SizeOf(cells) \in Nat /\ SizeOf(cells) < OFFSETS
    BY <1>7, BeginsItself, SizeBegins, <1>1, <1>6 DEF Wide
<1> DEFINE p == ParseSections(cells)
<1>9. /\ Begins(Preamble(version, checksummed, N), cells)
      /\ p.ret = 0 /\ p.sections = Contents(sections)
    BY <1>1, <1>3, <1>4, <1>5, <1>8, ParsedIs
<1> HIDE DEF p
<1>10. /\ cells[1].version = version /\ HeaderOk(cells) /\ SizeOf(cells) >= 8
       /\ version = 3 => SignatureOk(cells)
    BY <1>3, <1>7, <1>9, HeadersOk
<1>11. RunParser(cells) = Outcomes("0", Contents(sections), ChecksumRisky(cells))
    BY <1>1, <1>6, <1>8, <1>10, <1>9 DEF RunParser, p
<1>12. RunHarness(cells) = Outcomes("0", Contents(sections), ChecksumRisky(cells))
  <2>1. SizeOf(cells) \in HEADER_SIZE..MAX_FUZZED
      BY <1>1, <1>6, <1>8, <1>10 DEF HEADER_SIZE
  <2> QED BY <1>9, <1>10, <2>1 DEF RunHarness, p
<1>13. IsSequence(Contents(sections))
  <2> DEFINE c == Contents(sections)
  <2>1. c = [n \in 1..N |-> c[n]]
      BY <1>5 DEF Contents
  <2> HIDE DEF c
  <2>2. IsSequence(c)
      BY <2>1, FunctionIs
  <2> QED BY <2>2 DEF c
<1> QED BY <1>11, <1>12, <1>13, OutcomesTell

\* The files of sections are as they were, and what is told of them is true.
SectionsInv ==
    /\ bench \in Benches
    /\ DOMAIN bench.sections # {} => proc = Idle /\ disk = bench.disk
    /\ SectionsInStep

\* What an outcome tells is what the sections were written for.
LEMMA TellsTrue ==
    ASSUME NEW sections, IsSequence(sections), \A n \in 1..Len(sections) : IsSection(sections[n]),
           NEW outcome, TellsOf(outcome, Contents(sections))
    PROVE  /\ \A n \in DOMAIN outcome.sections :
                 /\ outcome.sections[n].ok = sections[n].ok
                 /\ outcome.sections[n].ok => outcome.sections[n].content = sections[n].content
           /\ outcome.exit # "killed" =>
                 outcome.exit = "0" /\ Len(outcome.sections) = Len(sections)
<1>1. PICK N \in Nat : N = Len(sections)
    BY IndexSet
<1> DEFINE c == Contents(sections)
           s == outcome.sections
<1>2. c = [n \in 1..N |-> c[n]] /\ \A n \in 1..N : c[n] = SectionOf(sections[n])
    BY <1>1 DEF Contents
<1> HIDE DEF c
<1>3. IsSequence(c) /\ Len(c) = N /\ DOMAIN c = 1..N
    BY <1>2, FunctionIs
<1>4. \A n \in 1..N : /\ c[n].ok = sections[n].ok
                      /\ c[n].ok => c[n].content = sections[n].content
  <2> TAKE n \in 1..N
  <2>1. IsSection(sections[n]) /\ c[n] = SectionOf(sections[n])
      BY <1>1, <1>2
  <2> QED BY <2>1 DEF IsSection
<1>5. TellsOf(outcome, c)
    BY DEF c
<1>6. CASE outcome.exit = "0" /\ s = c
    BY <1>1, <1>3, <1>4, <1>6
<1>7. ASSUME outcome.exit = "killed", NEW k \in 0..N, s = SubSeq(c, 1, k)
      PROVE  \A n \in DOMAIN s : /\ s[n].ok = sections[n].ok
                                 /\ s[n].ok => s[n].content = sections[n].content
  <2>1. IsSequence(s) /\ Len(s) = k /\ \A i \in 1..k : s[i] = c[i]
      BY <1>3, <1>7, Beginning
  <2> HIDE DEF s
  <2>2. DOMAIN s = 1..k
      BY <2>1, IndexSet
  <2>3. \A n \in 1..k : n \in 1..N
      OBVIOUS
  <2> QED BY <1>4, <2>1, <2>2, <2>3
<1> QED BY <1>3, <1>5, <1>6, <1>7 DEF TellsOf

LEMMA SectionsInit == Init => SectionsInv
<1> SUFFICES ASSUME Init PROVE SectionsInv
    OBVIOUS
<1> QED BY DEF Init, SectionsInv, SectionsInStep, NoReport

\* A report of the parser or of its harness.
LEMMA SectionsReported ==
    ASSUME SectionsInv, NEW file, NEW tool,
           NEW outcome \in RunParser(disk[file]) \cup RunHarness(disk[file]),
           Report(tool, file, outcome.exit, outcome.sections)
    PROVE  SectionsInv'
<1>1. /\ last' = [tool |-> tool, file |-> file, exit |-> outcome.exit, found |-> outcome.sections]
      /\ bench' = bench /\ disk' = disk /\ proc' = proc
    BY DEF Report
<1>3. ASSUME file \in DOMAIN bench.sections
      PROVE  LET want == bench.sections[file]
             IN  /\ \A n \in DOMAIN outcome.sections :
                       /\ outcome.sections[n].ok = want[n].ok
                       /\ outcome.sections[n].ok => outcome.sections[n].content = want[n].content
                 /\ outcome.exit # "killed" =>
                       outcome.exit = "0" /\ Len(outcome.sections) = Len(want)
  <2> DEFINE want == bench.sections[file]
  <2>2. IsFileOf(disk[file], want)
      BY <1>3, SectionFilesAssumption DEF SectionsInv
  <2> HIDE DEF want
  <2>5. TellsOf(outcome, Contents(want))
      BY <2>2, RunsTell
  <2>6. /\ \A n \in DOMAIN outcome.sections :
              /\ outcome.sections[n].ok = want[n].ok
              /\ outcome.sections[n].ok => outcome.sections[n].content = want[n].content
        /\ outcome.exit # "killed" => outcome.exit = "0" /\ Len(outcome.sections) = Len(want)
      BY <2>5, TellsTrue, IndexSet, <2>2 DEF IsFileOf
  <2> QED BY <2>6 DEF want
<1> QED BY <1>1, <1>3 DEF SectionsInv, SectionsInStep

\* No other program writes beside the files of sections.
LEMMA SectionsNext ==
    ASSUME SectionsInv, [Next]_vars
    PROVE  SectionsInv'
<1>1. CASE UNCHANGED vars
    BY <1>1 DEF vars, SectionsInv, SectionsInStep
<1>2. ASSUME NEW file, ParseFile(file) \/ FuzzFile(file)
      PROVE  SectionsInv'
    BY <1>2, SectionsReported DEF ParseFile, FuzzFile
<1> DEFINE Other ==
        \/ WriteNext \/ Finish \/ Die
        \/ \E file \in Files : Create(file) \/ Parse(file)
        \/ \E file \in Files : \E rec \in bench.recs : Add(file, rec)
        \/ \E in \in Files : \E out \in Files : \E p \in bench.passwords :
              \E t \in bench.times : \E unset \in bench.junk : Encrypt(in, out, p, t, unset)
        \/ \E in \in Files : \E out \in Files : \E p \in bench.passwords : Decrypt(in, out, p)
        \/ \E in \in Files : \E iv \in bench.times : Encrypt24(in, iv)
        \/ \E in \in Files : \E out \in Files : Decrypt24(in, out)
        \/ \E file_crc \in bench.junk : Generate(file_crc)
<1>3. CASE Other
  <2>1. bench' = bench
    <3>1. CASE WriteNext \/ Finish \/ Die
        BY <3>1 DEF WriteNext, Finish, Die
    <3>2. \A tool, file, script, torn, whole, exit :
             Start(tool, file, script, torn, whole, exit) => bench' = bench
        BY DEF Start
    <3>3. \A tool, file, exit, found : Report(tool, file, exit, found) => bench' = bench
        BY DEF Report
    <3>4. \A file \in Files : Create(file) \/ Parse(file) => bench' = bench
        BY <3>2, <3>3, ZenonT(30) DEF Create, Parse
    <3>5. \A file \in Files : \A rec \in bench.recs : Add(file, rec) => bench' = bench
        BY <3>2, <3>3, ZenonT(30) DEF Add
    <3>6. \A in \in Files : \A out \in Files : \A p \in bench.passwords :
             \A t \in bench.times : \A unset \in bench.junk :
                Encrypt(in, out, p, t, unset) => bench' = bench
        BY <3>2, <3>3, ZenonT(30) DEF Encrypt
    <3>7. \A in \in Files : \A out \in Files : \A p \in bench.passwords :
             Decrypt(in, out, p) => bench' = bench
        BY <3>2, <3>3, ZenonT(30) DEF Decrypt
    <3>8. \A in \in Files : \A iv \in bench.times : Encrypt24(in, iv) => bench' = bench
        BY <3>2, <3>3, ZenonT(30) DEF Encrypt24
    <3>9. \A in \in Files : \A out \in Files : Decrypt24(in, out) => bench' = bench
        BY <3>2, <3>3, ZenonT(30) DEF Decrypt24
    <3>10. \A file_crc \in bench.junk : Generate(file_crc) => bench' = bench
        BY <3>2, <3>3, ZenonT(30) DEF Generate
    <3> QED BY <1>3, <3>1, <3>4, <3>5, <3>6, <3>7, <3>8, <3>9, <3>10, Zenon
  <2>2. CASE DOMAIN bench.sections = {}
      BY <2>1, <2>2 DEF SectionsInv, SectionsInStep
  <2>3. CASE DOMAIN bench.sections # {}
    <3>1. bench \in Benches /\ proc = Idle
        BY <2>3 DEF SectionsInv
    <3>3. \A tool : Ready(tool) => tool = "sections"
        BY <2>3, <3>1, SectionFilesAssumption DEF Ready
    <3>4. FALSE
        BY <1>3, <3>1, <3>3 DEF WriteNext, Finish, Die, Create, Parse, Add, Encrypt, Decrypt,
                                Encrypt24, Decrypt24, Generate
    <3> QED BY <3>4
  <2> QED BY <2>2, <2>3
<1> QED BY <1>1, <1>2, <1>3 DEF Next

(***************************************************************************)
(* Parser and harness visit the sections of every well-formed file, each   *)
(* with its own bytes, and tell of each what it is by itself: whatever     *)
(* failed before, and wherever the process is killed                       *)
(* (ch15-fileformat/fileformat.c:89-380, 468-544; fuzz_fileformat.c:       *)
(* 58-115).                                                                *)
(***************************************************************************)
THEOREM VisitsInStep == Spec => []SectionsInStep
<1>1. SectionsInv => SectionsInStep
    BY DEF SectionsInv
<1> QED BY <1>1, SectionsInit, SectionsNext, PTL DEF Spec
===============================================================================
