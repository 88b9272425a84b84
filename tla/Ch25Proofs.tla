----------------------------- MODULE Ch25Proofs -----------------------------
(***************************************************************************)
(* Theorems about an archive between the two tools of chapter 25, for all  *)
(* files, names, data, keys, authors and sizes, for every place where a    *)
(* full disk cuts an archive, and every cell that is damaged.  The parts:  *)
(*   - least numbers and sequences;                                        *)
(*   - XOR undoes itself, and so does the transformation of data;          *)
(*   - where each cell of an archive is;                                   *)
(*   - what was written is read, and finds no fault;                       *)
(*   - what was read, of any file, can be written and is read again;       *)
(*   - damage of an archive with a footer is found;                        *)
(*   - the files unpacked are the last records of their names;             *)
(*   - the invariant, and the properties that follow.                      *)
(***************************************************************************)
EXTENDS Ch25Tools, TLAPS

WF == INSTANCE WellFoundedInduction

\* A set of numbers that is not empty has a least one.
LEMMA LeastNumber ==
    ASSUME NEW T \in SUBSET Nat, T # {}
    PROVE  \E x \in T : \A y \in T : x <= y
<1> DEFINE R == WF!OpToRel(<, Nat)
<1>1. R = {ss \in Nat \X Nat : ss[1] < ss[2]}
    BY DEF WF!OpToRel
<1>2. WF!IsWellFoundedOn(R, Nat)
    BY WF!NatLessThanWellFounded
<1> HIDE DEF R
<1>3. PICK x \in T : \A y \in T : ~ (<<y, x>> \in R)
    BY <1>2, WF!WFMin
<1>4. \A y \in T : <<y, x>> \in Nat \X Nat /\ <<y, x>>[1] = y /\ <<y, x>>[2] = x
    OBVIOUS
<1>5. \A y \in T : ~ (y < x)
    BY <1>1, <1>3, <1>4
<1> QED BY <1>5

\* What holds of 0, and of a number when it holds of the one before, holds of every number.
LEMMA Induction ==
    ASSUME NEW T \in SUBSET Nat, 0 \in T, \A n \in T : n + 1 \in T
    PROVE  T = Nat
<1> SUFFICES ASSUME Nat \ T # {} PROVE FALSE
    OBVIOUS
<1>1. PICK n \in Nat \ T : \A m \in Nat \ T : n <= m
    BY LeastNumber
<1>2. n # 0 /\ n - 1 \in Nat /\ n - 1 \notin Nat \ T
    BY <1>1
<1> QED BY <1>2

-----------------------------------------------------------------------------
(***************************************************************************)
(* Sequences.                                                              *)
(***************************************************************************)
LEMMA SequenceIn ==
    ASSUME NEW s, IsSequence(s)
    PROVE  s \in Seq({s[i] : i \in 1..Len(s)})
BY DEF IsSequence

\* The sequences of the library.
LEMMA SequenceOf ==
    ASSUME NEW S, NEW s \in Seq(S)
    PROVE  IsSequence(s)
BY DEF IsSequence

\* A function on 1..n is a sequence.
LEMMA FunctionIs ==
    ASSUME NEW n \in Nat, NEW f, f = [i \in 1..n |-> f[i]]
    PROVE  IsSequence(f) /\ Len(f) = n /\ DOMAIN f = 1..n
<1>1. f \in Seq({f[i] : i \in 1..n}) /\ Len(f) = n
    OBVIOUS
<1> QED BY <1>1 DEF IsSequence

\* Sequences of one length with the same elements are the same.
LEMMA SameSequence ==
    ASSUME NEW s, NEW t, IsSequence(s), IsSequence(t), Len(s) = Len(t),
           \A i \in 1..Len(s) : s[i] = t[i]
    PROVE  s = t
BY DEF IsSequence

LEMMA Concatenated ==
    ASSUME NEW s, NEW t, IsSequence(s), IsSequence(t)
    PROVE  /\ IsSequence(s \o t) /\ Len(s \o t) = Len(s) + Len(t)
           /\ \A i \in 1..Len(s) : (s \o t)[i] = s[i]
           /\ \A i \in 1..Len(t) : (s \o t)[Len(s) + i] = t[i]
<1> DEFINE S == {s[i] : i \in 1..Len(s)} \cup {t[i] : i \in 1..Len(t)}
<1>1. s \in Seq(S) /\ t \in Seq(S)
    BY DEF IsSequence
<1> HIDE DEF S
<1>2. s \o t \in Seq(S)
    BY <1>1
<1>3. IsSequence(s \o t)
    BY <1>2, SequenceOf
<1>4. Len(s) \in Nat /\ Len(t) \in Nat
    BY DEF IsSequence
<1> QED BY <1>1, <1>3, <1>4

\* u is s with t behind it.
Join(u, s, t) ==
    /\ IsSequence(u) /\ Len(s) \in Nat /\ Len(t) \in Nat /\ Len(u) = Len(s) + Len(t)
    /\ \A i \in 1..Len(s) : u[i] = s[i]
    /\ \A i \in 1..Len(t) : u[Len(s) + i] = t[i]

LEMMA Joined ==
    ASSUME NEW s, NEW t, IsSequence(s), IsSequence(t)
    PROVE  Join(s \o t, s, t)
<1>1. Len(s) \in Nat /\ Len(t) \in Nat
    BY DEF IsSequence
<1> QED BY <1>1, Concatenated DEF Join

LEMMA AppendedAt ==
    ASSUME NEW s, NEW e, IsSequence(s)
    PROVE  /\ IsSequence(Append(s, e)) /\ Len(Append(s, e)) = Len(s) + 1
           /\ \A i \in 1..Len(s) : Append(s, e)[i] = s[i]
           /\ Append(s, e)[Len(s) + 1] = e
<1> DEFINE S == {s[i] : i \in 1..Len(s)} \cup {e}
<1>1. s \in Seq(S) /\ e \in S
    BY DEF IsSequence
<1> HIDE DEF S
<1>2. Append(s, e) \in Seq(S)
    BY <1>1
<1>3. IsSequence(Append(s, e))
    BY <1>2, SequenceOf
<1>4. Len(s) \in Nat
    BY DEF IsSequence
<1> QED BY <1>1, <1>3, <1>4

LEMMA Slice ==
    ASSUME NEW s, IsSequence(s), NEW m \in Nat, NEW n \in Nat, 1 <= m, m <= n + 1, n <= Len(s)
    PROVE  /\ IsSequence(SubSeq(s, m, n)) /\ Len(SubSeq(s, m, n)) = n + 1 - m
           /\ \A i \in 1..n + 1 - m : SubSeq(s, m, n)[i] = s[m + i - 1]
<1> DEFINE S == {s[i] : i \in 1..Len(s)}
<1>1. s \in Seq(S)
    BY SequenceIn
<1>4. Len(s) \in Nat
    BY DEF IsSequence
<1> HIDE DEF S
<1>2. SubSeq(s, m, n) \in Seq(S)
    BY <1>1, <1>4
<1>3. IsSequence(SubSeq(s, m, n))
    BY <1>2, SequenceOf
<1>5. SubSeq(s, m, n) = [i \in 1..n + 1 - m |-> s[m + i - 1]]
    BY <1>1, <1>4
<1> QED BY <1>1, <1>3, <1>4, <1>5

LEMMA Beginning ==
    ASSUME NEW s, IsSequence(s), NEW n \in Nat, n <= Len(s)
    PROVE  /\ IsSequence(SubSeq(s, 1, n)) /\ Len(SubSeq(s, 1, n)) = n
           /\ \A i \in 1..n : SubSeq(s, 1, n)[i] = s[i]
<1>1. PICK m \in Nat : m = 1
    OBVIOUS
<1>2. 1 <= m /\ m <= n + 1 /\ n + 1 - m = n
    BY <1>1
<1>3. /\ IsSequence(SubSeq(s, m, n)) /\ Len(SubSeq(s, m, n)) = n + 1 - m
      /\ \A i \in 1..n + 1 - m : SubSeq(s, m, n)[i] = s[m + i - 1]
    BY <1>2, Slice
<1> DEFINE t == SubSeq(s, m, n)
<1> HIDE DEF t
<1>4. IsSequence(t) /\ Len(t) = n /\ \A i \in 1..n : t[i] = s[i]
  <2>1. \A i \in 1..n : m + i - 1 = i
      BY <1>1
  <2> QED BY <1>2, <1>3, <2>1 DEF t
<1> QED BY <1>1, <1>4 DEF t

-----------------------------------------------------------------------------
(***************************************************************************)
(* Xor, by its recursion over the bits.                                    *)
(***************************************************************************)
NextXor(f, w) ==
    [a \in Nat |-> [b \in Nat |->
        IF w = 0 \/ b = 0 THEN a ELSE 2 * f[w - 1][a \div 2][b \div 2] + ((a + b) % 2)]]

\* The recursive function is its definition.
LEMMA XorDefined ==
    \E f : f = [w \in 0..BITS |-> NextXor(f, w)] /\ Xor = f[BITS]
<1> DEFINE Exist(k) == \E f : f = [w \in 0..k |-> NextXor(f, w)]
           T == {k \in Nat : Exist(k)}
<1>1. Exist(0)
  <2> DEFINE f == [w \in 0..0 |-> [a \in Nat |-> [b \in Nat |-> a]]]
  <2>1. f = [w \in 0..0 |-> NextXor(f, w)]
      BY DEF NextXor
  <2> QED BY <2>1
<1>2. ASSUME NEW k \in Nat, Exist(k) PROVE Exist(k + 1)
  <2>1. PICK f : f = [w \in 0..k |-> NextXor(f, w)]
      BY <1>2
  <2> DEFINE g == [w \in 0..k + 1 |-> IF w = k + 1 THEN NextXor(f, w) ELSE f[w]]
  <2>2. \A w \in 0..k : g[w] = f[w]
      OBVIOUS
  <2>3. \A w \in 0..k + 1 : NextXor(g, w) = NextXor(f, w)
      BY <2>2 DEF NextXor
  <2>4. \A w \in 0..k : f[w] = NextXor(f, w)
      BY <2>1
  <2>5. \A w \in 0..k + 1 : g[w] = NextXor(g, w)
      BY <2>2, <2>3, <2>4
  <2>6. g = [w \in 0..k + 1 |-> NextXor(g, w)]
      BY <2>5
  <2> QED BY <2>6
<1> HIDE DEF Exist
<1>3. T = Nat
  <2>1. 0 \in T
      BY <1>1
  <2>2. \A k \in T : k + 1 \in T
      BY <1>2
  <2> HIDE DEF T
  <2>3. T \in SUBSET Nat
      BY DEF T
  <2> QED BY <2>1, <2>2, <2>3, Induction
<1>4. Exist(BITS)
    BY <1>3, FormatAssumption
<1> DEFINE X == CHOOSE f : f = [w \in 0..BITS |-> NextXor(f, w)]
<1>5. X = [w \in 0..BITS |-> NextXor(X, w)]
    BY <1>4 DEF Exist
<1>6. Xor = X[BITS]
    BY DEF Xor, NextXor
<1> QED BY <1>5, <1>6

\* The same number undoes it.
LEMMA XorTwice ==
    \A a, b \in Nat : Xor[a][b] \in Nat /\ Xor[Xor[a][b]][b] = a
<1>1. PICK f : f = [w \in 0..BITS |-> NextXor(f, w)] /\ Xor = f[BITS]
    BY XorDefined
<1>2. \A w \in 0..BITS : f[w] = NextXor(f, w)
    BY <1>1
<1> DEFINE Undone(w) == \A a, b \in Nat : f[w][a][b] \in Nat /\ f[w][f[w][a][b]][b] = a
           T == {w \in Nat : w <= BITS => Undone(w)}
<1>3. \A w \in 0..BITS : \A a, b \in Nat :
         f[w][a][b] = IF w = 0 \/ b = 0 THEN a ELSE 2 * f[w - 1][a \div 2][b \div 2] + ((a + b) % 2)
  <2> TAKE w \in 0..BITS
  <2> TAKE a, b \in Nat
  <2>1. f[w] = NextXor(f, w)
      BY <1>2
  <2>2. NextXor(f, w)[a] =
           [d \in Nat |->
               IF w = 0 \/ d = 0 THEN a ELSE 2 * f[w - 1][a \div 2][d \div 2] + ((a + d) % 2)]
      BY DEF NextXor
  <2> QED BY <2>1, <2>2
<1>4. BITS \in Nat
    BY FormatAssumption
<1>5. Undone(0)
    BY <1>3, <1>4
<1>6. ASSUME NEW w \in Nat, w + 1 <= BITS, Undone(w) PROVE Undone(w + 1)
  <2> SUFFICES ASSUME NEW a \in Nat, NEW b \in Nat
               PROVE  f[w + 1][a][b] \in Nat /\ f[w + 1][f[w + 1][a][b]][b] = a
      OBVIOUS
  <2>0. w + 1 \in 0..BITS /\ w + 1 # 0 /\ (w + 1) - 1 = w
    <3> HIDE DEF Undone
    <3> QED BY <1>4, <1>6
  <2>a. PICK v \in 0..BITS : v = w + 1
      BY <2>0
  <2>b. \A c \in Nat :
           f[v][c][b] = IF v = 0 \/ b = 0 THEN c
                        ELSE 2 * f[v - 1][c \div 2][b \div 2] + ((c + b) % 2)
    <3> TAKE c \in Nat
    <3>1. f[v] = NextXor(f, v)
        BY <1>2
    <3>2. NextXor(f, v)[c] =
             [d \in Nat |->
                 IF v = 0 \/ d = 0 THEN c
                 ELSE 2 * f[v - 1][c \div 2][d \div 2] + ((c + d) % 2)]
        BY DEF NextXor
    <3> QED BY <3>1, <3>2
  <2>1. CASE b = 0
    <3>1. \A c \in Nat : f[v][c][b] = c
        BY <2>1, <2>b, Zenon
    <3> QED BY <2>a, <3>1, Zenon
  <2>2. CASE b # 0
    <3> DEFINE q == f[w][a \div 2][b \div 2]
               r == f[w + 1][a][b]
    <3>1. a \div 2 \in Nat /\ b \div 2 \in Nat
        OBVIOUS
    <3>2. q \in Nat /\ f[w][q][b \div 2] = a \div 2
        BY <3>1, <1>6
    <3>3. \A c \in Nat :
             f[w + 1][c][b] = 2 * f[w][c \div 2][b \div 2] + ((c + b) % 2)
      <4>1. v # 0 /\ v - 1 = w
          BY <2>0, <2>a
      <4>2. \A c \in Nat :
               f[v][c][b] = 2 * f[v - 1][c \div 2][b \div 2] + ((c + b) % 2)
          BY <2>2, <2>b, <4>1, Zenon
      <4> QED BY <2>a, <4>1, <4>2, Zenon
    <3>4. r = 2 * q + ((a + b) % 2)
        BY <3>3
    <3> HIDE DEF q, r
    <3> DEFINE bit == (a + b) % 2
    <3>a. bit \in 0..1 /\ (bit + b) % 2 = a % 2
        OBVIOUS
    <3> HIDE DEF bit
    <3>b. r = 2 * q + bit
        BY <3>4 DEF bit
    <3>c. r \in Nat /\ r \div 2 = q
        BY <3>2, <3>a, <3>b
    <3>d. (r + b) % 2 = (bit + b) % 2
        BY <3>2, <3>a, <3>b
    <3>5. r \in Nat /\ r \div 2 = q /\ (r + b) % 2 = a % 2
        BY <3>a, <3>c, <3>d
    <3>6. f[w + 1][r][b] = 2 * f[w][r \div 2][b \div 2] + ((r + b) % 2)
        BY <3>3, <3>5
    <3>7. f[w + 1][r][b] = 2 * (a \div 2) + (a % 2)
        BY <3>2, <3>5, <3>6
    <3>8. 2 * (a \div 2) + (a % 2) = a
        OBVIOUS
    <3> QED BY <3>5, <3>7, <3>8 DEF r
  <2> QED BY <2>1, <2>2
<1> HIDE DEF Undone
<1>7. T = Nat
  <2>1. 0 \in T
      BY <1>5
  <2>2. \A w \in T : w + 1 \in T
      BY <1>4, <1>6
  <2> QED BY <2>1, <2>2, Induction
<1>8. Undone(BITS)
    BY <1>4, <1>7
<1> QED BY <1>1, <1>8 DEF Undone

-----------------------------------------------------------------------------
(***************************************************************************)
(* xor_transform undoes itself, on data as they are written and on what it *)
(* made of any cells of a file.                                            *)
(***************************************************************************)
KeyAt(i) == XOR_KEY[1 + ((i - 1) % Len(XOR_KEY))]

\* The key repeats for any position.
LEMMA KeyBytes ==
    ASSUME NEW i \in Nat, 1 <= i
    PROVE  KeyAt(i) \in Nat
<1>1. Len(XOR_KEY) \in Nat /\ Len(XOR_KEY) > 0
    BY FormatAssumption
<1>2. (i - 1) % Len(XOR_KEY) \in 0..Len(XOR_KEY) - 1
    BY <1>1
<1>3. 1 + ((i - 1) % Len(XOR_KEY)) \in 1..Len(XOR_KEY)
    BY <1>1, <1>2
<1> QED BY <1>3, FormatAssumption DEF KeyAt

\* A byte, transformed twice with one key, is what it was.
LEMMA ByteTwice ==
    ASSUME NEW n \in Nat, NEW key \in Nat
    PROVE  /\ IsCell(XorCell(Byte(n), key)) /\ XorCell(Byte(n), key)[1] = "byte"
           /\ XorCell(XorCell(Byte(n), key), key) = Byte(n)
<1>1. XorCell(Byte(n), key) = Byte(Xor[n][key])
    BY DEF XorCell, Byte
<1>2. Xor[n][key] \in Nat /\ Xor[Xor[n][key]][key] = n
    BY XorTwice
<1>3. XorCell(Byte(Xor[n][key]), key) = Byte(Xor[Xor[n][key]][key])
    BY DEF XorCell, Byte
<1> QED BY <1>1, <1>2, <1>3 DEF IsCell, Byte, Kinds

\* Of any cell, so is what it was transformed to.
LEMMA CellTwice ==
    ASSUME NEW c, IsCell(c), NEW key \in Nat
    PROVE  XorCell(XorCell(XorCell(c, key), key), key) = XorCell(c, key)
<1>1. CASE c[1] = "byte"
  <2>1. c = Byte(c[2]) /\ c[2] \in Nat
      BY <1>1 DEF IsCell, Byte
  <2> QED BY <2>1, ByteTwice
<1>2. CASE c[1] # "byte"
  <2>1. c[1] # "transformed"
      BY DEF IsCell, Kinds
  <2> DEFINE d == <<"transformed", <<c, key>>>>
  <2>2. XorCell(c, key) = d
      BY <1>2, <2>1 DEF XorCell
  <2>3. d[1] = "transformed" /\ d[2] = <<c, key>>
      OBVIOUS
  <2>4. d[2][1] = c /\ d[2][2] = key
      BY <2>3
  <2> HIDE DEF d
  <2>5. XorCell(d, key) = c
      BY <2>3, <2>4 DEF XorCell
  <2> QED BY <2>2, <2>5
<1> QED BY <1>1, <1>2

LEMMA Transformed ==
    ASSUME NEW data, IsSequence(data)
    PROVE  /\ IsSequence(XorTransform(data)) /\ Len(XorTransform(data)) = Len(data)
           /\ \A i \in 1..Len(data) : XorTransform(data)[i] = XorCell(data[i], KeyAt(i))
<1>1. Len(data) \in Nat /\ DOMAIN data = 1..Len(data)
    BY DEF IsSequence
<1>2. XorTransform(data) = [i \in 1..Len(data) |-> XorCell(data[i], KeyAt(i))]
    BY <1>1 DEF XorTransform, KeyAt
<1> DEFINE f == [i \in 1..Len(data) |-> XorCell(data[i], KeyAt(i))]
<1>3. f = [i \in 1..Len(data) |-> f[i]]
    OBVIOUS
<1>4. \A i \in 1..Len(data) : f[i] = XorCell(data[i], KeyAt(i))
    OBVIOUS
<1> HIDE DEF f
<1>5. IsSequence(f) /\ Len(f) = Len(data)
    BY <1>1, <1>3, FunctionIs
<1> QED BY <1>2, <1>4, <1>5 DEF f

LEMMA DataTwice ==
    ASSUME NEW data, IsData(data)
    PROVE  XorTransform(XorTransform(data)) = data
<1> DEFINE once == XorTransform(data)
           twice == XorTransform(once)
<1>1. IsSequence(data) /\ Len(data) \in Nat /\ DOMAIN data = 1..Len(data)
    BY DEF IsData, IsSequence
<1>2. /\ IsSequence(once) /\ Len(once) = Len(data)
      /\ \A i \in 1..Len(data) : once[i] = XorCell(data[i], KeyAt(i))
    BY <1>1, Transformed
<1> HIDE DEF once
<1>3. /\ IsSequence(twice) /\ Len(twice) = Len(data)
      /\ \A i \in 1..Len(data) : twice[i] = XorCell(once[i], KeyAt(i))
    BY <1>2, Transformed
<1> HIDE DEF twice
<1>4. ASSUME NEW i \in 1..Len(data) PROVE twice[i] = data[i]
  <2>1. data[i] = Byte(data[i][2]) /\ data[i][2] \in Nat
      BY <1>1 DEF IsData
  <2>2. KeyAt(i) \in Nat
      BY <1>1, KeyBytes
  <2>3. XorCell(XorCell(data[i], KeyAt(i)), KeyAt(i)) = data[i]
      BY <2>1, <2>2, ByteTwice
  <2> QED BY <1>2, <1>3, <2>3
<1>5. twice = data
    BY <1>1, <1>3, <1>4, SameSequence
<1> QED BY <1>5 DEF twice, once

LEMMA ReadTwice ==
    ASSUME NEW raw, IsSequence(raw), \A i \in 1..Len(raw) : IsCell(raw[i])
    PROVE  XorTransform(XorTransform(XorTransform(raw))) = XorTransform(raw)
<1> DEFINE once == XorTransform(raw)
           twice == XorTransform(once)
           thrice == XorTransform(twice)
<1>1. Len(raw) \in Nat
    BY DEF IsSequence
<1>2. /\ IsSequence(once) /\ Len(once) = Len(raw)
      /\ \A i \in 1..Len(raw) : once[i] = XorCell(raw[i], KeyAt(i))
    BY Transformed
<1> HIDE DEF once
<1>3. /\ IsSequence(twice) /\ Len(twice) = Len(raw)
      /\ \A i \in 1..Len(raw) : twice[i] = XorCell(once[i], KeyAt(i))
    BY <1>2, Transformed
<1> HIDE DEF twice
<1>4. /\ IsSequence(thrice) /\ Len(thrice) = Len(raw)
      /\ \A i \in 1..Len(raw) : thrice[i] = XorCell(twice[i], KeyAt(i))
    BY <1>3, Transformed
<1> HIDE DEF thrice
<1>5. ASSUME NEW i \in 1..Len(raw) PROVE thrice[i] = once[i]
  <2>1. KeyAt(i) \in Nat
      BY <1>1, KeyBytes
  <2>2. XorCell(XorCell(XorCell(raw[i], KeyAt(i)), KeyAt(i)), KeyAt(i)) = XorCell(raw[i], KeyAt(i))
      BY <2>1, CellTwice
  <2> QED BY <1>2, <1>3, <1>4, <2>2
<1>6. thrice = once
    BY <1>2, <1>4, <1>5, SameSequence
<1> QED BY <1>6 DEF thrice, twice, once

-----------------------------------------------------------------------------
(***************************************************************************)
(* What the writers put into the file.                                     *)
(***************************************************************************)

\* A record that can be written and read back.
Writable(r, flags) ==
    /\ IsSequence(r.name) /\ IsSequence(r.data) /\ r.data_len = Len(r.data)
    /\ "xor" \in flags => XorTransform(XorTransform(r.data)) = r.data

StoredData(r, flags) == IF "xor" \in flags THEN XorTransform(r.data) ELSE r.data

LEMMA DataStored ==
    ASSUME NEW r, NEW flags, Writable(r, flags)
    PROVE  IsSequence(StoredData(r, flags)) /\ Len(StoredData(r, flags)) = Len(r.data)
BY Transformed DEF StoredData, Writable

IsRecord(rec, r, flags, nlen, dlen) ==
    /\ IsSequence(rec) /\ Len(rec) = 4 + nlen + dlen + 1
    /\ rec[1] = Num(r.type) /\ rec[2] = Num(r.flags)
    /\ rec[3] = Num(nlen) /\ rec[4] = Num(dlen)
    /\ \A i \in 1..nlen : rec[4 + i] = r.name[i]
    /\ \A i \in 1..dlen : rec[4 + nlen + i] = StoredData(r, flags)[i]
    /\ rec[4 + nlen + dlen + 1] = Crc16(r.name \o r.data)

\* The cells of a record, each at its place.
LEMMA RecordCells ==
    ASSUME NEW r, NEW flags, Writable(r, flags)
    PROVE  /\ Len(r.name) \in Nat /\ Len(r.data) \in Nat
           /\ IsRecord(Record(r, flags), r, flags, Len(r.name), Len(r.data))
<1> DEFINE head == <<Num(r.type), Num(r.flags), Num(Len(r.name)), Num(Len(r.data))>>
           name == r.name
           data == StoredData(r, flags)
           crc == <<Crc16(r.name \o r.data)>>
           a == head \o name
           b == a \o data
<1>1. IsSequence(head) /\ Len(head) = 4 /\ IsSequence(crc) /\ Len(crc) = 1
    BY DEF IsSequence
<1>2. /\ head[1] = Num(r.type) /\ head[2] = Num(r.flags)
      /\ head[3] = Num(Len(r.name)) /\ head[4] = Num(Len(r.data))
      /\ crc[1] = Crc16(r.name \o r.data)
    OBVIOUS
<1>3. IsSequence(name) /\ IsSequence(data) /\ Len(data) = Len(r.data)
    BY DataStored DEF Writable
<1>4. Len(r.name) \in Nat /\ Len(r.data) \in Nat
    BY DEF Writable, IsSequence
<1>5. Record(r, flags) = b \o crc
    BY DEF Record, StoredData
<1> HIDE DEF head, data, crc
<1> DEFINE rec == b \o crc
<1>a. Join(a, head, name)
    BY <1>1, <1>3, Joined
<1> HIDE DEF a
<1>aa. IsSequence(a)
    BY <1>a DEF Join
<1>b. Join(b, a, data)
    BY <1>aa, <1>3, Joined
<1> HIDE DEF b
<1>bb. IsSequence(b)
    BY <1>b DEF Join
<1>c. Join(rec, b, crc)
    BY <1>bb, <1>1, Joined
<1> HIDE DEF rec
<1>n. PICK nlen \in Nat, dlen \in Nat : nlen = Len(r.name) /\ dlen = Len(r.data)
    BY <1>4
<1>6. Len(a) = 4 + nlen
    BY <1>1, <1>n, <1>a DEF Join
<1>7. Len(b) = 4 + nlen + dlen
    BY <1>3, <1>n, <1>6, <1>b DEF Join
<1>8. /\ IsSequence(rec) /\ Len(rec) = 4 + nlen + dlen + 1
      /\ rec[4 + nlen + dlen + 1] = crc[1]
  <2>1. 1 \in 1..Len(crc)
      BY <1>1
  <2> QED BY <1>1, <1>7, <1>c, <2>1 DEF Join
<1>9. \A i \in 1..4 : rec[i] = head[i]
  <2> TAKE i \in 1..4
  <2>1. i \in 1..Len(head) /\ i \in 1..Len(a) /\ i \in 1..Len(b)
      BY <1>1, <1>6, <1>7
  <2> QED BY <2>1, <1>a, <1>b, <1>c DEF Join
<1>10. \A i \in 1..nlen : rec[4 + i] = r.name[i]
  <2> TAKE i \in 1..nlen
  <2>1. 4 + i \in 1..Len(a) /\ 4 + i \in 1..Len(b)
      BY <1>6, <1>7
  <2>2. a[4 + i] = name[i]
      BY <1>1, <1>n, <1>a DEF Join
  <2>3. b[4 + i] = a[4 + i] /\ rec[4 + i] = b[4 + i]
      BY <2>1, <1>b, <1>c DEF Join
  <2> QED BY <1>n, <2>2, <2>3
<1>11. \A i \in 1..dlen : rec[4 + nlen + i] = data[i]
  <2> TAKE i \in 1..dlen
  <2>1. 4 + nlen + i \in 1..Len(b)
      BY <1>7
  <2>2. i \in 1..Len(data)
      BY <1>n, <1>3
  <2>3. b[4 + nlen + i] = data[i]
      BY <2>2, <1>6, <1>b DEF Join
  <2> QED BY <2>1, <2>3, <1>c DEF Join
<1>12. /\ rec[1] = Num(r.type) /\ rec[2] = Num(r.flags)
       /\ rec[3] = Num(Len(r.name)) /\ rec[4] = Num(Len(r.data))
    BY <1>2, <1>9
<1>13. rec = Record(r, flags)
    BY <1>5 DEF rec
<1> HIDE DEF data
<1>14. IsRecord(rec, r, flags, nlen, dlen)
  <2>1. \A i \in 1..dlen : rec[4 + nlen + i] = StoredData(r, flags)[i]
      BY <1>11 DEF data
  <2>2. rec[4 + nlen + dlen + 1] = Crc16(r.name \o r.data)
      BY <1>2, <1>8
  <2>3. Num(Len(r.name)) = Num(nlen) /\ Num(Len(r.data)) = Num(dlen)
      BY <1>n
  <2> QED BY <1>8, <1>10, <1>12, <2>1, <2>2, <2>3 DEF IsRecord
<1> QED BY <1>4, <1>n, <1>13, <1>14

LEMMA RecordLength ==
    ASSUME NEW r, NEW flags, Writable(r, flags)
    PROVE  IsSequence(Record(r, flags))
<1> DEFINE rec == Record(r, flags)
<1>1. IsRecord(rec, r, flags, Len(r.name), Len(r.data))
    BY RecordCells
<1> HIDE DEF rec
<1>2. IsSequence(rec)
    BY <1>1 DEF IsRecord
<1> QED BY <1>2 DEF rec

IsHeader(header, recs, flags, author) ==
    /\ IsSequence(header) /\ Len(header) = 8
    /\ header[1] = Mark("CFRM") /\ header[2] = Num(2) /\ header[3] = Flags(flags)
    /\ header[4] = Num(Len(recs)) /\ header[5] = Num(0)
    /\ header[6] = Crc32(<<header[1], header[2], header[3], header[4], header[5]>>)
    /\ header[7] = Author(author) /\ header[8] = Num(XorOfLengths(recs))

\* The cells of a header.
LEMMA HeaderCells ==
    ASSUME NEW recs, NEW flags, NEW author
    PROVE  IsHeader(Header(recs, flags, author), recs, flags, author)
<1> DEFINE first == <<Mark("CFRM"), Num(2), Flags(flags), Num(Len(recs)), Num(0)>>
           second == <<Crc32(first), Author(author), Num(XorOfLengths(recs))>>
           header == Header(recs, flags, author)
<1>1. header = first \o second
    BY DEF Header
<1>2. IsSequence(first) /\ Len(first) = 5 /\ IsSequence(second) /\ Len(second) = 3
    BY DEF IsSequence
<1>3. /\ IsSequence(header) /\ Len(header) = 8
      /\ \A i \in 1..5 : header[i] = first[i]
      /\ \A i \in 1..3 : header[5 + i] = second[i]
  <2> HIDE DEF first, second, header
  <2>1. Join(header, first, second)
      BY <1>1, <1>2, Joined
  <2> QED BY <1>2, <2>1 DEF Join
<1> HIDE DEF header
<1>4. /\ header[1] = first[1] /\ header[2] = first[2] /\ header[3] = first[3]
      /\ header[4] = first[4] /\ header[5] = first[5]
      /\ header[6] = second[1] /\ header[7] = second[2] /\ header[8] = second[3]
  <2> HIDE DEF first, second
  <2>1. header[5 + 1] = second[1] /\ header[5 + 2] = second[2] /\ header[5 + 3] = second[3]
      BY <1>3
  <2> QED BY <1>3, <2>1
<1>5. first = <<header[1], header[2], header[3], header[4], header[5]>>
    BY <1>4
<1>6. second[1] = Crc32(<<header[1], header[2], header[3], header[4], header[5]>>)
    BY <1>5
<1> QED BY <1>3, <1>4, <1>6 DEF header, IsHeader

LEMMA HeaderLength ==
    ASSUME NEW recs, NEW flags, NEW author
    PROVE  IsSequence(Header(recs, flags, author)) /\ Len(Header(recs, flags, author)) = 8
<1> DEFINE header == Header(recs, flags, author)
<1>1. IsHeader(header, recs, flags, author)
    BY HeaderCells
<1> HIDE DEF header
<1>2. IsSequence(header) /\ Len(header) = 8
    BY <1>1 DEF IsHeader
<1> QED BY <1>2 DEF header

NextStored(recs, flags, f, n) == IF n = 0 THEN <<>> ELSE f[n - 1] \o Record(recs[n], flags)

\* The recursive function is its definition.
LEMMA StoredDefined ==
    ASSUME NEW recs, Len(recs) \in Nat, NEW flags
    PROVE  Stored(recs, flags) = [n \in 0..Len(recs) |-> NextStored(recs, flags, Stored(recs, flags), n)]
<1> DEFINE Exist(k) == \E f : f = [n \in 0..k |-> NextStored(recs, flags, f, n)]
           T == {k \in Nat : Exist(k)}
<1>1. Exist(0)
  <2> DEFINE f == [n \in 0..0 |-> <<>>]
  <2>1. f = [n \in 0..0 |-> NextStored(recs, flags, f, n)]
      BY DEF NextStored
  <2> QED BY <2>1
<1>2. ASSUME NEW k \in Nat, Exist(k) PROVE Exist(k + 1)
  <2>1. PICK f : f = [n \in 0..k |-> NextStored(recs, flags, f, n)]
      BY <1>2
  <2> DEFINE g == [n \in 0..k + 1 |-> IF n = k + 1 THEN NextStored(recs, flags, f, n) ELSE f[n]]
  <2>2. \A n \in 0..k : g[n] = f[n]
      OBVIOUS
  <2>3. \A n \in 0..k + 1 : NextStored(recs, flags, g, n) = NextStored(recs, flags, f, n)
      BY <2>2 DEF NextStored
  <2>4. \A n \in 0..k : f[n] = NextStored(recs, flags, f, n)
      BY <2>1
  <2>5. \A n \in 0..k + 1 : g[n] = NextStored(recs, flags, g, n)
      BY <2>2, <2>3, <2>4
  <2>6. g = [n \in 0..k + 1 |-> NextStored(recs, flags, g, n)]
      BY <2>5
  <2> QED BY <2>6
<1> HIDE DEF Exist
<1>3. T = Nat
  <2>1. 0 \in T
      BY <1>1
  <2>2. \A k \in T : k + 1 \in T
      BY <1>2
  <2> HIDE DEF T
  <2>3. T \in SUBSET Nat
      BY DEF T
  <2> QED BY <2>1, <2>2, <2>3, Induction
<1>4. Exist(Len(recs))
    BY <1>3
<1> QED BY <1>4 DEF Exist, Stored, NextStored

LEMMA StoredNext ==
    ASSUME NEW recs, Len(recs) \in Nat, NEW flags
    PROVE  /\ Stored(recs, flags)[0] = <<>>
           /\ \A n \in 1..Len(recs) :
                 Stored(recs, flags)[n] = Stored(recs, flags)[n - 1] \o Record(recs[n], flags)
<1> DEFINE f == Stored(recs, flags)
<1>1. f = [n \in 0..Len(recs) |-> NextStored(recs, flags, f, n)]
    BY StoredDefined
<1> HIDE DEF f
<1>2. \A n \in 0..Len(recs) : f[n] = NextStored(recs, flags, f, n)
    BY <1>1
<1>3. f[0] = <<>>
    BY <1>2 DEF NextStored
<1>4. \A n \in 1..Len(recs) : f[n] = f[n - 1] \o Record(recs[n], flags)
  <2> TAKE n \in 1..Len(recs)
  <2>1. n \in 0..Len(recs) /\ n # 0
      OBVIOUS
  <2>2. f[n] = NextStored(recs, flags, f, n)
      BY <1>2, <2>1
  <2> QED BY <2>1, <2>2 DEF NextStored
<1> QED BY <1>3, <1>4 DEF f

\* Records that can be written and read back.
AllWritable(recs, flags) ==
    /\ IsSequence(recs) /\ Len(recs) \in Nat
    /\ \A i \in 1..Len(recs) : Writable(recs[i], flags)

LEMMA StoredSequence ==
    ASSUME NEW recs, NEW flags, AllWritable(recs, flags)
    PROVE  \A n \in 0..Len(recs) : IsSequence(Stored(recs, flags)[n])
<1> DEFINE f == Stored(recs, flags)
           T == {n \in Nat : n <= Len(recs) => IsSequence(f[n])}
<1>1. Len(recs) \in Nat
    BY DEF AllWritable
<1>2. f[0] = <<>> /\ \A n \in 1..Len(recs) : f[n] = f[n - 1] \o Record(recs[n], flags)
    BY <1>1, StoredNext
<1> HIDE DEF f
<1>3. 0 \in T
    BY <1>2 DEF IsSequence
<1>4. ASSUME NEW n \in T PROVE n + 1 \in T
  <2>1. SUFFICES ASSUME n + 1 <= Len(recs) PROVE IsSequence(f[n + 1])
      OBVIOUS
  <2>2. n + 1 \in 1..Len(recs) /\ (n + 1) - 1 = n /\ IsSequence(f[n])
      BY <1>1, <2>1
  <2>3. f[n + 1] = f[n] \o Record(recs[n + 1], flags)
      BY <1>2, <2>2
  <2>4. IsSequence(Record(recs[n + 1], flags))
      BY <2>2, RecordLength DEF AllWritable
  <2> QED BY <2>2, <2>3, <2>4, Joined DEF Join
<1>5. T = Nat
  <2> HIDE DEF T
  <2>1. T \in SUBSET Nat
      BY DEF T
  <2> QED BY <1>3, <1>4, <2>1, Induction
<1> QED BY <1>1, <1>5 DEF f

LEMMA StoredJoin ==
    ASSUME NEW recs, NEW flags, AllWritable(recs, flags), NEW n \in 1..Len(recs)
    PROVE  Join(Stored(recs, flags)[n], Stored(recs, flags)[n - 1], Record(recs[n], flags))
<1>1. Len(recs) \in Nat
    BY DEF AllWritable
<1>2. n - 1 \in 0..Len(recs)
    BY <1>1
<1>3. IsSequence(Stored(recs, flags)[n - 1])
    BY <1>2, StoredSequence
<1>4. IsSequence(Record(recs[n], flags))
    BY RecordLength DEF AllWritable
<1>5. Stored(recs, flags)[n] = Stored(recs, flags)[n - 1] \o Record(recs[n], flags)
    BY <1>1, StoredNext
<1> QED BY <1>3, <1>4, <1>5, Joined

\* s is the beginning of u.
Begins(s, u) ==
    /\ IsSequence(s) /\ IsSequence(u) /\ Len(s) <= Len(u)
    /\ \A i \in 1..Len(s) : u[i] = s[i]

LEMMA BeginsJoin ==
    ASSUME NEW s, NEW t, NEW r, NEW u, Begins(s, t), Join(u, t, r)
    PROVE  Begins(s, u)
<1>1. PICK m \in Nat, n \in Nat, l \in Nat : m = Len(s) /\ n = Len(t) /\ l = Len(u)
    BY DEF Begins, Join, IsSequence
<1>2. m <= n /\ n <= l
    BY <1>1 DEF Begins, Join
<1>3. \A i \in 1..m : i \in 1..n
    BY <1>2
<1>4. \A i \in 1..m : u[i] = t[i] /\ t[i] = s[i]
    BY <1>1, <1>3 DEF Begins, Join
<1> QED BY <1>1, <1>2, <1>4 DEF Begins, Join

\* The first n records are the beginning of all.
LEMMA StoredBegins ==
    ASSUME NEW recs, NEW flags, AllWritable(recs, flags), NEW n \in 0..Len(recs)
    PROVE  Begins(Stored(recs, flags)[n], Stored(recs, flags)[Len(recs)])
<1> DEFINE f == Stored(recs, flags)
           T == {m \in Nat : n + m <= Len(recs) => Begins(f[n], f[n + m])}
<1>1. Len(recs) \in Nat /\ n \in Nat
    BY DEF AllWritable
<1>2. \A k \in 0..Len(recs) : IsSequence(f[k])
    BY StoredSequence
<1>3. 0 \in T
  <2>1. IsSequence(f[n]) /\ Len(f[n]) \in Nat /\ n + 0 = n
      BY <1>1, <1>2 DEF IsSequence
  <2> HIDE DEF f
  <2> QED BY <2>1 DEF Begins
<1>4. ASSUME NEW m \in T PROVE m + 1 \in T
  <2>1. SUFFICES ASSUME n + (m + 1) <= Len(recs) PROVE Begins(f[n], f[n + (m + 1)])
      OBVIOUS
  <2>2. n + (m + 1) \in 1..Len(recs) /\ (n + (m + 1)) - 1 = n + m /\ n + m <= Len(recs)
      BY <1>1, <2>1
  <2>3. Begins(f[n], f[n + m])
      BY <2>2
  <2>4. Join(f[n + (m + 1)], f[n + m], Record(recs[n + (m + 1)], flags))
      BY <2>2, StoredJoin
  <2> QED BY <2>3, <2>4, BeginsJoin
<1>5. T = Nat
  <2> HIDE DEF T
  <2>1. T \in SUBSET Nat
      BY DEF T
  <2> QED BY <1>3, <1>4, <2>1, Induction
<1>6. Len(recs) - n \in Nat /\ n + (Len(recs) - n) = Len(recs)
    BY <1>1
<1>7. Len(recs) - n \in T
    BY <1>5, <1>6
<1> QED BY <1>1, <1>6, <1>7

LEMMA PayloadCells ==
    ASSUME NEW recs, NEW flags, NEW author, AllWritable(recs, flags)
    PROVE  Join(Payload(recs, flags, author), Header(recs, flags, author),
                Stored(recs, flags)[Len(recs)])
<1>1. IsSequence(Header(recs, flags, author))
    BY HeaderLength
<1>2. Len(recs) \in 0..Len(recs)
    BY DEF AllWritable
<1>3. IsSequence(Stored(recs, flags)[Len(recs)])
    BY <1>2, StoredSequence
<1> QED BY <1>1, <1>3, Joined DEF Payload

\* Where record n ends.
End(recs, flags, n) == 8 + Len(Stored(recs, flags)[n])

LEMMA RecordsEnd ==
    ASSUME NEW recs, NEW flags, NEW author, AllWritable(recs, flags),
           NEW cells, Begins(Payload(recs, flags, author), cells)
    PROVE  /\ Len(recs) \in Nat /\ Len(cells) \in Nat
           /\ \A n \in 0..Len(recs) :
                 End(recs, flags, n) \in Nat /\ 8 <= End(recs, flags, n)
           /\ End(recs, flags, 0) = 8
           /\ End(recs, flags, Len(recs)) = Len(Payload(recs, flags, author))
           /\ Len(Payload(recs, flags, author)) <= Len(cells)
<1>1. Len(recs) \in Nat /\ Len(cells) \in Nat
    BY DEF AllWritable, Begins, IsSequence
<1>2. \A n \in 0..Len(recs) : Len(Stored(recs, flags)[n]) \in Nat
    BY StoredSequence DEF IsSequence
<1>3. Stored(recs, flags)[0] = <<>>
    BY <1>1, StoredNext
<1>4. Len(Header(recs, flags, author)) = 8
    BY HeaderLength
<1>5. Len(Payload(recs, flags, author)) = 8 + Len(Stored(recs, flags)[Len(recs)])
  <2>1. Join(Payload(recs, flags, author), Header(recs, flags, author),
             Stored(recs, flags)[Len(recs)])
      BY PayloadCells
  <2> QED BY <1>4, <2>1 DEF Join
<1>6. Len(Payload(recs, flags, author)) <= Len(cells)
    BY DEF Begins
<1> QED BY <1>1, <1>2, <1>3, <1>5, <1>6 DEF End

\* Record n lies between the ends of n - 1 and n in every file the payload begins.
LEMMA RecordAt ==
    ASSUME NEW recs, NEW flags, NEW author, AllWritable(recs, flags),
           NEW cells, Begins(Payload(recs, flags, author), cells), NEW n \in 1..Len(recs)
    PROVE  LET rec == Record(recs[n], flags)
           IN  /\ Len(rec) \in Nat /\ n - 1 \in 0..Len(recs)
               /\ End(recs, flags, n) = End(recs, flags, n - 1) + Len(rec)
               /\ End(recs, flags, n) <= Len(cells)
               /\ \A i \in 1..Len(rec) : cells[End(recs, flags, n - 1) + i] = rec[i]
<1> DEFINE header == Header(recs, flags, author)
           payload == Payload(recs, flags, author)
           stored == Stored(recs, flags)
           rec == Record(recs[n], flags)
<1>1. Len(recs) \in Nat
    BY DEF AllWritable
<1>2. n \in 0..Len(recs) /\ n - 1 \in 0..Len(recs)
    BY <1>1
<1>3. Join(payload, header, stored[Len(recs)]) /\ Len(header) = 8
  <2>1. Len(header) = 8
      BY HeaderLength
  <2> HIDE DEF header
  <2> QED BY <2>1, PayloadCells DEF header
<1>4. Begins(stored[n], stored[Len(recs)])
    BY <1>2, StoredBegins
<1>5. Join(stored[n], stored[n - 1], rec)
    BY StoredJoin
<1> HIDE DEF header, payload, rec, stored
<1>6. PICK s \in Nat, e \in Nat, all \in Nat, l \in Nat, p \in Nat :
         /\ s = Len(stored[n - 1]) /\ e = Len(stored[n]) /\ all = Len(stored[Len(recs)])
         /\ l = Len(rec) /\ p = Len(payload)
    BY <1>3, <1>4, <1>5 DEF Join, Begins, IsSequence
<1>7. e = s + l /\ e <= all /\ p = 8 + all /\ p <= Len(cells) /\ Len(cells) \in Nat
    BY <1>3, <1>4, <1>5, <1>6 DEF Join, Begins, IsSequence, payload
<1>8. ASSUME NEW i \in 1..l PROVE cells[(8 + s) + i] = rec[i]
  <2>1. s + i \in 1..e /\ s + i \in 1..all /\ 8 + (s + i) \in 1..p /\ 8 + (s + i) = (8 + s) + i
      BY <1>7
  <2>2. stored[n][s + i] = rec[i]
      BY <1>5, <1>6 DEF Join
  <2>3. stored[Len(recs)][s + i] = stored[n][s + i]
      BY <1>4, <1>6, <2>1 DEF Begins
  <2>4. payload[8 + (s + i)] = stored[Len(recs)][s + i]
      BY <1>3, <1>6, <2>1 DEF Join
  <2>5. cells[8 + (s + i)] = payload[8 + (s + i)]
      BY <1>6, <2>1 DEF Begins, payload
  <2> QED BY <2>1, <2>2, <2>3, <2>4, <2>5
<1>9. End(recs, flags, n) = 8 + e /\ End(recs, flags, n - 1) = 8 + s
    BY <1>6 DEF End, stored
<1>10. 8 + e = (8 + s) + l /\ 8 + e <= Len(cells)
    BY <1>7
<1> QED BY <1>2, <1>6, <1>8, <1>9, <1>10 DEF rec

-----------------------------------------------------------------------------
(***************************************************************************)
(* What the readers find.                                                  *)
(***************************************************************************)
NextWalk(cells, f, n) ==
    IF n = 0 THEN [ok |-> TRUE, pos |-> HEADER_SIZE, recs |-> <<>>] ELSE ReadRecord(cells, f[n - 1])

\* The recursive function is its definition.
LEMMA WalkDefined ==
    ASSUME NEW cells, NumRecords(cells) \in Nat
    PROVE  Walk(cells) = [n \in 0..NumRecords(cells) |-> NextWalk(cells, Walk(cells), n)]
<1> DEFINE Exist(k) == \E f : f = [n \in 0..k |-> NextWalk(cells, f, n)]
           T == {k \in Nat : Exist(k)}
<1>1. Exist(0)
  <2> DEFINE f == [n \in 0..0 |-> [ok |-> TRUE, pos |-> HEADER_SIZE, recs |-> <<>>]]
  <2>1. f = [n \in 0..0 |-> NextWalk(cells, f, n)]
      BY DEF NextWalk
  <2> QED BY <2>1
<1>2. ASSUME NEW k \in Nat, Exist(k) PROVE Exist(k + 1)
  <2>1. PICK f : f = [n \in 0..k |-> NextWalk(cells, f, n)]
      BY <1>2
  <2> DEFINE g == [n \in 0..k + 1 |-> IF n = k + 1 THEN NextWalk(cells, f, n) ELSE f[n]]
  <2>2. \A n \in 0..k : g[n] = f[n]
      OBVIOUS
  <2>3. \A n \in 0..k + 1 : NextWalk(cells, g, n) = NextWalk(cells, f, n)
      BY <2>2 DEF NextWalk
  <2>4. \A n \in 0..k : f[n] = NextWalk(cells, f, n)
      BY <2>1
  <2>5. \A n \in 0..k + 1 : g[n] = NextWalk(cells, g, n)
      BY <2>2, <2>3, <2>4
  <2>6. g = [n \in 0..k + 1 |-> NextWalk(cells, g, n)]
      BY <2>5
  <2> QED BY <2>6
<1> HIDE DEF Exist
<1>3. T = Nat
  <2>1. 0 \in T
      BY <1>1
  <2>2. \A k \in T : k + 1 \in T
      BY <1>2
  <2> HIDE DEF T
  <2>3. T \in SUBSET Nat
      BY DEF T
  <2> QED BY <2>1, <2>2, <2>3, Induction
<1>4. Exist(NumRecords(cells))
    BY <1>3
<1> QED BY <1>4 DEF Exist, Walk, NextWalk

LEMMA WalkNext ==
    ASSUME NEW cells, NumRecords(cells) \in Nat
    PROVE  /\ Walk(cells)[0] = [ok |-> TRUE, pos |-> HEADER_SIZE, recs |-> <<>>]
           /\ \A n \in 1..NumRecords(cells) :
                 Walk(cells)[n] = ReadRecord(cells, Walk(cells)[n - 1])
<1> DEFINE f == Walk(cells)
<1>1. f = [n \in 0..NumRecords(cells) |-> NextWalk(cells, f, n)]
    BY WalkDefined
<1> HIDE DEF f
<1>2. \A n \in 0..NumRecords(cells) : f[n] = NextWalk(cells, f, n)
    BY <1>1
<1>3. f[0] = [ok |-> TRUE, pos |-> HEADER_SIZE, recs |-> <<>>]
  <2>1. f[0] = NextWalk(cells, f, 0)
      BY <1>2
  <2> QED BY <2>1 DEF NextWalk
<1>4. \A n \in 1..NumRecords(cells) : f[n] = ReadRecord(cells, f[n - 1])
  <2> TAKE n \in 1..NumRecords(cells)
  <2>1. n \in 0..NumRecords(cells) /\ n # 0
      OBVIOUS
  <2>2. f[n] = NextWalk(cells, f, n)
      BY <1>2, <2>1
  <2> QED BY <2>1, <2>2 DEF NextWalk
<1> QED BY <1>3, <1>4 DEF f

\* A record as the readers give it back.
ReadBack(r) ==
    [type |-> r.type, flags |-> r.flags, name |-> r.name, data |-> r.data,
     data_len |-> r.data_len, stored_crc |-> Crc16(r.name \o r.data)]

\* The cells of rec come next.
IsBefore(cells, walk, rec) ==
    /\ walk.ok = TRUE /\ walk.pos \in Nat /\ walk.pos + Len(rec) <= Len(cells)
    /\ \A i \in 1..Len(rec) : cells[walk.pos + i] = rec[i]

\* A record is read as it was written.
LEMMA ReadOne ==
    ASSUME NEW r, NEW flags, Writable(r, flags), NEW cells, IsSequence(cells),
           HeaderFlags(cells) = flags,
           NEW walk, IsBefore(cells, walk, Record(r, flags))
    PROVE  ReadRecord(cells, walk) =
              [ok |-> TRUE, pos |-> walk.pos + Len(Record(r, flags)),
               recs |-> Append(walk.recs, ReadBack(r))]
<1> DEFINE rec == Record(r, flags)
<1>0. /\ walk.ok = TRUE /\ walk.pos \in Nat /\ walk.pos + Len(rec) <= Len(cells)
      /\ \A i \in 1..Len(rec) : cells[walk.pos + i] = rec[i]
    BY DEF IsBefore
<1>1. PICK nlen \in Nat, dlen \in Nat, p \in Nat :
         nlen = Len(r.name) /\ dlen = Len(r.data) /\ p = walk.pos
    BY <1>0 DEF Writable, IsSequence
<1>a. IsRecord(rec, r, flags, nlen, dlen)
    BY <1>1, RecordCells
<1>3. /\ p + Len(rec) <= Len(cells)
      /\ \A i \in 1..Len(rec) : cells[p + i] = rec[i]
    BY <1>0, <1>1
<1> HIDE DEF rec
<1>2. /\ IsSequence(rec) /\ Len(rec) = 4 + nlen + dlen + 1
      /\ rec[1] = Num(r.type) /\ rec[2] = Num(r.flags)
      /\ rec[3] = Num(nlen) /\ rec[4] = Num(dlen)
      /\ \A i \in 1..nlen : rec[4 + i] = r.name[i]
      /\ \A i \in 1..dlen : rec[4 + nlen + i] = StoredData(r, flags)[i]
      /\ rec[4 + nlen + dlen + 1] = Crc16(r.name \o r.data)
    BY <1>a DEF IsRecord
<1>4. PICK l \in Nat : l = Len(cells) /\ p + (4 + nlen + dlen + 1) <= l
  <2>1. Len(cells) \in Nat
      BY DEF IsSequence
  <2>2. Len(rec) = 4 + nlen + dlen + 1
      BY <1>2
  <2> QED BY <1>3, <2>1, <2>2
<1>5. \A i \in 1..4 + nlen + dlen + 1 : cells[p + i] = rec[i]
    BY <1>2, <1>3
<1>6. /\ cells[p + 1] = Num(r.type) /\ cells[p + 2] = Num(r.flags)
      /\ cells[p + 3] = Num(nlen) /\ cells[p + 4] = Num(dlen)
  <2>1. 1 \in 1..4 + nlen + dlen + 1 /\ 2 \in 1..4 + nlen + dlen + 1
        /\ 3 \in 1..4 + nlen + dlen + 1 /\ 4 \in 1..4 + nlen + dlen + 1
      OBVIOUS
  <2> QED BY <1>2, <1>5, <2>1
<1>7. /\ Number(cells[p + 1]) = r.type /\ Number(cells[p + 2]) = r.flags
      /\ Number(cells[p + 3]) = nlen /\ Number(cells[p + 4]) = dlen
    BY <1>6 DEF Number, Num
<1>b. PICK pos \in Nat : pos = p + REC_HEADER_SIZE
    BY DEF REC_HEADER_SIZE
<1> DEFINE name == SubSeq(cells, pos + 1, pos + nlen)
           raw == SubSeq(cells, pos + nlen + 1, pos + nlen + dlen)
<1>8. pos = p + 4
    BY <1>b DEF REC_HEADER_SIZE
<1>9. name = r.name
  <2>1. /\ IsSequence(name) /\ Len(name) = nlen
        /\ \A i \in 1..nlen : name[i] = cells[(pos + 1) + i - 1]
    <3>1. pos + 1 \in Nat /\ pos + nlen \in Nat /\ 1 <= pos + 1 /\ pos + 1 <= (pos + nlen) + 1
          /\ pos + nlen <= l /\ (pos + nlen) + 1 - (pos + 1) = nlen
        BY <1>4, <1>8
    <3>2. PICK from \in Nat, to \in Nat : from = pos + 1 /\ to = pos + nlen
        BY <3>1
    <3>3. 1 <= from /\ from <= to + 1 /\ to <= Len(cells) /\ to + 1 - from = nlen
        BY <1>4, <3>1, <3>2
    <3>4. /\ IsSequence(SubSeq(cells, from, to)) /\ Len(SubSeq(cells, from, to)) = to + 1 - from
          /\ \A i \in 1..to + 1 - from : SubSeq(cells, from, to)[i] = cells[from + i - 1]
        BY <3>3, Slice
    <3>5. name = SubSeq(cells, from, to)
        BY <3>2
    <3> HIDE DEF name
    <3> QED BY <3>2, <3>3, <3>4, <3>5
  <2>2. ASSUME NEW i \in 1..nlen PROVE name[i] = r.name[i]
    <3>1. 4 + i \in 1..4 + nlen + dlen + 1 /\ (pos + 1) + i - 1 = p + (4 + i)
        BY <1>8
    <3> HIDE DEF name
    <3>2. name[i] = cells[p + (4 + i)]
        BY <2>1, <3>1
    <3> QED BY <1>2, <1>5, <3>1, <3>2
  <2> HIDE DEF name
  <2> QED BY <1>1, <2>1, <2>2, SameSequence DEF Writable
<1>10. raw = StoredData(r, flags)
  <2>1. /\ IsSequence(raw) /\ Len(raw) = dlen
        /\ \A i \in 1..dlen : raw[i] = cells[(pos + nlen + 1) + i - 1]
    <3>1. pos + nlen + 1 \in Nat /\ pos + nlen + dlen \in Nat /\ 1 <= pos + nlen + 1
          /\ pos + nlen + 1 <= (pos + nlen + dlen) + 1
          /\ pos + nlen + dlen <= l /\ (pos + nlen + dlen) + 1 - (pos + nlen + 1) = dlen
        BY <1>4, <1>8
    <3> QED BY <1>4, <3>1, Slice
  <2>2. ASSUME NEW i \in 1..dlen PROVE raw[i] = StoredData(r, flags)[i]
    <3>1. 4 + nlen + i \in 1..4 + nlen + dlen + 1
          /\ (pos + nlen + 1) + i - 1 = p + (4 + nlen + i)
        BY <1>8
    <3> HIDE DEF raw
    <3>2. raw[i] = cells[p + (4 + nlen + i)]
        BY <2>1, <3>1
    <3> QED BY <1>2, <1>5, <3>1, <3>2
  <2>3. IsSequence(StoredData(r, flags)) /\ Len(StoredData(r, flags)) = dlen
      BY <1>1, DataStored
  <2> HIDE DEF raw
  <2> QED BY <2>1, <2>2, <2>3, SameSequence
<1>11. (IF "xor" \in HeaderFlags(cells) THEN XorTransform(raw) ELSE raw) = r.data
    BY <1>10 DEF StoredData, Writable
<1>12. cells[pos + nlen + dlen + 1] = Crc16(r.name \o r.data)
  <2>1. 4 + nlen + dlen + 1 \in 1..4 + nlen + dlen + 1
        /\ pos + nlen + dlen + 1 = p + (4 + nlen + dlen + 1)
      BY <1>8
  <2> QED BY <1>2, <1>5, <2>1
<1>13. pos <= l /\ pos + nlen + dlen + 1 <= l
       /\ pos + nlen + dlen + 1 = p + (4 + nlen + dlen + 1)
    BY <1>4, <1>8
<1>14. r.data_len = dlen
    BY <1>1 DEF Writable
<1>15. ReadRecord(cells, walk) =
          [ok |-> TRUE, pos |-> pos + nlen + dlen + 1,
           recs |-> Append(walk.recs,
               [type |-> Number(cells[p + 1]), flags |-> Number(cells[p + 2]), name |-> name,
                data |-> IF "xor" \in HeaderFlags(cells) THEN XorTransform(raw) ELSE raw,
                data_len |-> dlen, stored_crc |-> cells[pos + nlen + dlen + 1]])]
  <2>1. ~ (pos > Len(cells)) /\ ~ (pos + nlen + dlen + 1 > Len(cells))
      BY <1>4, <1>13
  <2>2. Number(cells[walk.pos + 3]) = nlen /\ Number(cells[walk.pos + 4]) = dlen
        /\ walk.pos + REC_HEADER_SIZE = pos
      BY <1>1, <1>7, <1>b
  <2> QED BY <1>0, <1>1, <2>1, <2>2 DEF ReadRecord
<1>16. [type |-> Number(cells[p + 1]), flags |-> Number(cells[p + 2]), name |-> name,
        data |-> IF "xor" \in HeaderFlags(cells) THEN XorTransform(raw) ELSE raw,
        data_len |-> dlen, stored_crc |-> cells[pos + nlen + dlen + 1]] = ReadBack(r)
    BY <1>7, <1>9, <1>11, <1>12, <1>14 DEF ReadBack
<1>17. pos + nlen + dlen + 1 = walk.pos + Len(rec)
    BY <1>1, <1>2, <1>13
<1> QED BY <1>15, <1>16, <1>17 DEF rec

LEMMA HeaderRead ==
    ASSUME NEW recs, NEW flags, NEW author, AllWritable(recs, flags),
           NEW cells, Begins(Payload(recs, flags, author), cells)
    PROVE  /\ IsSequence(cells) /\ 8 <= Len(cells)
           /\ cells[1] = Mark("CFRM") /\ cells[3] = Flags(flags) /\ cells[4] = Num(Len(recs))
           /\ cells[6] = Crc32(SubSeq(cells, 1, 5))
           /\ cells[7] = Author(author) /\ cells[8] = Num(XorOfLengths(recs))
<1> DEFINE header == Header(recs, flags, author)
           payload == Payload(recs, flags, author)
           stored == Stored(recs, flags)[Len(recs)]
<1>1. IsHeader(header, recs, flags, author)
    BY HeaderCells
<1>2. Join(payload, header, stored)
    BY PayloadCells
<1> HIDE DEF header, payload, stored
<1>3. Begins(payload, cells)
    BY DEF payload
<1>4. Len(header) = 8
    BY <1>1 DEF IsHeader
<1>5. PICK p \in Nat, l \in Nat : p = Len(payload) /\ l = Len(cells) /\ 8 <= p /\ p <= l
  <2>1. Len(payload) \in Nat /\ Len(cells) \in Nat /\ Len(stored) \in Nat
        /\ Len(payload) = 8 + Len(stored) /\ Len(payload) <= Len(cells)
      BY <1>2, <1>3, <1>4 DEF Join, Begins, IsSequence
  <2> QED BY <2>1
<1>6. \A i \in 1..8 : cells[i] = header[i]
  <2> TAKE i \in 1..8
  <2>1. i \in 1..p
      BY <1>5
  <2>2. payload[i] = header[i]
      BY <1>2, <1>4 DEF Join
  <2>3. cells[i] = payload[i]
      BY <1>3, <1>5, <2>1 DEF Begins
  <2> QED BY <2>2, <2>3
<1>7. /\ cells[1] = header[1] /\ cells[2] = header[2] /\ cells[3] = header[3]
      /\ cells[4] = header[4] /\ cells[5] = header[5] /\ cells[6] = header[6]
      /\ cells[7] = header[7] /\ cells[8] = header[8]
    BY <1>6
<1>8. SubSeq(cells, 1, 5) = <<cells[1], cells[2], cells[3], cells[4], cells[5]>>
  <2> DEFINE part == SubSeq(cells, 1, 5)
             five == <<cells[1], cells[2], cells[3], cells[4], cells[5]>>
  <2>1. IsSequence(cells)
      BY <1>3 DEF Begins
  <2>2. /\ IsSequence(part) /\ Len(part) = (5 + 1) - 1
        /\ \A i \in 1..(5 + 1) - 1 : part[i] = cells[(1 + i) - 1]
      BY <1>5, <2>1, Slice
  <2>3. Len(five) = 5 /\ IsSequence(five)
      BY DEF IsSequence
  <2>4. \A i \in 1..5 : five[i] = cells[i]
      OBVIOUS
  <2> HIDE DEF part, five
  <2>5. \A i \in 1..5 : part[i] = five[i]
      BY <2>2, <2>4
  <2>6. \A i \in 1..Len(part) : part[i] = five[i]
      BY <2>2, <2>5
  <2>7. part = five
      BY <2>2, <2>3, <2>6, SameSequence
  <2> QED BY <2>7 DEF part, five
<1>9. header[6] = Crc32(<<header[1], header[2], header[3], header[4], header[5]>>)
    BY <1>1 DEF IsHeader
<1>10. cells[6] = Crc32(<<cells[1], cells[2], cells[3], cells[4], cells[5]>>)
    BY <1>7, <1>9
<1>11. /\ cells[1] = Mark("CFRM") /\ cells[3] = Flags(flags) /\ cells[4] = Num(Len(recs))
       /\ cells[7] = Author(author) /\ cells[8] = Num(XorOfLengths(recs))
    BY <1>1, <1>7 DEF IsHeader
<1>12. IsSequence(cells) /\ 8 <= Len(cells)
    BY <1>3, <1>5 DEF Begins
<1> QED BY <1>8, <1>10, <1>11, <1>12

\* What the readers know after n records of recs.
HasRead(walk, recs, flags, n) ==
    /\ walk.ok = TRUE /\ walk.pos = End(recs, flags, n)
    /\ IsSequence(walk.recs) /\ Len(walk.recs) = n
    /\ \A i \in 1..n : walk.recs[i] = ReadBack(recs[i])

LEMMA ReadNext ==
    ASSUME NEW recs, NEW flags, NEW author, AllWritable(recs, flags),
           NEW cells, Begins(Payload(recs, flags, author), cells), NEW n \in 1..Len(recs),
           NEW walk, HasRead(walk, recs, flags, n - 1)
    PROVE  HasRead(ReadRecord(cells, walk), recs, flags, n)
<1> DEFINE rec == Record(recs[n], flags)
<1>1. /\ Len(rec) \in Nat /\ n - 1 \in 0..Len(recs)
      /\ End(recs, flags, n) = End(recs, flags, n - 1) + Len(rec)
      /\ End(recs, flags, n) <= Len(cells)
      /\ \A i \in 1..Len(rec) : cells[End(recs, flags, n - 1) + i] = rec[i]
    BY RecordAt
<1>2. End(recs, flags, n - 1) \in Nat
    BY <1>1, RecordsEnd
<1>3. Writable(recs[n], flags)
    BY DEF AllWritable
<1>4. IsSequence(cells) /\ HeaderFlags(cells) = flags
  <2>1. IsSequence(cells) /\ cells[3] = Flags(flags)
      BY HeaderRead
  <2> QED BY <2>1 DEF HeaderFlags, Flags
<1>5. /\ walk.ok = TRUE /\ walk.pos = End(recs, flags, n - 1)
      /\ IsSequence(walk.recs) /\ Len(walk.recs) = n - 1
      /\ \A i \in 1..n - 1 : walk.recs[i] = ReadBack(recs[i])
    BY DEF HasRead
<1> DEFINE next == [ok |-> TRUE, pos |-> walk.pos + Len(rec),
                    recs |-> Append(walk.recs, ReadBack(recs[n]))]
<1>6. ReadRecord(cells, walk) = next
  <2>1. walk.pos \in Nat /\ walk.pos + Len(rec) <= Len(cells)
      BY <1>1, <1>2, <1>5
  <2>2. \A i \in 1..Len(rec) : cells[walk.pos + i] = rec[i]
      BY <1>1, <1>5
  <2> HIDE DEF rec
  <2>3. IsBefore(cells, walk, rec)
      BY <1>5, <2>1, <2>2 DEF IsBefore
  <2> QED BY <1>3, <1>4, <2>3, ReadOne DEF rec
<1>7. next.ok = TRUE /\ next.pos = End(recs, flags, n)
    BY <1>1, <1>5
<1> DEFINE found == Append(walk.recs, ReadBack(recs[n]))
<1>8. next.recs = found
    OBVIOUS
<1> HIDE DEF next, rec
<1>9. /\ IsSequence(found) /\ Len(found) = (n - 1) + 1
      /\ \A i \in 1..n - 1 : found[i] = walk.recs[i]
      /\ found[(n - 1) + 1] = ReadBack(recs[n])
  <2>1. /\ IsSequence(found) /\ Len(found) = Len(walk.recs) + 1
        /\ \A i \in 1..Len(walk.recs) : found[i] = walk.recs[i]
        /\ found[Len(walk.recs) + 1] = ReadBack(recs[n])
      BY <1>5, AppendedAt
  <2> QED BY <1>5, <2>1
<1> HIDE DEF found
<1>10. n \in Nat /\ (n - 1) + 1 = n
    BY DEF AllWritable
<1>11. ASSUME NEW i \in 1..n PROVE found[i] = ReadBack(recs[i])
  <2>1. CASE i = n
      BY <1>9, <1>10, <2>1
  <2>2. CASE i # n
    <3>1. i \in 1..n - 1
        BY <1>10, <2>2
    <3> QED BY <1>5, <1>9, <3>1
  <2> QED BY <2>1, <2>2
<1>12. HasRead(next, recs, flags, n)
    BY <1>7, <1>8, <1>9, <1>10, <1>11 DEF HasRead
<1> QED BY <1>6, <1>12

\* All of them are, of any file the payload begins.
LEMMA ReadWhole ==
    ASSUME NEW recs, NEW flags, NEW author, AllWritable(recs, flags),
           NEW cells, Begins(Payload(recs, flags, author), cells)
    PROVE  HasRead(Parsed(cells), recs, flags, Len(recs))
<1> DEFINE walk == Walk(cells)
           T == {n \in Nat : n <= Len(recs) => HasRead(walk[n], recs, flags, n)}
<1>1. Len(recs) \in Nat
    BY DEF AllWritable
<1>2. NumRecords(cells) = Len(recs)
  <2>1. cells[4] = Num(Len(recs))
      BY HeaderRead
  <2> QED BY <2>1 DEF NumRecords, Num
<1>3. /\ walk[0] = [ok |-> TRUE, pos |-> HEADER_SIZE, recs |-> <<>>]
      /\ \A n \in 1..Len(recs) : walk[n] = ReadRecord(cells, walk[n - 1])
    BY <1>1, <1>2, WalkNext
<1> HIDE DEF walk
<1>4. 0 \in T
  <2>1. End(recs, flags, 0) = 8
      BY RecordsEnd
  <2>2. IsSequence(<<>>) /\ Len(<<>>) = 0
      BY DEF IsSequence
  <2> QED BY <1>3, <2>1, <2>2 DEF HasRead, HEADER_SIZE
<1>5. ASSUME NEW n \in T PROVE n + 1 \in T
  <2>1. SUFFICES ASSUME n + 1 <= Len(recs) PROVE HasRead(walk[n + 1], recs, flags, n + 1)
      OBVIOUS
  <2>2. n \in Nat /\ n <= Len(recs)
      BY <1>1, <2>1
  <2>3. n + 1 \in 1..Len(recs) /\ (n + 1) - 1 = n /\ n \in Nat
      BY <1>1, <2>1, <2>2
  <2>4. HasRead(walk[n], recs, flags, n)
      BY <2>2
  <2>5. walk[n + 1] = ReadRecord(cells, walk[n])
      BY <1>3, <2>3
  <2> HIDE DEF T
  <2> QED BY <2>3, <2>4, <2>5, ReadNext
<1>6. T = Nat
  <2> HIDE DEF T
  <2>1. T \in SUBSET Nat
      BY DEF T
  <2> QED BY <1>4, <1>5, <2>1, Induction
<1>7. HasRead(walk[Len(recs)], recs, flags, Len(recs))
    BY <1>1, <1>6
<1> QED BY <1>2, <1>7 DEF Parsed, walk

-----------------------------------------------------------------------------
(***************************************************************************)
(* A whole archive: both tools find no fault with it, and the records.     *)
(***************************************************************************)
HasFooter(cells, payload) ==
    LET p == Len(payload)
    IN  /\ Len(cells) = p + 3 /\ SubSeq(cells, 1, p) = payload
        /\ cells[p + 1] = Mark("CRFE") /\ cells[p + 2] = Num(p + 3)
        /\ cells[p + 3] = Crc32(payload)

\* The payload begins the archive; a footer may follow.
LEMMA ArchiveCells ==
    ASSUME NEW recs, NEW flags, NEW author, AllWritable(recs, flags)
    PROVE  /\ Begins(Payload(recs, flags, author), Archive(recs, flags, author))
           /\ "footer" \in flags =>
                 HasFooter(Archive(recs, flags, author), Payload(recs, flags, author))
           /\ "footer" \notin flags =>
                 Archive(recs, flags, author) = Payload(recs, flags, author)
<1> DEFINE payload == Payload(recs, flags, author)
           footer == Footer(payload)
           cells == Archive(recs, flags, author)
<1>1. IsSequence(payload) /\ Len(payload) \in Nat
  <2>1. Join(payload, Header(recs, flags, author), Stored(recs, flags)[Len(recs)])
      BY PayloadCells
  <2> HIDE DEF payload
  <2> QED BY <2>1 DEF Join, IsSequence
<1>2. cells = IF "footer" \in flags THEN payload \o footer ELSE payload
    BY DEF Archive
<1>3. /\ IsSequence(footer) /\ Len(footer) = 3 /\ footer[1] = Mark("CRFE")
      /\ footer[2] = Num(Len(payload) + 3) /\ footer[3] = Crc32(payload)
  <2> HIDE DEF payload
  <2> QED BY DEF Footer, FOOTER_SIZE, IsSequence
<1> HIDE DEF payload, footer, cells
<1>4. CASE "footer" \in flags
  <2>1. Join(cells, payload, footer)
      BY <1>1, <1>2, <1>3, <1>4, Joined
  <2>2. PICK p \in Nat, l \in Nat : p = Len(payload) /\ l = Len(cells) /\ l = p + 3
      BY <1>1, <1>3, <2>1 DEF Join, IsSequence
  <2>3. IsSequence(cells) /\ \A i \in 1..p : cells[i] = payload[i]
      BY <2>1, <2>2 DEF Join
  <2>4. Begins(payload, cells)
      BY <1>1, <2>2, <2>3 DEF Begins
  <2>5. cells[p + 1] = footer[1] /\ cells[p + 2] = footer[2] /\ cells[p + 3] = footer[3]
    <3>1. \A i \in 1..3 : cells[p + i] = footer[i]
        BY <1>3, <2>1, <2>2 DEF Join
    <3> QED BY <3>1
  <2>6. SubSeq(cells, 1, p) = payload
    <3>1. /\ IsSequence(SubSeq(cells, 1, p)) /\ Len(SubSeq(cells, 1, p)) = p
          /\ \A i \in 1..p : SubSeq(cells, 1, p)[i] = cells[i]
      <4>1. p <= Len(cells)
          BY <2>2
      <4> QED BY <2>3, <4>1, Beginning, Zenon
    <3> DEFINE part == SubSeq(cells, 1, p)
    <3> HIDE DEF part
    <3>2. IsSequence(part) /\ Len(part) = p /\ \A i \in 1..p : part[i] = cells[i]
        BY <3>1 DEF part
    <3>3. part = payload
        BY <1>1, <2>2, <2>3, <3>2, SameSequence
    <3> QED BY <3>3 DEF part
  <2>7. HasFooter(cells, payload)
      BY <1>3, <2>2, <2>5, <2>6 DEF HasFooter
  <2> QED BY <1>4, <2>4, <2>7 DEF cells, payload
<1>5. CASE "footer" \notin flags
  <2>1. cells = payload
      BY <1>2, <1>5
  <2>2. Begins(payload, cells)
      BY <1>1, <2>1 DEF Begins
  <2> QED BY <1>5, <2>1, <2>2 DEF cells, payload
<1> QED BY <1>4, <1>5

\* recs and what was read for it.
AsRead(found, recs) ==
    /\ IsSequence(found) /\ Len(found) = Len(recs)
    /\ \A i \in 1..Len(recs) : found[i] = ReadBack(recs[i])

LEMMA ReadFields ==
    ASSUME NEW found, NEW recs, AsRead(found, recs), NEW i \in 1..Len(recs)
    PROVE  /\ found[i].type = recs[i].type /\ found[i].flags = recs[i].flags
           /\ found[i].name = recs[i].name /\ found[i].data = recs[i].data
           /\ found[i].data_len = recs[i].data_len
           /\ found[i].stored_crc = Crc16(found[i].name \o found[i].data)
<1>1. PICK r : r = recs[i]
    OBVIOUS
<1>2. found[i] = ReadBack(r)
    BY <1>1 DEF AsRead
<1>3. /\ ReadBack(r).type = r.type /\ ReadBack(r).flags = r.flags
      /\ ReadBack(r).name = r.name /\ ReadBack(r).data = r.data
      /\ ReadBack(r).data_len = r.data_len
      /\ ReadBack(r).stored_crc = Crc16(r.name \o r.data)
    BY DEF ReadBack
<1> QED BY <1>1, <1>2, <1>3

LEMMA SameLengths ==
    ASSUME NEW recs, NEW found, IsSequence(recs), AsRead(found, recs)
    PROVE  XorOfLengths(found) = XorOfLengths(recs)
<1>1. DOMAIN recs = 1..Len(recs) /\ DOMAIN found = 1..Len(recs)
    BY DEF IsSequence, AsRead
<1>2. \A i \in 1..Len(recs) : found[i].data_len = recs[i].data_len
    BY ReadFields
<1>3. [i \in DOMAIN found |-> found[i].data_len] = [i \in DOMAIN recs |-> recs[i].data_len]
    BY <1>1, <1>2
<1> QED BY <1>3 DEF XorOfLengths

\* An archive as it was written: both tools read it back and find no fault.
LEMMA WholeIsValid ==
    ASSUME NEW recs, NEW flags, NEW author, AllWritable(recs, flags), Len(recs) <= MAX_RECORDS
    PROVE  LET cells == Archive(recs, flags, author)
           IN  /\ HeaderFlags(cells) = flags /\ HeaderAuthor(cells) = author
               /\ Readable(cells) /\ AsRead(Records(cells), recs)
               /\ CValid(cells) /\ PyStrict(cells)
<1> DEFINE cells == Archive(recs, flags, author)
           payload == Payload(recs, flags, author)
           walk == Parsed(cells)
<1>1. Begins(payload, cells)
    BY ArchiveCells
<1>2. /\ IsSequence(cells) /\ 8 <= Len(cells)
      /\ cells[1] = Mark("CFRM") /\ cells[3] = Flags(flags) /\ cells[4] = Num(Len(recs))
      /\ cells[6] = Crc32(SubSeq(cells, 1, 5))
      /\ cells[7] = Author(author) /\ cells[8] = Num(XorOfLengths(recs))
  <2> HIDE DEF cells
  <2> QED BY <1>1, HeaderRead
<1>3. HasRead(walk, recs, flags, Len(recs))
  <2> HIDE DEF cells
  <2> QED BY <1>1, ReadWhole
<1>4. End(recs, flags, Len(recs)) = Len(payload) /\ Len(recs) \in Nat
  <2> HIDE DEF cells
  <2> QED BY <1>1, RecordsEnd
<1>5. "footer" \in flags => HasFooter(cells, payload)
    BY ArchiveCells
<1>6. Len(payload) \in Nat
    BY <1>1 DEF Begins, IsSequence
<1> HIDE DEF cells, payload, walk
<1>7. /\ HeaderFlags(cells) = flags /\ HeaderAuthor(cells) = author
      /\ NumRecords(cells) = Len(recs)
    BY <1>2 DEF HeaderFlags, HeaderAuthor, NumRecords, Flags, Author, Num
<1>8. AsRead(walk.recs, recs) /\ walk.ok = TRUE /\ walk.pos = Len(payload)
    BY <1>3, <1>4 DEF HasRead, AsRead
<1>9. Readable(cells)
    BY <1>2, <1>7, <1>8 DEF Readable, HEADER_SIZE, walk
<1>10. HeaderIntact(cells)
    BY <1>2 DEF HeaderIntact
<1>11. LengthsAgree(cells, walk.recs)
  <2>1. IsSequence(recs)
      BY DEF AllWritable
  <2> QED BY <1>2, <1>8, <2>1, SameLengths DEF LengthsAgree
<1>12. RecordsIntact(walk.recs)
  <2>1. DOMAIN walk.recs = 1..Len(recs)
      BY <1>8 DEF AsRead, IsSequence
  <2>2. \A i \in 1..Len(recs) :
           walk.recs[i].stored_crc = Crc16(walk.recs[i].name \o walk.recs[i].data)
      BY <1>8, ReadFields
  <2> QED BY <2>1, <2>2 DEF RecordsIntact
<1>13. "footer" \in flags =>
          /\ FooterFits(cells, walk.pos)
          /\ FooterMarked(cells, walk.pos) /\ FooterIntact(cells, walk.pos)
  <2> SUFFICES ASSUME "footer" \in flags
               PROVE  /\ FooterFits(cells, walk.pos)
                      /\ FooterMarked(cells, walk.pos) /\ FooterIntact(cells, walk.pos)
      OBVIOUS
  <2>1. PICK p \in Nat : p = Len(payload)
      BY <1>6
  <2>2. /\ Len(cells) = p + 3 /\ SubSeq(cells, 1, p) = payload
        /\ cells[p + 1] = Mark("CRFE") /\ cells[p + 2] = Num(p + 3)
        /\ cells[p + 3] = Crc32(payload)
      BY <1>5, <2>1 DEF HasFooter
  <2>3. walk.pos = p
      BY <1>8, <2>1
  <2>4. FooterFits(cells, p)
      BY <2>2 DEF FooterFits, FOOTER_SIZE
  <2>5. FooterMarked(cells, p)
      BY <2>2 DEF FooterMarked
  <2>6. Len(cells) - FOOTER_SIZE = p
      BY <2>2 DEF FOOTER_SIZE
  <2>7. FooterIntact(cells, p)
      BY <2>2, <2>6 DEF FooterIntact
  <2> QED BY <2>3, <2>4, <2>5, <2>7
<1>14. CValid(cells)
    BY <1>7, <1>9, <1>10, <1>11, <1>12, <1>13 DEF CValid, walk
<1>15. PyStrict(cells)
    BY <1>7, <1>9, <1>10, <1>11, <1>12, <1>13 DEF PyStrict, walk
<1>16. AsRead(Records(cells), recs)
    BY <1>8 DEF Records, walk
<1> QED BY <1>7, <1>9, <1>14, <1>15, <1>16 DEF cells

-----------------------------------------------------------------------------
(***************************************************************************)
(* What the readers make of any file: they stop behind the header, and     *)
(* what they have read can be written again.                               *)
(***************************************************************************)
AllCells(s) == IsSequence(s) /\ \A i \in 1..Len(s) : IsCell(s[i])

\* Cells that can be read: a number of records, and what may be behind the header.
IsFile(cells) ==
    /\ IsSequence(cells) /\ \A i \in 9..Len(cells) : IsCell(cells[i])
    /\ 8 <= Len(cells) => cells[4][1] = "number" /\ NumRecords(cells) \in Nat

LEMMA NumberNat ==
    ASSUME NEW c, IsCell(c)
    PROVE  Number(c) \in Nat
<1>1. CASE c[1] = "number"
    BY <1>1 DEF IsCell, Number
<1>2. CASE c[1] # "number"
  <2>1. c[1] \in DOMAIN AsNumber
      BY <1>2, FormatAssumption DEF IsCell
  <2> QED BY <1>2, <2>1, FormatAssumption DEF Number
<1> QED BY <1>1, <1>2

\* What was read of n records can be written again.
Sound(walk, flags, n) ==
    /\ walk.ok \in BOOLEAN /\ walk.pos \in Nat /\ 8 <= walk.pos
    /\ walk.ok =>
          /\ IsSequence(walk.recs) /\ Len(walk.recs) = n
          /\ \A i \in 1..n : Writable(walk.recs[i], flags)

LEMMA SliceOfFile ==
    ASSUME NEW cells, IsFile(cells), NEW m \in Nat, 8 <= m, NEW n \in Nat, m + n <= Len(cells)
    PROVE  LET part == SubSeq(cells, m + 1, m + n)
           IN  AllCells(part) /\ Len(part) = n
<1>1. IsSequence(cells)
    BY DEF IsFile
<1>2. PICK from \in Nat, to \in Nat : from = m + 1 /\ to = m + n
    OBVIOUS
<1>3. 1 <= from /\ from <= to + 1 /\ to <= Len(cells) /\ to + 1 - from = n
    BY <1>2
<1>4. /\ IsSequence(SubSeq(cells, from, to)) /\ Len(SubSeq(cells, from, to)) = to + 1 - from
      /\ \A i \in 1..to + 1 - from : SubSeq(cells, from, to)[i] = cells[from + i - 1]
    BY <1>1, <1>3, Slice
<1> DEFINE part == SubSeq(cells, from, to)
<1> HIDE DEF part
<1>5. IsSequence(part) /\ Len(part) = n /\ \A i \in 1..n : part[i] = cells[from + i - 1]
    BY <1>3, <1>4 DEF part
<1>6. Len(cells) \in Nat
    BY <1>1 DEF IsSequence
<1>7. \A i \in 1..n : from + i - 1 \in 9..Len(cells)
    BY <1>2, <1>6
<1>8. AllCells(part)
    BY <1>5, <1>7 DEF IsFile, AllCells
<1> QED BY <1>2, <1>5, <1>8 DEF part

\* A record read, of whatever file, is one that can be written.
LEMMA SoundNext ==
    ASSUME NEW cells, IsFile(cells), NEW n \in Nat, NEW walk,
           Sound(walk, HeaderFlags(cells), n)
    PROVE  Sound(ReadRecord(cells, walk), HeaderFlags(cells), n + 1)
<1> DEFINE flags == HeaderFlags(cells)
           nlen == Number(cells[walk.pos + 3])
           dlen == Number(cells[walk.pos + 4])
<1>1. /\ walk.ok \in BOOLEAN /\ walk.pos \in Nat /\ 8 <= walk.pos
      /\ walk.ok =>
            /\ IsSequence(walk.recs) /\ Len(walk.recs) = n
            /\ \A i \in 1..n : Writable(walk.recs[i], flags)
    BY DEF Sound
<1>2. PICK pos \in Nat : pos = walk.pos + REC_HEADER_SIZE
    BY <1>1 DEF REC_HEADER_SIZE
<1>3. PICK l \in Nat : l = Len(cells)
    BY DEF IsFile, IsSequence
<1> DEFINE Stops == ~walk.ok \/ pos > Len(cells) \/ pos + nlen + dlen + 1 > Len(cells)
           name == SubSeq(cells, pos + 1, pos + nlen)
           raw == SubSeq(cells, pos + nlen + 1, pos + nlen + dlen)
           data == IF "xor" \in flags THEN XorTransform(raw) ELSE raw
           rec == [type |-> Number(cells[walk.pos + 1]), flags |-> Number(cells[walk.pos + 2]),
                   name |-> name, data |-> data, data_len |-> dlen,
                   stored_crc |-> cells[pos + nlen + dlen + 1]]
           next == [ok |-> TRUE, pos |-> pos + nlen + dlen + 1, recs |-> Append(walk.recs, rec)]
           stopped == [ok |-> FALSE, pos |-> walk.pos, recs |-> walk.recs]
<1>4. ReadRecord(cells, walk) = IF Stops THEN stopped ELSE next
    BY <1>2 DEF ReadRecord
<1>5. CASE Stops
  <2>1. stopped.ok = FALSE /\ stopped.pos = walk.pos
      OBVIOUS
  <2>2. Sound(stopped, flags, n + 1)
      BY <1>1, <2>1 DEF Sound
  <2> QED BY <1>4, <1>5, <2>2
<1>6. CASE ~Stops
  <2>1. walk.ok /\ pos <= l
      BY <1>1, <1>3, <1>6
  <2>2. nlen \in Nat /\ dlen \in Nat
    <3>1. walk.pos + 3 \in 9..Len(cells) /\ walk.pos + 4 \in 9..Len(cells)
        BY <1>1, <1>2, <1>3, <2>1 DEF REC_HEADER_SIZE
    <3>2. IsCell(cells[walk.pos + 3]) /\ IsCell(cells[walk.pos + 4])
        BY <3>1 DEF IsFile
    <3> QED BY <3>2, NumberNat
  <2> HIDE DEF nlen, dlen
  <2>3. pos + nlen + dlen + 1 <= l
      BY <1>3, <1>6, <2>2
  <2>4. AllCells(name) /\ Len(name) = nlen
    <3>1. pos + nlen <= Len(cells)
        BY <1>3, <2>2, <2>3
    <3>2. 8 <= pos
        BY <1>1, <1>2 DEF REC_HEADER_SIZE
    <3> QED BY <2>2, <3>1, <3>2, SliceOfFile
  <2>5. AllCells(raw) /\ Len(raw) = dlen
    <3>1. PICK m \in Nat : m = pos + nlen
        BY <2>2
    <3>2. m + dlen <= Len(cells)
        BY <1>3, <2>2, <2>3, <3>1
    <3>4. 8 <= pos
        BY <1>1, <1>2 DEF REC_HEADER_SIZE
    <3>5. 8 <= m
        BY <2>2, <3>1, <3>4
    <3>3. AllCells(SubSeq(cells, m + 1, m + dlen)) /\ Len(SubSeq(cells, m + 1, m + dlen)) = dlen
        BY <2>2, <3>2, <3>5, SliceOfFile
    <3> QED BY <3>1, <3>3
  <2> HIDE DEF name, raw
  <2>6. IsSequence(data) /\ Len(data) = dlen
    <3>1. IsSequence(raw)
        BY <2>5 DEF AllCells
    <3>2. IsSequence(XorTransform(raw)) /\ Len(XorTransform(raw)) = Len(raw)
        BY <3>1, Transformed
    <3> QED BY <2>5, <3>1, <3>2
  <2>7. "xor" \in flags => XorTransform(XorTransform(data)) = data
      BY <2>5, ReadTwice DEF AllCells
  <2> HIDE DEF data
  <2>8. Writable(rec, flags)
      BY <2>4, <2>6, <2>7 DEF Writable, AllCells
  <2> HIDE DEF rec
  <2>9. /\ IsSequence(Append(walk.recs, rec)) /\ Len(Append(walk.recs, rec)) = n + 1
        /\ \A i \in 1..n : Append(walk.recs, rec)[i] = walk.recs[i]
        /\ Append(walk.recs, rec)[n + 1] = rec
    <3>1. IsSequence(walk.recs) /\ Len(walk.recs) = n
        BY <1>1, <2>1
    <3> QED BY <3>1, AppendedAt
  <2>10. \A i \in 1..n + 1 : Writable(Append(walk.recs, rec)[i], flags)
    <3> TAKE i \in 1..n + 1
    <3>1. CASE i = n + 1
        BY <2>8, <2>9, <3>1
    <3>2. CASE i # n + 1
      <4>1. i \in 1..n
          BY <3>2
      <4>2. Writable(walk.recs[i], flags)
          BY <1>1, <2>1, <4>1
      <4>3. Append(walk.recs, rec)[i] = walk.recs[i]
          BY <2>9, <4>1
      <4> QED BY <4>2, <4>3
    <3> QED BY <3>1, <3>2
  <2> DEFINE grown == Append(walk.recs, rec)
  <2>11. /\ next.ok = TRUE /\ next.pos = pos + nlen + dlen + 1 /\ next.recs = grown
      OBVIOUS
  <2>12. pos + nlen + dlen + 1 \in Nat /\ 8 <= pos + nlen + dlen + 1
      BY <1>1, <1>2, <2>2 DEF REC_HEADER_SIZE
  <2>13. IsSequence(grown) /\ Len(grown) = n + 1 /\ \A i \in 1..n + 1 : Writable(grown[i], flags)
      BY <2>9, <2>10
  <2> HIDE DEF next, grown, flags
  <2>14. Sound(next, flags, n + 1)
      BY <2>11, <2>12, <2>13 DEF Sound
  <2> QED BY <1>4, <1>6, <2>14 DEF flags
<1> QED BY <1>5, <1>6

LEMMA AnyWalk ==
    ASSUME NEW cells, IsFile(cells), 8 <= Len(cells)
    PROVE  Sound(Parsed(cells), HeaderFlags(cells), NumRecords(cells))
<1> DEFINE walk == Walk(cells)
           all == NumRecords(cells)
           flags == HeaderFlags(cells)
           T == {n \in Nat : n <= all => Sound(walk[n], flags, n)}
<1>1. /\ walk[0] = [ok |-> TRUE, pos |-> HEADER_SIZE, recs |-> <<>>]
      /\ \A n \in 1..all : walk[n] = ReadRecord(cells, walk[n - 1])
    BY WalkNext DEF IsFile
<1>n. all \in Nat
    BY DEF IsFile
<1> HIDE DEF walk, all
<1>2. 0 \in T
  <2>1. IsSequence(<<>>) /\ Len(<<>>) = 0
      BY DEF IsSequence
  <2>2. walk[0].ok = TRUE /\ walk[0].pos = 8 /\ walk[0].recs = <<>>
        /\ walk[0] = [ok |-> TRUE, pos |-> 8, recs |-> <<>>]
      BY <1>1 DEF HEADER_SIZE
  <2> HIDE DEF flags
  <2>3. Sound(walk[0], flags, 0)
      BY <2>1, <2>2 DEF Sound
  <2> QED BY <2>3
<1>3. ASSUME NEW n \in T PROVE n + 1 \in T
  <2>1. SUFFICES ASSUME n + 1 <= all PROVE Sound(walk[n + 1], flags, n + 1)
      OBVIOUS
  <2>2. n \in Nat /\ n <= all
      BY <1>n, <2>1
  <2>3. n + 1 \in 1..all /\ (n + 1) - 1 = n
      BY <1>n, <2>1, <2>2
  <2>4. Sound(walk[n], flags, n)
      BY <2>2
  <2>5. walk[n + 1] = ReadRecord(cells, walk[n])
      BY <1>1, <2>3
  <2> HIDE DEF T
  <2> QED BY <2>2, <2>4, <2>5, SoundNext
<1>4. T = Nat
  <2> HIDE DEF T
  <2>1. T \in SUBSET Nat
      BY DEF T
  <2> QED BY <1>2, <1>3, <2>1, Induction
<1>5. Sound(walk[all], flags, all)
    BY <1>n, <1>4
<1> QED BY <1>5 DEF Parsed, walk, all

\* What was read can be written.
LEMMA ReadCanBeWritten ==
    ASSUME NEW cells, IsFile(cells), Readable(cells)
    PROVE  /\ AllWritable(Records(cells), HeaderFlags(cells))
           /\ Len(Records(cells)) <= MAX_RECORDS
<1>1. Sound(Parsed(cells), HeaderFlags(cells), NumRecords(cells))
    BY AnyWalk DEF Readable, HEADER_SIZE
<1>2. Parsed(cells).ok /\ NumRecords(cells) <= MAX_RECORDS
    BY DEF Readable
<1> DEFINE recs == Parsed(cells).recs
<1>3. /\ IsSequence(recs) /\ Len(recs) = NumRecords(cells)
      /\ \A i \in 1..NumRecords(cells) : Writable(recs[i], HeaderFlags(cells))
    BY <1>1, <1>2 DEF Sound
<1> HIDE DEF recs
<1>4. AllWritable(recs, HeaderFlags(cells))
    BY <1>3 DEF AllWritable
<1> QED BY <1>2, <1>3, <1>4 DEF Records, recs

-----------------------------------------------------------------------------
(***************************************************************************)
(* What is written of well-formed records: no CRC of a footer is among the *)
(* cells of the records.                                                   *)
(***************************************************************************)
\* Cells, none of them the CRC of a footer.
Plain(s) == IsSequence(s) /\ \A i \in 1..Len(s) : IsCell(s[i]) /\ s[i][1] # "crc32"

LEMMA PlainJoin ==
    ASSUME NEW s, NEW t, Plain(s), Plain(t)
    PROVE  Plain(s \o t)
<1> DEFINE u == s \o t
<1>1. Join(u, s, t)
    BY Joined DEF Plain
<1> HIDE DEF u
<1>2. PICK m \in Nat, n \in Nat : m = Len(s) /\ n = Len(t)
    BY <1>1 DEF Join
<1>3. \A i \in 1..m : u[i] = s[i]
    BY <1>1, <1>2 DEF Join
<1>4. \A i \in 1..n : u[m + i] = t[i]
    BY <1>1, <1>2 DEF Join
<1>5. IsSequence(u) /\ Len(u) = m + n
    BY <1>1, <1>2 DEF Join
<1>6. \A i \in 1..m + n : IsCell(u[i]) /\ u[i][1] # "crc32"
  <2> TAKE i \in 1..m + n
  <2>1. CASE i <= m
    <3>1. i \in 1..m
        BY <2>1
    <3> QED BY <1>2, <1>3, <3>1 DEF Plain
  <2>2. CASE i > m
    <3>1. PICK k \in 1..n : i = m + k
      <4>1. i - m \in 1..n /\ i = m + (i - m)
          BY <2>2
      <4> QED BY <4>1
    <3> QED BY <1>2, <1>4, <3>1 DEF Plain
  <2> QED BY <2>1, <2>2
<1>7. Plain(u)
    BY <1>5, <1>6 DEF Plain
<1> QED BY <1>7 DEF u

\* Records of a caller can be written.
LEMMA WellFormedWritable ==
    ASSUME NEW recs, WellFormed(recs), NEW flags
    PROVE  AllWritable(recs, flags) /\ Len(recs) <= MAX_RECORDS
<1>1. IsSequence(recs) /\ Len(recs) \in Nat /\ Len(recs) <= MAX_RECORDS /\ DOMAIN recs = 1..Len(recs)
    BY DEF WellFormed, IsSequence
<1>2. ASSUME NEW i \in 1..Len(recs) PROVE Writable(recs[i], flags)
  <2>1. IsName(recs[i].name) /\ IsData(recs[i].data) /\ recs[i].data_len = Len(recs[i].data)
      BY <1>1 DEF WellFormed
  <2>2. IsSequence(recs[i].name) /\ IsSequence(recs[i].data)
      BY <2>1 DEF IsName, IsData
  <2>3. XorTransform(XorTransform(recs[i].data)) = recs[i].data
      BY <2>1, DataTwice
  <2> QED BY <2>1, <2>2, <2>3 DEF Writable
<1> QED BY <1>1, <1>2 DEF AllWritable

LEMMA PlainName ==
    ASSUME NEW name, IsName(name)
    PROVE  Plain(name)
<1>1. IsSequence(name) /\ DOMAIN name = 1..Len(name)
    BY DEF IsName, IsSequence
<1>2. ASSUME NEW i \in 1..Len(name) PROVE IsCell(name[i]) /\ name[i][1] # "crc32"
  <2>1. PICK p : name[i] = Part(p)
      BY <1>1 DEF IsName
  <2> QED BY <2>1 DEF Part, IsCell, Kinds
<1> QED BY <1>1, <1>2 DEF Plain

LEMMA PlainData ==
    ASSUME NEW data, IsData(data)
    PROVE  Plain(data) /\ Plain(XorTransform(data))
<1>1. IsSequence(data) /\ Len(data) \in Nat /\ DOMAIN data = 1..Len(data)
    BY DEF IsData, IsSequence
<1>2. ASSUME NEW i \in 1..Len(data)
      PROVE  /\ IsCell(data[i]) /\ data[i][1] # "crc32"
             /\ IsCell(XorCell(data[i], KeyAt(i))) /\ XorCell(data[i], KeyAt(i))[1] # "crc32"
  <2>1. PICK n \in Nat : data[i] = Byte(n)
      BY <1>1 DEF IsData
  <2>2. IsCell(Byte(n)) /\ Byte(n)[1] # "crc32"
      BY DEF Byte, IsCell, Kinds
  <2>3. i \in Nat /\ 1 <= i
      BY <1>1
  <2>4. KeyAt(i) \in Nat
      BY <2>3, KeyBytes
  <2> HIDE DEF KeyAt
  <2>5. IsCell(XorCell(Byte(n), KeyAt(i))) /\ XorCell(Byte(n), KeyAt(i))[1] = "byte"
      BY <2>4, ByteTwice
  <2> QED BY <2>1, <2>2, <2>5
<1>3. /\ IsSequence(XorTransform(data)) /\ Len(XorTransform(data)) = Len(data)
      /\ \A i \in 1..Len(data) : XorTransform(data)[i] = XorCell(data[i], KeyAt(i))
    BY <1>1, Transformed
<1>4. Plain(data)
    BY <1>1, <1>2 DEF Plain
<1>5. Plain(XorTransform(data))
  <2> DEFINE t == XorTransform(data)
  <2>1. IsSequence(t) /\ Len(t) = Len(data)
      BY <1>3
  <2>2. ASSUME NEW i \in 1..Len(data) PROVE IsCell(t[i]) /\ t[i][1] # "crc32"
      BY <1>2, <1>3
  <2> HIDE DEF t
  <2>3. Plain(t)
      BY <2>1, <2>2 DEF Plain
  <2> QED BY <2>3 DEF t
<1> QED BY <1>4, <1>5

LEMMA PlainRecord ==
    ASSUME NEW recs, WellFormed(recs), NEW i \in 1..Len(recs), NEW flags
    PROVE  Plain(Record(recs[i], flags))
<1>1. PICK r : r = recs[i]
    OBVIOUS
<1>2. i \in DOMAIN recs
    BY DEF WellFormed, IsSequence
<1>3. r.type \in Nat /\ r.flags \in Nat /\ IsName(r.name) /\ IsData(r.data)
    BY <1>1, <1>2 DEF WellFormed
<1>4. PICK type \in Nat, rflags \in Nat, nlen \in Nat, dlen \in Nat :
        type = r.type /\ rflags = r.flags /\ nlen = Len(r.name) /\ dlen = Len(r.data)
    BY <1>3 DEF IsName, IsData, IsSequence
<1> DEFINE head == <<Num(type), Num(rflags), Num(nlen), Num(dlen)>>
           data == IF "xor" \in flags THEN XorTransform(r.data) ELSE r.data
           crc == <<Crc16(r.name \o r.data)>>
<1>5. \A n \in Nat : IsCell(Num(n)) /\ Num(n)[1] # "crc32"
    BY DEF Num, IsCell
<1>6. Plain(head)
  <2> DEFINE a == Num(type)
             b == Num(rflags)
             c == Num(nlen)
             d == Num(dlen)
  <2>1. \A x \in {a, b, c, d} : IsCell(x) /\ x[1] # "crc32"
      BY <1>5
  <2> HIDE DEF a, b, c, d
  <2>2. IsSequence(<<a, b, c, d>>) /\ Len(<<a, b, c, d>>) = 4
      BY DEF IsSequence
  <2>3. \A k \in 1..4 : <<a, b, c, d>>[k] \in {a, b, c, d}
      OBVIOUS
  <2>4. Plain(<<a, b, c, d>>)
      BY <2>1, <2>2, <2>3 DEF Plain
  <2> QED BY <2>4 DEF a, b, c, d
<1>7. Plain(crc)
  <2> DEFINE x == Crc16(r.name \o r.data)
  <2>1. IsCell(x) /\ x[1] # "crc32"
      BY DEF Crc16, IsCell, Kinds
  <2> HIDE DEF x
  <2>2. IsSequence(<<x>>) /\ Len(<<x>>) = 1 /\ \A k \in 1..1 : <<x>>[k] = x
      BY DEF IsSequence
  <2>3. Plain(<<x>>)
      BY <2>1, <2>2 DEF Plain
  <2> QED BY <2>3 DEF x
<1>8. Plain(r.name) /\ Plain(data)
    BY <1>3, PlainName, PlainData
<1>9. Record(r, flags) = ((head \o r.name) \o data) \o crc
    BY <1>4 DEF Record
<1> HIDE DEF head, data, crc
<1>10. Plain(((head \o r.name) \o data) \o crc)
    BY <1>6, <1>7, <1>8, PlainJoin
<1> QED BY <1>1, <1>9, <1>10

LEMMA PlainStored ==
    ASSUME NEW recs, WellFormed(recs), NEW flags
    PROVE  Plain(Stored(recs, flags)[Len(recs)])
<1> DEFINE f == Stored(recs, flags)
           T == {n \in Nat : n <= Len(recs) => Plain(f[n])}
<1>1. Len(recs) \in Nat
    BY DEF WellFormed, IsSequence
<1>2. f[0] = <<>> /\ \A n \in 1..Len(recs) : f[n] = f[n - 1] \o Record(recs[n], flags)
    BY <1>1, StoredNext
<1> HIDE DEF f
<1>3. 0 \in T
  <2>1. Plain(<<>>)
      BY DEF Plain, IsSequence
  <2> QED BY <1>2, <2>1
<1>4. ASSUME NEW n \in T PROVE n + 1 \in T
  <2>1. SUFFICES ASSUME n + 1 <= Len(recs) PROVE Plain(f[n + 1])
      OBVIOUS
  <2>2. n + 1 \in 1..Len(recs) /\ (n + 1) - 1 = n /\ Plain(f[n])
      BY <1>1, <2>1
  <2>3. f[n + 1] = f[n] \o Record(recs[n + 1], flags)
      BY <1>2, <2>2
  <2>4. Plain(Record(recs[n + 1], flags))
      BY <2>2, PlainRecord
  <2> QED BY <2>2, <2>3, <2>4, PlainJoin
<1>5. T = Nat
  <2> HIDE DEF T
  <2>1. T \in SUBSET Nat
      BY DEF T
  <2> QED BY <1>3, <1>4, <2>1, Induction
<1> QED BY <1>1, <1>5 DEF f

\* The cells of a payload behind the header.
LEMMA PlainPayload ==
    ASSUME NEW recs, WellFormed(recs), NEW flags, NEW author,
           NEW i \in 9..Len(Payload(recs, flags, author))
    PROVE  /\ IsCell(Payload(recs, flags, author)[i])
           /\ Payload(recs, flags, author)[i][1] # "crc32"
<1> DEFINE payload == Payload(recs, flags, author)
           header == Header(recs, flags, author)
           stored == Stored(recs, flags)[Len(recs)]
<1>1. AllWritable(recs, flags)
    BY WellFormedWritable
<1>2. Join(payload, header, stored)
    BY <1>1, PayloadCells
<1>3. Len(header) = 8
    BY HeaderLength
<1>4. Plain(stored)
    BY PlainStored
<1> HIDE DEF payload, header, stored
<1>5. Len(stored) \in Nat /\ Len(payload) = 8 + Len(stored)
    BY <1>2, <1>3 DEF Join
<1>6. i \in 9..Len(payload)
    BY DEF payload
<1>7. PICK k \in 1..Len(stored) : i = 8 + k
  <2>1. i - 8 \in 1..Len(stored) /\ i = 8 + (i - 8)
      BY <1>5, <1>6
  <2> QED BY <2>1
<1>8. payload[i] = stored[k]
    BY <1>2, <1>3, <1>7 DEF Join
<1> QED BY <1>4, <1>8 DEF Plain, payload

-----------------------------------------------------------------------------
(***************************************************************************)
(* Damage, and how the checks find it.                                     *)
(***************************************************************************)
\* An archive with a footer behind p cells.
IsWhole(full, p) ==
    /\ IsSequence(full) /\ p \in Nat /\ 8 <= p /\ Len(full) = p + 3
    /\ full[6] = Crc32(SubSeq(full, 1, 5)) /\ "footer" \in HeaderFlags(full)
    /\ \A i \in 9..p + 2 : full[i][1] # "crc32"
    /\ full[p + 1] = Mark("CRFE") /\ full[p + 2] = Num(p + 3)
    /\ full[p + 3] = Crc32(SubSeq(full, 1, p))

\* The three ways a file is damaged.
IsCut(cells, full) == \E n \in Nat : n < Len(full) /\ cells = SubSeq(full, 1, n)

IsChanged(cells, full) ==
    \E i \in 1..Len(full) : \E c \in Damaged :
        c[1] = full[i][1] /\ c # full[i] /\ cells = [full EXCEPT ![i] = c]

IsGrown(cells, full) == \E c \in Appended : cells = Append(full, c)

\* An archive is a file.
LEMMA ArchiveIsFile ==
    ASSUME NEW recs, WellFormed(recs), NEW flags, NEW author
    PROVE  IsFile(Archive(recs, flags, author)) /\ 8 <= Len(Archive(recs, flags, author))
<1> DEFINE cells == Archive(recs, flags, author)
           payload == Payload(recs, flags, author)
<1>1. AllWritable(recs, flags) /\ Len(recs) \in Nat
    BY WellFormedWritable DEF AllWritable
<1>2. Begins(payload, cells)
    BY <1>1, ArchiveCells
<1>3. IsSequence(cells) /\ 8 <= Len(cells) /\ cells[4] = Num(Len(recs))
    BY <1>1, <1>2, HeaderRead
<1>4. \A i \in 9..Len(payload) : IsCell(payload[i])
    BY PlainPayload
<1>5. /\ "footer" \in flags => HasFooter(cells, payload)
      /\ "footer" \notin flags => cells = payload
    BY <1>1, ArchiveCells
<1> HIDE DEF cells, payload
<1>6. PICK p \in Nat : p = Len(payload)
    BY <1>2 DEF Begins, IsSequence
<1>7. \A i \in 9..p : IsCell(cells[i])
  <2> TAKE i \in 9..p
  <2>1. i \in 1..p
      OBVIOUS
  <2>2. cells[i] = payload[i]
      BY <1>2, <1>6, <2>1 DEF Begins
  <2> QED BY <1>4, <1>6, <2>2
<1>8. ASSUME NEW i \in 9..Len(cells) PROVE IsCell(cells[i])
  <2>1. CASE "footer" \in flags
    <3>1. /\ Len(cells) = p + 3 /\ cells[p + 1] = Mark("CRFE")
          /\ cells[p + 2] = Num(p + 3) /\ cells[p + 3] = Crc32(payload)
        BY <1>5, <1>6, <2>1 DEF HasFooter
    <3>2. IsCell(Mark("CRFE")) /\ IsCell(Num(p + 3)) /\ IsCell(Crc32(payload))
        BY DEF IsCell, Mark, Num, Crc32, Kinds
    <3>3. i \in 9..p \/ i = p + 1 \/ i = p + 2 \/ i = p + 3
        BY <3>1
    <3> QED BY <1>7, <3>1, <3>2, <3>3
  <2>2. CASE "footer" \notin flags
      BY <1>5, <1>6, <1>7, <2>2
  <2> QED BY <2>1, <2>2
<1>9. cells[4][1] = "number" /\ NumRecords(cells) \in Nat
    BY <1>1, <1>3 DEF NumRecords, Num
<1>10. IsFile(cells)
    BY <1>3, <1>8, <1>9 DEF IsFile
<1> QED BY <1>3, <1>10 DEF cells

\* An archive with a footer, as the checks see it.
LEMMA ArchiveIsWhole ==
    ASSUME NEW recs, WellFormed(recs), NEW flags, "footer" \in flags, NEW author
    PROVE  IsWhole(Archive(recs, flags, author), Len(Payload(recs, flags, author)))
<1> DEFINE full == Archive(recs, flags, author)
           payload == Payload(recs, flags, author)
<1>1. AllWritable(recs, flags)
    BY WellFormedWritable
<1>2. Begins(payload, full) /\ HasFooter(full, payload)
    BY <1>1, ArchiveCells
<1>3. IsSequence(full) /\ full[3] = Flags(flags) /\ full[6] = Crc32(SubSeq(full, 1, 5))
    BY <1>1, <1>2, HeaderRead
<1>4. \A i \in 9..Len(payload) : payload[i][1] # "crc32"
    BY PlainPayload
<1>5. 8 <= Len(payload)
  <2>1. Begins(payload, payload)
      BY <1>2 DEF Begins, IsSequence
  <2> QED BY <1>1, <2>1, HeaderRead
<1> HIDE DEF full, payload
<1>6. PICK p \in Nat : p = Len(payload)
    BY <1>2 DEF Begins, IsSequence
<1>7. /\ Len(full) = p + 3 /\ SubSeq(full, 1, p) = payload
      /\ full[p + 1] = Mark("CRFE") /\ full[p + 2] = Num(p + 3) /\ full[p + 3] = Crc32(payload)
    BY <1>2, <1>6 DEF HasFooter
<1>8. ASSUME NEW i \in 9..p + 2 PROVE full[i][1] # "crc32"
  <2>1. CASE i \in 9..p
    <3>1. i \in 1..p
        BY <2>1
    <3>2. full[i] = payload[i]
        BY <1>2, <1>6, <3>1 DEF Begins
    <3> QED BY <1>4, <1>6, <2>1, <3>2
  <2>2. CASE i \notin 9..p
    <3>1. i = p + 1 \/ i = p + 2
        BY <2>2
    <3>2. Mark("CRFE")[1] # "crc32" /\ Num(p + 3)[1] # "crc32"
        BY DEF Mark, Num
    <3> QED BY <1>7, <3>1, <3>2
  <2> QED BY <2>1, <2>2
<1>9. "footer" \in HeaderFlags(full)
    BY <1>3 DEF HeaderFlags, Flags
<1>10. IsWhole(full, p)
    BY <1>3, <1>5, <1>6, <1>7, <1>8, <1>9 DEF IsWhole
<1> QED BY <1>6, <1>10 DEF full, payload

\* What both checks have seen to, of a file whose records end at pos.
IsChecked(cells, pos) ==
    /\ pos \in Nat /\ 8 <= pos /\ 8 <= Len(cells)
    /\ cells[6] = Crc32(SubSeq(cells, 1, 5))
    /\ "footer" \in HeaderFlags(cells) =>
          /\ pos + 3 <= Len(cells)
          /\ cells[pos + 2] = Num(Len(cells)) /\ cells[pos + 1] = Mark("CRFE")
          /\ cells[pos + 3] = Crc32(SubSeq(cells, 1, Len(cells) - 3))

\* What CValid or PyStrict implies, wherever damage made the readers stop.
LEMMA CheckedFile ==
    ASSUME NEW cells, IsFile(cells), CValid(cells) \/ PyStrict(cells)
    PROVE  IsChecked(cells, Parsed(cells).pos)
<1> DEFINE pos == Parsed(cells).pos
<1>1. /\ Readable(cells) /\ HeaderIntact(cells)
      /\ "footer" \in HeaderFlags(cells) =>
            FooterFits(cells, pos) /\ FooterMarked(cells, pos) /\ FooterIntact(cells, pos)
    BY DEF CValid, PyStrict
<1>2. 8 <= Len(cells)
    BY <1>1 DEF Readable, HEADER_SIZE
<1>3. pos \in Nat /\ 8 <= pos
    BY <1>2, AnyWalk DEF Sound
<1> HIDE DEF pos
<1>4. IsChecked(cells, pos)
    BY <1>1, <1>2, <1>3
       DEF IsChecked, HeaderIntact, FooterFits, FooterMarked, FooterIntact, FOOTER_SIZE
<1> QED BY <1>4 DEF pos

\* Of an archive that was cut, no cell before the end is the CRC of a footer.
LEMMA CutFound ==
    ASSUME NEW full, NEW p, IsWhole(full, p), NEW cells, IsCut(cells, full)
    PROVE  /\ IsSequence(cells) /\ Len(cells) <= p + 2
           /\ \A i \in 1..Len(cells) : cells[i] = full[i]
           /\ \A pos : ~ IsChecked(cells, pos)
<1>1. IsSequence(full) /\ p \in Nat /\ 8 <= p /\ Len(full) = p + 3
    BY DEF IsWhole
<1>2. PICK n \in Nat : n < Len(full) /\ cells = SubSeq(full, 1, n)
    BY DEF IsCut
<1>3. IsSequence(cells) /\ Len(cells) = n /\ \A i \in 1..n : cells[i] = full[i]
  <2>1. n <= Len(full)
      BY <1>1, <1>2
  <2> QED BY <1>1, <1>2, <2>1, Beginning
<1>4. n <= p + 2
    BY <1>1, <1>2
<1>5. ASSUME NEW pos, IsChecked(cells, pos) PROVE FALSE
  <2>1. pos \in Nat /\ 8 <= pos /\ 8 <= n
      BY <1>3, <1>5 DEF IsChecked
  <2>2. cells[3] = full[3] /\ cells[6] = full[6]
      BY <1>3, <2>1
  <2>3. "footer" \in HeaderFlags(cells)
      BY <2>2 DEF IsWhole, HeaderFlags
  <2>4. pos + 3 <= n /\ \E x : cells[pos + 3] = Crc32(x)
      BY <1>3, <1>5, <2>3 DEF IsChecked
  <2>5. pos + 3 \in 1..n /\ pos + 3 \in 9..p + 2
      BY <1>1, <1>4, <2>1, <2>4
  <2>6. full[pos + 3][1] # "crc32"
      BY <2>5 DEF IsWhole
  <2>7. full[pos + 3][1] = "crc32"
      BY <1>3, <2>4, <2>5 DEF Crc32
  <2> QED BY <2>6, <2>7
<1> QED BY <1>3, <1>4, <1>5

\* With a cell behind the end, the size or the CRC is not where the footer would be.
LEMMA GrownFound ==
    ASSUME NEW full, NEW p, IsWhole(full, p), NEW cells, IsGrown(cells, full)
    PROVE  \A pos : ~ IsChecked(cells, pos)
<1>1. IsSequence(full) /\ p \in Nat /\ 8 <= p /\ Len(full) = p + 3
    BY DEF IsWhole
<1>2. PICK c : cells = Append(full, c)
    BY DEF IsGrown
<1>3. /\ IsSequence(cells) /\ Len(cells) = p + 4
      /\ \A i \in 1..p + 3 : cells[i] = full[i]
  <2>1. /\ IsSequence(Append(full, c)) /\ Len(Append(full, c)) = Len(full) + 1
        /\ \A i \in 1..Len(full) : Append(full, c)[i] = full[i]
      BY <1>1, AppendedAt
  <2> QED BY <1>1, <1>2, <2>1
<1>4. ASSUME NEW pos, IsChecked(cells, pos) PROVE FALSE
  <2>1. pos \in Nat /\ 8 <= pos
      BY <1>4 DEF IsChecked
  <2>2. cells[3] = full[3]
      BY <1>1, <1>3
  <2>3. "footer" \in HeaderFlags(cells)
      BY <2>2 DEF IsWhole, HeaderFlags
  <2>4. /\ pos + 3 <= p + 4 /\ cells[pos + 2] = Num(p + 4)
        /\ \E x : cells[pos + 3] = Crc32(x)
      BY <1>3, <1>4, <2>3 DEF IsChecked
  <2>5. CASE pos + 3 <= p + 2
    <3>1. pos + 3 \in 9..p + 2 /\ pos + 3 \in 1..p + 3
        BY <1>1, <2>1, <2>5
    <3>2. full[pos + 3][1] # "crc32"
        BY <3>1 DEF IsWhole
    <3>3. full[pos + 3][1] = "crc32"
        BY <1>3, <2>4, <3>1 DEF Crc32
    <3> QED BY <3>2, <3>3
  <2>6. CASE pos = p
    <3>1. p + 2 \in 1..p + 3
        BY <1>1
    <3>2. Num(p + 4) = Num(p + 3)
        BY <1>3, <2>4, <2>6, <3>1 DEF IsWhole
    <3>3. p + 4 = p + 3
        BY <3>2 DEF Num
    <3> QED BY <1>1, <3>3
  <2>7. CASE pos = p + 1
    <3>1. p + 3 \in 1..p + 3 /\ pos + 2 = p + 3
        BY <1>1, <2>7
    <3>2. Num(p + 4) = Crc32(SubSeq(full, 1, p))
        BY <1>3, <2>4, <3>1 DEF IsWhole
    <3> QED BY <3>2 DEF Num, Crc32
  <2> QED BY <1>1, <2>1, <2>4, <2>5, <2>6, <2>7
<1> QED BY <1>4

\* A changed cell, and the kinds of all of them.
LEMMA ChangedCells ==
    ASSUME NEW full, IsSequence(full), NEW cells, IsChanged(cells, full)
    PROVE  \E i \in 1..Len(full) : \E c \in Damaged :
              /\ c[1] = full[i][1] /\ c # full[i] /\ cells[i] = c
              /\ IsSequence(cells) /\ Len(cells) = Len(full)
              /\ \A j \in 1..Len(full) : j # i => cells[j] = full[j]
              /\ \A j \in 1..Len(full) : cells[j][1] = full[j][1]
<1>1. PICK i \in 1..Len(full) : \E c \in Damaged :
         c[1] = full[i][1] /\ c # full[i] /\ cells = [full EXCEPT ![i] = c]
    BY DEF IsChanged
<1>2. PICK c \in Damaged : c[1] = full[i][1] /\ c # full[i] /\ cells = [full EXCEPT ![i] = c]
    BY <1>1
<1>3. PICK l \in Nat : l = Len(full)
    BY DEF IsSequence
<1>4. full = [j \in 1..l |-> full[j]]
    BY <1>3 DEF IsSequence
<1>5. cells = [j \in 1..l |-> IF j = i THEN c ELSE full[j]]
    BY <1>2, <1>3, <1>4
<1>6. \A j \in 1..l : cells[j] = IF j = i THEN c ELSE full[j]
    BY <1>5
<1>7. cells = [j \in 1..l |-> cells[j]]
    BY <1>5
<1>8. IsSequence(cells) /\ Len(cells) = l
    BY <1>7, FunctionIs
<1> QED BY <1>1, <1>2, <1>3, <1>6, <1>8

\* A changed cell is in the header, which has its CRC, or the footer's CRC covers it.
LEMMA ChangedFound ==
    ASSUME NEW full, NEW p, IsWhole(full, p), NEW cells, IsChanged(cells, full)
    PROVE  \A pos : ~ IsChecked(cells, pos)
<1>1. IsSequence(full) /\ p \in Nat /\ 8 <= p /\ Len(full) = p + 3
    BY DEF IsWhole
<1>2. PICK i \in 1..Len(full) : \E c \in Damaged :
              /\ c[1] = full[i][1] /\ c # full[i] /\ cells[i] = c
              /\ IsSequence(cells) /\ Len(cells) = Len(full)
              /\ \A j \in 1..Len(full) : j # i => cells[j] = full[j]
              /\ \A j \in 1..Len(full) : cells[j][1] = full[j][1]
    BY <1>1, ChangedCells
<1>3. /\ cells[i] # full[i] /\ IsSequence(cells) /\ Len(cells) = p + 3
      /\ \A j \in 1..p + 3 : j # i => cells[j] = full[j]
      /\ \A j \in 1..p + 3 : cells[j][1] = full[j][1]
    BY <1>1, <1>2
<1>4. ASSUME NEW n \in Nat, n <= p + 3
      PROVE  /\ IsSequence(SubSeq(cells, 1, n)) /\ Len(SubSeq(cells, 1, n)) = n
             /\ \A j \in 1..n : SubSeq(cells, 1, n)[j] = cells[j]
             /\ IsSequence(SubSeq(full, 1, n)) /\ Len(SubSeq(full, 1, n)) = n
             /\ \A j \in 1..n : SubSeq(full, 1, n)[j] = full[j]
    BY <1>1, <1>3, <1>4, Beginning
<1>5. ASSUME NEW n \in Nat, n <= p + 3, Crc32(SubSeq(cells, 1, n)) = Crc32(SubSeq(full, 1, n))
      PROVE  i \notin 1..n
  <2>1. SubSeq(cells, 1, n) = SubSeq(full, 1, n)
      BY <1>5 DEF Crc32
  <2>2. \A j \in 1..n : cells[j] = full[j]
      BY <1>4, <1>5, <2>1
  <2> QED BY <1>3, <2>2
<1>6. ASSUME NEW pos, IsChecked(cells, pos) PROVE FALSE
  <2>1. /\ pos \in Nat /\ 8 <= pos /\ cells[6] = Crc32(SubSeq(cells, 1, 5))
        /\ full[6] = Crc32(SubSeq(full, 1, 5))
      BY <1>6 DEF IsChecked, IsWhole
  <2>2. i \notin 1..5
    <3>1. SUFFICES ASSUME i # 6 PROVE i \notin 1..5
        OBVIOUS
    <3>2. 6 \in 1..p + 3 /\ 5 <= p + 3 /\ 5 \in Nat
        BY <1>1
    <3>3. cells[6] = full[6]
        BY <1>3, <3>1, <3>2
    <3> QED BY <1>5, <2>1, <3>2, <3>3
  <2>3. cells[3] = full[3]
    <3>1. 3 \in 1..p + 3 /\ 3 # i
        BY <1>1, <2>2
    <3> QED BY <1>3, <3>1
  <2>4. "footer" \in HeaderFlags(cells)
      BY <2>3 DEF IsWhole, HeaderFlags
  <2>5. /\ pos + 3 <= p + 3 /\ cells[pos + 1] = Mark("CRFE") /\ cells[pos + 2] = Num(p + 3)
        /\ cells[pos + 3] = Crc32(SubSeq(cells, 1, (p + 3) - 3)) /\ (p + 3) - 3 = p
      BY <1>1, <1>3, <1>6, <2>4 DEF IsChecked
  <2>6. pos = p
    <3>1. SUFFICES ASSUME pos # p PROVE FALSE
        OBVIOUS
    <3>2. pos + 3 \in 9..p + 2 /\ pos + 3 \in 1..p + 3
        BY <1>1, <2>1, <2>5, <3>1
    <3>3. full[pos + 3][1] # "crc32"
        BY <3>2 DEF IsWhole
    <3>4. cells[pos + 3][1] = "crc32"
        BY <2>5 DEF Crc32
    <3> QED BY <1>3, <3>2, <3>3, <3>4
  <2>7. /\ full[p + 1] = Mark("CRFE") /\ full[p + 2] = Num(p + 3)
        /\ full[p + 3] = Crc32(SubSeq(full, 1, p))
      BY DEF IsWhole
  <2>8. i # p + 1 /\ i # p + 2
      BY <1>3, <2>5, <2>6, <2>7
  <2>9. i # p + 3
    <3>1. SUFFICES ASSUME i = p + 3 PROVE FALSE
        OBVIOUS
    <3>2. SubSeq(cells, 1, p) = SubSeq(full, 1, p)
      <4>1. p <= p + 3
          BY <1>1
      <4>2. \A j \in 1..p : cells[j] = full[j]
          BY <1>1, <1>3, <3>1
      <4> DEFINE s == SubSeq(cells, 1, p)
                 t == SubSeq(full, 1, p)
      <4>3. /\ IsSequence(s) /\ Len(s) = p /\ \A j \in 1..p : s[j] = cells[j]
            /\ IsSequence(t) /\ Len(t) = p /\ \A j \in 1..p : t[j] = full[j]
          BY <1>1, <1>4, <4>1
      <4> HIDE DEF s, t
      <4>4. s = t
          BY <4>2, <4>3, SameSequence
      <4> QED BY <4>4 DEF s, t
    <3> QED BY <1>3, <2>5, <2>6, <2>7, <3>1, <3>2
  <2>10. i \in 1..p
      BY <1>1, <1>2, <2>8, <2>9
  <2>11. cells[p + 3] = full[p + 3]
    <3>1. p + 3 \in 1..p + 3
        BY <1>1
    <3> QED BY <1>3, <2>9, <3>1
  <2>12. p \in Nat /\ p <= p + 3
      BY <1>1
  <2>13. Crc32(SubSeq(cells, 1, p)) = Crc32(SubSeq(full, 1, p))
      BY <2>5, <2>6, <2>7, <2>11
  <2> QED BY <1>5, <2>10, <2>12, <2>13
<1> QED BY <1>6

\* A damaged copy of a file is a file.
LEMMA DamagedIsFile ==
    ASSUME NEW full, IsFile(full), 8 <= Len(full), NEW cells,
           IsCut(cells, full) \/ IsChanged(cells, full) \/ IsGrown(cells, full)
    PROVE  IsFile(cells)
<1>1. IsSequence(full) /\ \A i \in 9..Len(full) : IsCell(full[i])
    BY DEF IsFile
<1>2. PICK l \in Nat : l = Len(full)
    BY <1>1 DEF IsSequence
<1>3. full[4][1] = "number" /\ NumRecords(full) \in Nat
    BY DEF IsFile
<1>4. CASE IsCut(cells, full)
  <2>1. PICK n \in Nat : n < l /\ cells = SubSeq(full, 1, n)
      BY <1>2, <1>4 DEF IsCut
  <2>2. IsSequence(cells) /\ Len(cells) = n /\ \A i \in 1..n : cells[i] = full[i]
    <3>1. n <= Len(full)
        BY <1>2, <2>1
    <3> QED BY <1>1, <2>1, <3>1, Beginning
  <2>3. ASSUME NEW i \in 9..n PROVE IsCell(cells[i])
    <3>1. i \in 9..l /\ i \in 1..n
        BY <2>1
    <3> QED BY <1>1, <1>2, <2>2, <3>1
  <2>4. 8 <= n => cells[4][1] = "number" /\ NumRecords(cells) \in Nat
    <3>1. 8 <= n => 4 \in 1..n
        OBVIOUS
    <3> QED BY <1>3, <2>2, <3>1 DEF NumRecords
  <2> QED BY <2>2, <2>3, <2>4 DEF IsFile
<1>5. CASE IsChanged(cells, full)
  <2>1. PICK i \in 1..Len(full) : \E c \in Damaged :
              /\ c[1] = full[i][1] /\ c # full[i] /\ cells[i] = c
              /\ IsSequence(cells) /\ Len(cells) = Len(full)
              /\ \A j \in 1..Len(full) : j # i => cells[j] = full[j]
              /\ \A j \in 1..Len(full) : cells[j][1] = full[j][1]
      BY <1>1, <1>5, ChangedCells
  <2>2. IsCell(cells[i])
      BY <2>1, ToolsAssumption
  <2>3. /\ IsSequence(cells) /\ Len(cells) = l
        /\ \A j \in 1..l : j # i => cells[j] = full[j]
        /\ \A j \in 1..l : cells[j][1] = full[j][1]
      BY <1>2, <2>1
  <2>4. ASSUME NEW j \in 9..l PROVE IsCell(cells[j])
    <3>1. j \in 1..l
        OBVIOUS
    <3> QED BY <1>1, <1>2, <2>2, <2>3, <3>1
  <2>5. 4 \in 1..l
      BY <1>2
  <2>6. cells[4][1] = "number"
      BY <1>3, <2>3, <2>5
  <2>7. NumRecords(cells) \in Nat
    <3>1. CASE i = 4
        BY <2>2, <2>6, <3>1 DEF IsCell, NumRecords
    <3>2. CASE i # 4
        BY <1>3, <2>3, <2>5, <3>2 DEF NumRecords
    <3> QED BY <3>1, <3>2
  <2> QED BY <2>3, <2>4, <2>6, <2>7 DEF IsFile
<1>6. CASE IsGrown(cells, full)
  <2>1. PICK c \in Appended : cells = Append(full, c)
      BY <1>6 DEF IsGrown
  <2>2. IsCell(c)
      BY ToolsAssumption
  <2>3. /\ IsSequence(cells) /\ Len(cells) = l + 1
        /\ \A i \in 1..l : cells[i] = full[i]
        /\ cells[l + 1] = c
      BY <1>1, <1>2, <2>1, AppendedAt
  <2>4. ASSUME NEW i \in 9..l + 1 PROVE IsCell(cells[i])
    <3>1. CASE i = l + 1
        BY <2>2, <2>3, <3>1
    <3>2. CASE i # l + 1
      <4>1. i \in 9..l /\ i \in 1..l
          BY <3>2
      <4> QED BY <1>1, <1>2, <2>3, <4>1
    <3> QED BY <3>1, <3>2
  <2>5. cells[4][1] = "number" /\ NumRecords(cells) \in Nat
    <3>1. 4 \in 1..l
        BY <1>2
    <3> QED BY <1>3, <2>3, <3>1 DEF NumRecords
  <2> QED BY <2>3, <2>4, <2>5 DEF IsFile
<1> QED BY <1>4, <1>5, <1>6

\* Damage is found by either check.
LEMMA DamageFound ==
    ASSUME NEW recs, WellFormed(recs), NEW flags, "footer" \in flags, NEW author, NEW cells,
           \/ IsCut(cells, Archive(recs, flags, author))
           \/ IsChanged(cells, Archive(recs, flags, author))
           \/ IsGrown(cells, Archive(recs, flags, author))
    PROVE  ~ CValid(cells) /\ ~ PyStrict(cells)
<1> DEFINE full == Archive(recs, flags, author)
           p == Len(Payload(recs, flags, author))
<1>1. IsFile(full) /\ 8 <= Len(full)
    BY ArchiveIsFile
<1>2. IsWhole(full, p)
    BY ArchiveIsWhole
<1> HIDE DEF full, p
<1>3. IsCut(cells, full) \/ IsChanged(cells, full) \/ IsGrown(cells, full)
    BY DEF full
<1>4. IsFile(cells)
    BY <1>1, <1>3, DamagedIsFile
<1>5. \A pos : ~ IsChecked(cells, pos)
    BY <1>2, <1>3, CutFound, ChangedFound, GrownFound
<1> QED BY <1>4, <1>5, CheckedFile

-----------------------------------------------------------------------------
(***************************************************************************)
(* Extracting.                                                             *)
(***************************************************************************)

\* recs[i] is the last of its name.
IsLast(recs, i) == \A j \in DOMAIN recs : j > i => recs[j].name # recs[i].name

\* Of the records of one name, one is the last.
LEMMA LastOfName ==
    ASSUME NEW recs, IsSequence(recs), NEW n, \E i \in DOMAIN recs : recs[i].name = n
    PROVE  \E i \in DOMAIN recs : recs[i].name = n /\ IsLast(recs, i)
<1>1. PICK l \in Nat : l = Len(recs) /\ DOMAIN recs = 1..l
    BY DEF IsSequence
<1> DEFINE T == {d \in Nat : d <= l /\ (l - d) \in 1..l /\ recs[l - d].name = n}
<1>2. T # {}
  <2>1. PICK i \in 1..l : recs[i].name = n
      BY <1>1
  <2>2. l - i \in Nat /\ l - (l - i) = i
      OBVIOUS
  <2>3. l - i \in T
      BY <2>1, <2>2
  <2> QED BY <2>3
<1>3. T \in SUBSET Nat
    OBVIOUS
<1> HIDE DEF T
<1>4. PICK d \in T : \A e \in T : d <= e
    BY <1>2, <1>3, LeastNumber
<1>5. PICK i \in 1..l : d = l - i /\ recs[i].name = n
  <2>1. d \in Nat /\ (l - d) \in 1..l /\ recs[l - d].name = n
      BY DEF T
  <2>2. d = l - (l - d)
      BY <2>1
  <2> QED BY <2>1, <2>2
<1>6. ASSUME NEW j \in 1..l, j > i PROVE recs[j].name # n
  <2>1. SUFFICES ASSUME recs[j].name = n PROVE FALSE
      OBVIOUS
  <2>2. l - j \in Nat /\ l - (l - j) = j
      OBVIOUS
  <2>3. l - j \in T
      BY <2>1, <2>2 DEF T
  <2>4. l - i <= l - j
      BY <1>4, <1>5, <2>3
  <2> QED BY <1>6, <2>4
<1>7. IsLast(recs, i)
    BY <1>1, <1>5, <1>6 DEF IsLast
<1> QED BY <1>1, <1>5, <1>7

\* The files of Extracted are the last records of their names.
LEMMA ExtractedLast ==
    ASSUME NEW recs, IsSequence(recs)
    PROVE  /\ DOMAIN Extracted(recs) = {recs[i].name : i \in DOMAIN recs} \ {<<>>}
           /\ \A n \in DOMAIN Extracted(recs) :
                 \E i \in DOMAIN recs :
                    /\ recs[i].name = n /\ IsLast(recs, i)
                    /\ Extracted(recs)[n] = recs[i].data
<1> DEFINE At(n) == {i \in DOMAIN recs : recs[i].name = n}
           Kept(n) == CHOOSE i \in At(n) : \A j \in At(n) : j <= i
           files == {recs[i].name : i \in DOMAIN recs} \ {<<>>}
<1>1. Extracted(recs) = [n \in files |-> recs[Kept(n)].data]
    BY DEF Extracted
<1>2. DOMAIN Extracted(recs) = files
    BY <1>1
<1>3. ASSUME NEW n \in files
      PROVE  \E i \in DOMAIN recs :
                recs[i].name = n /\ IsLast(recs, i) /\ Extracted(recs)[n] = recs[i].data
  <2>1. PICK i \in DOMAIN recs : recs[i].name = n /\ IsLast(recs, i)
    <3>1. \E i \in DOMAIN recs : recs[i].name = n
        BY <1>3
    <3> QED BY <3>1, LastOfName
  <2>2. PICK l \in Nat : DOMAIN recs = 1..l
      BY DEF IsSequence
  <2>3. i \in At(n) /\ \A j \in At(n) : j <= i
    <3>1. ASSUME NEW j \in At(n) PROVE j <= i
      <4>1. j \in 1..l /\ i \in 1..l /\ recs[j].name = n
          BY <2>2
      <4>2. ~ (j > i)
          BY <2>1, <2>2, <4>1 DEF IsLast
      <4> QED BY <4>1, <4>2
    <3> QED BY <2>1, <3>1
  <2>4. \A k \in At(n) : (\A j \in At(n) : j <= k) => k = i
    <3> SUFFICES ASSUME NEW k \in At(n), \A j \in At(n) : j <= k PROVE k = i
        OBVIOUS
    <3>1. k \in 1..l /\ i \in 1..l /\ i <= k /\ k <= i
        BY <2>2, <2>3
    <3> QED BY <3>1
  <2>5. Kept(n) \in At(n) /\ \A j \in At(n) : j <= Kept(n)
      BY <2>3
  <2>6. Kept(n) = i
      BY <2>4, <2>5
  <2>7. Extracted(recs)[n] = recs[i].data
      BY <1>1, <2>6
  <2> QED BY <2>1, <2>7
<1> QED BY <1>2, <1>3

\* The C tool unpacks what was written.
LEMMA ReadExtracted ==
    ASSUME NEW recs, IsSequence(recs), NEW found, AsRead(found, recs)
    PROVE  /\ DOMAIN Extracted(found) = {recs[i].name : i \in DOMAIN recs} \ {<<>>}
           /\ \A n \in DOMAIN Extracted(found) :
                 \E i \in DOMAIN recs :
                    /\ recs[i].name = n /\ IsLast(recs, i)
                    /\ Extracted(found)[n] = recs[i].data
<1>1. PICK l \in Nat : /\ l = Len(recs) /\ DOMAIN recs = 1..l
                       /\ IsSequence(found) /\ DOMAIN found = 1..l
    BY DEF AsRead, IsSequence
<1>2. \A i \in 1..l : found[i].name = recs[i].name /\ found[i].data = recs[i].data
    BY <1>1, ReadFields
<1>3. /\ DOMAIN Extracted(found) = {found[i].name : i \in DOMAIN found} \ {<<>>}
      /\ \A n \in DOMAIN Extracted(found) :
            \E i \in DOMAIN found :
               /\ found[i].name = n /\ IsLast(found, i)
               /\ Extracted(found)[n] = found[i].data
    BY <1>1, ExtractedLast
<1>4. {found[i].name : i \in DOMAIN found} = {recs[i].name : i \in DOMAIN recs}
    BY <1>1, <1>2
<1>5. \A i \in 1..l : IsLast(found, i) => IsLast(recs, i)
    BY <1>1, <1>2 DEF IsLast
<1>6. ASSUME NEW n \in DOMAIN Extracted(found)
      PROVE  \E i \in DOMAIN recs :
                    /\ recs[i].name = n /\ IsLast(recs, i)
                    /\ Extracted(found)[n] = recs[i].data
  <2>1. PICK i \in 1..l :
           found[i].name = n /\ IsLast(found, i) /\ Extracted(found)[n] = found[i].data
      BY <1>1, <1>3
  <2> QED BY <1>1, <1>2, <1>5, <2>1
<1> QED BY <1>3, <1>4, <1>6

LEMMA DecodedAscii ==
    ASSUME NEW name, IsSequence(name), \A i \in DOMAIN name : IsAscii(name[i])
    PROVE  Decoded(name) = name
<1>1. Decoded(name) = [i \in DOMAIN name |-> name[i]]
    BY DEF Decoded
<1>2. name = [i \in DOMAIN name |-> name[i]]
    BY DEF IsSequence
<1> QED BY <1>1, <1>2

LEMMA NamedAsRead ==
    ASSUME NEW recs, IsSequence(recs), AsciiNames(recs),
           \A i \in DOMAIN recs : IsSequence(recs[i].name),
           NEW found, AsRead(found, recs)
    PROVE  /\ IsSequence(PyNamed(found)) /\ DOMAIN PyNamed(found) = DOMAIN recs
           /\ \A i \in DOMAIN recs :
                 /\ PyNamed(found)[i].name =
                       IF recs[i].name = <<>> THEN <<Part("unnamed")>> ELSE recs[i].name
                 /\ PyNamed(found)[i].data = recs[i].data
<1>1. PICK l \in Nat : /\ l = Len(recs) /\ DOMAIN recs = 1..l
                       /\ IsSequence(found) /\ DOMAIN found = 1..l
    BY DEF AsRead, IsSequence
<1> DEFINE New(name) == IF name = <<>> THEN <<Part("unnamed")>> ELSE Decoded(name)
           named == PyNamed(found)
<1>2. named = [i \in 1..l |-> [found[i] EXCEPT !.name = New(found[i].name)]]
    BY <1>1 DEF PyNamed
<1> HIDE DEF named
<1>3. ASSUME NEW i \in 1..l
      PROVE  /\ named[i].name = New(recs[i].name) /\ named[i].data = recs[i].data
  <2>1. PICK r : r = recs[i]
      OBVIOUS
  <2>2. found[i] = ReadBack(r)
      BY <1>1, <2>1 DEF AsRead
  <2>3. named[i] = [found[i] EXCEPT !.name = New(found[i].name)]
      BY <1>2
  <2>4. ReadBack(r).name = r.name /\ ReadBack(r).data = r.data
      BY DEF ReadBack
  <2>5. named[i] = [ReadBack(r) EXCEPT !.name = New(r.name)]
      BY <2>2, <2>3, <2>4
  <2> HIDE DEF New
  <2>6. \A x : [ReadBack(r) EXCEPT !.name = x].name = x /\ [ReadBack(r) EXCEPT !.name = x].data = r.data
      BY DEF ReadBack
  <2> QED BY <2>1, <2>5, <2>6
<1>4. ASSUME NEW i \in 1..l, recs[i].name # <<>> PROVE Decoded(recs[i].name) = recs[i].name
  <2>1. IsSequence(recs[i].name)
      BY <1>1
  <2>2. \A j \in DOMAIN recs[i].name : IsAscii(recs[i].name[j])
      BY <1>1 DEF AsciiNames
  <2> QED BY <2>1, <2>2, DecodedAscii
<1>5. named = [i \in 1..l |-> named[i]]
    BY <1>2
<1>6. IsSequence(named) /\ DOMAIN named = 1..l
    BY <1>5, FunctionIs
<1> QED BY <1>1, <1>3, <1>4, <1>6 DEF named

\* The Python tool does, too, but for names it shares.
LEMMA NamedExtracted ==
    ASSUME NEW recs, IsSequence(recs), AsciiNames(recs),
           \A i \in DOMAIN recs : IsSequence(recs[i].name),
           NEW found, AsRead(found, recs),
           NEW n \in {recs[i].name : i \in DOMAIN recs}, n # <<>>,
           n = <<Part("unnamed")>> => \A i \in DOMAIN recs : recs[i].name # <<>>
    PROVE  /\ n \in DOMAIN Extracted(PyNamed(found))
           /\ \E i \in DOMAIN recs :
                 /\ recs[i].name = n /\ IsLast(recs, i)
                 /\ Extracted(PyNamed(found))[n] = recs[i].data
<1> DEFINE named == PyNamed(found)
<1>1. /\ IsSequence(named) /\ DOMAIN named = DOMAIN recs
      /\ \A i \in DOMAIN recs :
            /\ named[i].name = IF recs[i].name = <<>> THEN <<Part("unnamed")>> ELSE recs[i].name
            /\ named[i].data = recs[i].data
    BY NamedAsRead
<1> HIDE DEF named
<1>2. /\ DOMAIN Extracted(named) = {named[i].name : i \in DOMAIN named} \ {<<>>}
      /\ \A m \in DOMAIN Extracted(named) :
            \E i \in DOMAIN named :
               /\ named[i].name = m /\ IsLast(named, i)
               /\ Extracted(named)[m] = named[i].data
    BY <1>1, ExtractedLast
<1>3. \A i \in DOMAIN recs : named[i].name = n <=> recs[i].name = n
    BY <1>1
<1>4. n \in DOMAIN Extracted(named)
    BY <1>1, <1>2, <1>3
<1>5. PICK i \in DOMAIN recs :
         named[i].name = n /\ IsLast(named, i) /\ Extracted(named)[n] = named[i].data
    BY <1>1, <1>2, <1>4
<1>6. IsLast(recs, i)
    BY <1>1, <1>3, <1>5 DEF IsLast
<1>7. recs[i].name = n /\ recs[i].data = Extracted(named)[n]
    BY <1>1, <1>3, <1>5
<1> QED BY <1>4, <1>6, <1>7 DEF named

-----------------------------------------------------------------------------
(***************************************************************************)
(* The invariant.                                                          *)
(***************************************************************************)
Authors == Users \cup {"python", "chkpt"}

IsDamaged(cells, full) == IsCut(cells, full) \/ IsChanged(cells, full) \/ IsGrown(cells, full)

\* cells are the archive made, or what was left of it.
FromWritten(cells, whole, made) ==
    \E author \in Authors :
        IF whole THEN cells = Archive(made.recs, made.flags, author)
        ELSE IsDamaged(cells, Archive(made.recs, made.flags, author))

\* The answer to a command is computed from cells.
Answered(answer, files, cells) ==
    /\ answer.cmd = "unpack" =>
          /\ answer.exit = (IF Readable(cells) THEN 0 ELSE 1)
          /\ files = IF Readable(cells) THEN Extracted(Records(cells)) ELSE NoFiles
    /\ answer.cmd = "py unpack" =>
          /\ answer.exit = (IF PyStrict(cells) THEN 0 ELSE 1)
          /\ files = IF PyStrict(cells) THEN Extracted(PyNamed(Records(cells))) ELSE NoFiles
    /\ answer.cmd = "validate" => answer.exit = IF CValid(cells) THEN 0 ELSE 1
    /\ answer.cmd = "roundtrip" /\ answer.exit = 0 => PyStrict(cells)

ArchiveInvariant ==
    /\ WellFormed(written.recs)
    /\ FromWritten(archive, intact, written)
    /\ Answered(last, out, archive)

\* The records made of files.
LEMMA ListRecords ==
    ASSUME NEW list \in Lists, AllOpen(list), Len(list) <= MAX_RECORDS
    PROVE  WellFormed(CRecords(list)) /\ WellFormed(PyRecords(list))
<1>1. PICK l \in Nat : l = Len(list) /\ DOMAIN list = 1..l /\ l <= MAX_RECORDS
    BY ToolsAssumption DEF IsSequence
<1>2. \A name : CType(name) \in Nat /\ PyType(name) \in Nat
    BY DEF CType, PyType
<1>3. ASSUME NEW i \in 1..l, NEW type \in Nat
      PROVE  LET f == Files[list[i]]
                 r == NewRecord(type, f.name, f.data)
             IN  /\ r.type \in Nat /\ r.flags \in Nat
                 /\ IsName(r.name) /\ IsData(r.data) /\ r.data_len = Len(r.data)
  <2>1. list[i] \in DOMAIN Files
      BY <1>1 DEF AllOpen
  <2>2. IsName(Files[list[i]].name) /\ IsData(Files[list[i]].data)
      BY <2>1, ToolsAssumption
  <2> QED BY <2>2 DEF NewRecord
<1> DEFINE c == CRecords(list)
           py == PyRecords(list)
<1>4. /\ c = [i \in 1..l |->
                LET f == Files[list[i]] IN NewRecord(CType(f.name), f.name, f.data)]
      /\ py = [i \in 1..l |->
                 LET f == Files[list[i]] IN NewRecord(PyType(f.name), f.name, f.data)]
    BY <1>1 DEF CRecords, PyRecords
<1> HIDE DEF c, py
<1>5. c = [i \in 1..l |-> c[i]] /\ py = [i \in 1..l |-> py[i]]
    BY <1>4
<1>6. /\ IsSequence(c) /\ Len(c) = l /\ DOMAIN c = 1..l
      /\ IsSequence(py) /\ Len(py) = l /\ DOMAIN py = 1..l
    BY <1>5, FunctionIs
<1>7. ASSUME NEW i \in 1..l
      PROVE  /\ c[i].type \in Nat /\ c[i].flags \in Nat
             /\ IsName(c[i].name) /\ IsData(c[i].data) /\ c[i].data_len = Len(c[i].data)
    BY <1>2, <1>3, <1>4
<1>8. ASSUME NEW i \in 1..l
      PROVE  /\ py[i].type \in Nat /\ py[i].flags \in Nat
             /\ IsName(py[i].name) /\ IsData(py[i].data) /\ py[i].data_len = Len(py[i].data)
    BY <1>2, <1>3, <1>4
<1>9. WellFormed(c) /\ WellFormed(py)
    BY <1>1, <1>6, <1>7, <1>8 DEF WellFormed
<1> QED BY <1>9 DEF c, py

LEMMA CutOfWhole ==
    ASSUME NEW full, NEW n \in Nat, n < Len(full)
    PROVE  IsDamaged(SubSeq(full, 1, n), full)
BY DEF IsDamaged, IsCut

\* Writing leaves a whole archive or a beginning of one.
LEMMA WriteFrom ==
    ASSUME NEW cmd, NEW recs, WellFormed(recs), NEW flags, NEW author \in Authors,
           Write(cmd, recs, flags, author)
    PROVE  WellFormed(written.recs)' /\ FromWritten(archive, intact, written)' /\ last'.cmd = cmd
<1> DEFINE full == Archive(recs, flags, author)
<1>1. written' = [recs |-> recs, flags |-> flags] /\ last'.cmd = cmd
    BY DEF Write, Ends
<1>2. written'.recs = recs /\ written'.flags = flags
    BY <1>1
<1>3. \/ archive' = full /\ intact' = TRUE
      \/ intact' = FALSE /\ \E n \in Rooms : n < Len(full) /\ archive' = SubSeq(full, 1, n)
    BY DEF Write
<1> HIDE DEF full
<1>4. IF intact' THEN archive' = full ELSE IsDamaged(archive', full)
  <2>1. CASE archive' = full /\ intact' = TRUE
      BY <2>1
  <2>2. CASE intact' = FALSE /\ \E n \in Rooms : n < Len(full) /\ archive' = SubSeq(full, 1, n)
    <3>1. PICK n \in Rooms : n < Len(full) /\ archive' = SubSeq(full, 1, n)
        BY <2>2
    <3>2. n \in Nat
        BY ToolsAssumption
    <3> QED BY <2>2, <3>1, <3>2, CutOfWhole
  <2> QED BY <1>3, <2>1, <2>2
<1>5. FromWritten(archive, intact, written)'
    BY <1>2, <1>4 DEF FromWritten, full
<1> QED BY <1>1, <1>2, <1>5

LEMMA InitArchive ==
    Init => ArchiveInvariant
<1> SUFFICES ASSUME Init PROVE ArchiveInvariant
    OBVIOUS
<1>1. /\ archive = <<>> /\ intact = FALSE
      /\ written.recs = <<>> /\ written.flags = {} /\ last.cmd = "none"
    BY DEF Init
<1>2. WellFormed(<<>>)
    BY FormatAssumption DEF WellFormed, IsSequence
<1>3. "python" \in Authors
    BY DEF Authors
<1> DEFINE full == Archive(<<>>, {}, "python")
<1>4. IsFile(full) /\ 8 <= Len(full)
    BY <1>2, ArchiveIsFile
<1> HIDE DEF full
<1>5. IsSequence(full) /\ Len(full) \in Nat
    BY <1>4 DEF IsFile, IsSequence
<1>6. SubSeq(full, 1, 0) = <<>>
  <2> DEFINE s == SubSeq(full, 1, 0)
             e == <<>>
  <2>1. IsSequence(s) /\ Len(s) = 0
    <3>1. 0 \in Nat /\ 0 <= Len(full)
        BY <1>5
    <3> QED BY <1>5, <3>1, Beginning
  <2>2. IsSequence(e) /\ Len(e) = 0
      BY DEF IsSequence
  <2> HIDE DEF s, e
  <2>3. s = e
      BY <2>1, <2>2, SameSequence
  <2> QED BY <2>3 DEF s, e
<1>7. IsDamaged(archive, full)
  <2>1. 0 \in Nat /\ 0 < Len(full) /\ archive = SubSeq(full, 1, 0)
      BY <1>1, <1>4, <1>5, <1>6
  <2> QED BY <2>1 DEF IsDamaged, IsCut
<1>8. FromWritten(archive, intact, written)
    BY <1>1, <1>3, <1>7 DEF FromWritten, full
<1>9. Answered(last, out, archive)
    BY <1>1 DEF Answered
<1> QED BY <1>1, <1>2, <1>8, <1>9 DEF ArchiveInvariant

LEMMA StepArchive ==
    ArchiveInvariant /\ [Next]_vars => ArchiveInvariant'
<1> SUFFICES ASSUME ArchiveInvariant, [Next]_vars PROVE ArchiveInvariant'
    OBVIOUS
<1>1. /\ WellFormed(written.recs) /\ FromWritten(archive, intact, written)
      /\ Answered(last, out, archive)
    BY DEF ArchiveInvariant
<1> DEFINE Quiet == last'.cmd \notin {"unpack", "py unpack", "validate", "roundtrip"}
<1>2. ASSUME Quiet PROVE Answered(last, out, archive)'
    BY <1>2 DEF Answered
<1>3. ASSUME NEW cmd, NEW recs, WellFormed(recs), NEW flags, NEW author \in Authors,
             Write(cmd, recs, flags, author),
             cmd \notin {"unpack", "py unpack", "validate", "roundtrip"}
      PROVE  ArchiveInvariant'
  <2>1. WellFormed(written.recs)' /\ FromWritten(archive, intact, written)' /\ last'.cmd = cmd
      BY <1>3, WriteFrom
  <2> QED BY <1>2, <1>3, <2>1 DEF ArchiveInvariant
<1>4. ASSUME archive' = archive, written' = written, intact' = intact, Answered(last, out, archive)'
      PROVE  ArchiveInvariant'
    BY <1>1, <1>4 DEF ArchiveInvariant, FromWritten
<1>5. ASSUME NEW user \in Users, Generate(user) PROVE ArchiveInvariant'
  <2>1. WellFormed(Demo) /\ user \in Authors
      BY ToolsAssumption DEF Authors
  <2>2. Write("generate", Demo, {"footer"}, user)
      BY <1>5 DEF Generate
  <2> QED BY <1>3, <2>1, <2>2
<1>6. ASSUME NEW list \in Lists, NEW xor \in BOOLEAN, NEW user \in Users, Pack(list, xor, user)
      PROVE  ArchiveInvariant'
  <2>1. CASE Len(list) <= MAX_RECORDS /\ AllOpen(list)
    <3>1. WellFormed(CRecords(list)) /\ user \in Authors
        BY <2>1, ListRecords DEF Authors
    <3>2. Write("pack", CRecords(list), Chosen(xor), user)
        BY <1>6, <2>1 DEF Pack
    <3> QED BY <1>3, <3>1, <3>2
  <2>2. CASE ~ (Len(list) <= MAX_RECORDS /\ AllOpen(list))
    <3>1. Refuse("pack")
        BY <1>6, <2>2 DEF Pack
    <3>2. archive' = archive /\ written' = written /\ intact' = intact /\ Quiet
        BY <3>1 DEF Refuse, Ends
    <3> QED BY <1>2, <1>4, <3>2
  <2> QED BY <2>1, <2>2
<1>7. ASSUME NEW list \in Lists, NEW xor \in BOOLEAN, Create(list, xor) PROVE ArchiveInvariant'
  <2> DEFINE Takes == AllOpen(list) /\ Len(list) <= MAX_RECORDS /\ AsciiNames(PyRecords(list))
  <2>1. CASE Takes
    <3>1. WellFormed(PyRecords(list)) /\ "python" \in Authors
        BY <2>1, ListRecords DEF Authors
    <3>2. Write("create", PyRecords(list), Chosen(xor), "python")
        BY <1>7, <2>1 DEF Create
    <3> QED BY <1>3, <3>1, <3>2
  <2>2. CASE ~ Takes
    <3>1. Refuse("create")
        BY <1>7, <2>2 DEF Create
    <3>2. archive' = archive /\ written' = written /\ intact' = intact /\ Quiet
        BY <3>1 DEF Refuse, Ends
    <3> QED BY <1>2, <1>4, <3>2
  <2> QED BY <2>1, <2>2
<1>8. ASSUME NEW recs \in TestRecords, NEW flags \in SUBSET {"xor", "footer"}, WriteTest(recs, flags)
      PROVE  ArchiveInvariant'
  <2>1. WellFormed(recs) /\ "chkpt" \in Authors
      BY ToolsAssumption DEF Authors
  <2>2. Write("test", recs, flags, "chkpt")
      BY <1>8 DEF WriteTest
  <2> QED BY <1>3, <2>1, <2>2
<1>9. ASSUME Damage PROVE ArchiveInvariant'
  <2>1. intact = TRUE /\ intact' = FALSE /\ written' = written /\ Quiet
      BY <1>9, <1>1 DEF Damage, Ends
  <2>2. PICK author \in Authors : archive = Archive(written.recs, written.flags, author)
      BY <1>1, <2>1 DEF FromWritten
  <2>3. IsFile(archive)
      BY <1>1, <2>2, ArchiveIsFile
  <2>4. DOMAIN archive = 1..Len(archive) /\ Len(archive) \in Nat
      BY <2>3 DEF IsFile, IsSequence
  <2>5. IsDamaged(archive', archive)
    <3>1. CASE \E i \in DOMAIN archive : \E c \in Damaged :
             /\ c[1] = archive[i][1] /\ c # archive[i]
             /\ archive' = [archive EXCEPT ![i] = c]
        BY <2>4, <3>1 DEF IsDamaged, IsChanged
    <3>2. CASE \E n \in 0..Len(archive) - 1 : archive' = SubSeq(archive, 1, n)
      <4>1. PICK n \in 0..Len(archive) - 1 : archive' = SubSeq(archive, 1, n)
          BY <3>2
      <4>2. n \in Nat /\ n < Len(archive)
          BY <2>4
      <4> QED BY <4>1, <4>2, CutOfWhole
    <3>3. CASE \E c \in Appended : archive' = Append(archive, c)
        BY <3>3 DEF IsDamaged, IsGrown
    <3> QED BY <1>9, <3>1, <3>2, <3>3 DEF Damage
  <2>6. FromWritten(archive, intact, written)'
      BY <2>1, <2>2, <2>5 DEF FromWritten
  <2>7. Answered(last, out, archive)'
      BY <1>2, <2>1
  <2> QED BY <1>1, <2>1, <2>6, <2>7 DEF ArchiveInvariant
<1>10. ASSUME CValidate PROVE ArchiveInvariant'
  <2>1. Answered(last, out, archive)'
      BY <1>10 DEF CValidate, Ends, Answered
  <2> QED BY <1>4, <1>10, <2>1 DEF CValidate
<1>11. ASSUME PyValidate PROVE ArchiveInvariant'
  <2>1. Answered(last, out, archive)'
      BY <1>11 DEF PyValidate, Ends, Answered
  <2> QED BY <1>4, <1>11, <2>1 DEF PyValidate
<1>12. ASSUME CUnpack PROVE ArchiveInvariant'
  <2>1. Answered(last, out, archive)'
      BY <1>12 DEF CUnpack, Ends, Answered
  <2> QED BY <1>4, <1>12, <2>1 DEF CUnpack
<1>13. ASSUME PyUnpack PROVE ArchiveInvariant'
  <2>1. Answered(last, out, archive)'
      BY <1>13 DEF PyUnpack, Ends, Answered
  <2> QED BY <1>4, <1>13, <2>1 DEF PyUnpack
<1>14. ASSUME RoundTrip PROVE ArchiveInvariant'
  <2>1. last'.cmd = "roundtrip" /\ (last'.exit = 0 => PyStrict(archive)) /\ archive' = archive
      BY <1>14 DEF RoundTrip, RoundTripCopy, Ends
  <2>2. Answered(last, out, archive)'
      BY <2>1 DEF Answered
  <2> QED BY <1>4, <1>14, <2>2 DEF RoundTrip
<1>15. ASSUME UNCHANGED vars PROVE ArchiveInvariant'
    BY <1>15 DEF vars, ArchiveInvariant, FromWritten, Answered
<1> QED BY <1>5, <1>6, <1>7, <1>8, <1>9, <1>10, <1>11, <1>12, <1>13, <1>14, <1>15 DEF Next

(***************************************************************************)
(* What is on the disk is what was written, whole, cut, or damaged once,   *)
(* and the last answer is what the tools compute from it: inductive over   *)
(* every command of both tools (fileformat.c:233-716;                      *)
(* ch25-checkpoint-parser.py:583-676).                                     *)
(***************************************************************************)
THEOREM ArchiveInductive == Spec => []ArchiveInvariant
<1> QED BY InitArchive, StepArchive, PTL DEF Spec

-----------------------------------------------------------------------------
(***************************************************************************)
(* What follows from the invariant.                                        *)
(***************************************************************************)
LEMMA IntactIsValid ==
    ASSUME ArchiveInvariant, intact
    PROVE  /\ Readable(archive) /\ CValid(archive) /\ PyStrict(archive)
           /\ AsRead(Records(archive), written.recs)
<1>1. WellFormed(written.recs) /\ FromWritten(archive, intact, written)
    BY DEF ArchiveInvariant
<1>2. PICK author : archive = Archive(written.recs, written.flags, author)
    BY <1>1 DEF FromWritten
<1>3. AllWritable(written.recs, written.flags) /\ Len(written.recs) <= MAX_RECORDS
    BY <1>1, WellFormedWritable
<1> DEFINE recs == written.recs
           flags == written.flags
<1> HIDE DEF recs, flags
<1>4. AllWritable(recs, flags) /\ Len(recs) <= MAX_RECORDS /\ archive = Archive(recs, flags, author)
    BY <1>2, <1>3 DEF recs, flags
<1>5. Readable(archive) /\ AsRead(Records(archive), recs) /\ CValid(archive) /\ PyStrict(archive)
    BY <1>4, WholeIsValid
<1> QED BY <1>5 DEF recs

LEMMA HoldsLast ==
    ASSUME NEW i \in DOMAIN written.recs, IsLast(written.recs, i)
    PROVE  Holds(written.recs[i].name, written.recs[i].data)
BY DEF Holds, IsLast

LEMMA UnpackFromInvariant ==
    ArchiveInvariant => UnpackRestores
<1> SUFFICES ASSUME ArchiveInvariant, intact PROVE UnpackRestores
    BY DEF UnpackRestores
<1>1. /\ Readable(archive) /\ CValid(archive) /\ PyStrict(archive)
      /\ AsRead(Records(archive), written.recs)
    BY IntactIsValid
<1>2. WellFormed(written.recs) /\ Answered(last, out, archive)
    BY DEF ArchiveInvariant
<1>3. IsSequence(written.recs) /\ \A i \in DOMAIN written.recs : IsSequence(written.recs[i].name)
    BY <1>2 DEF WellFormed, IsName
<1>4. ASSUME last.cmd = "unpack"
      PROVE  /\ last.exit = 0 /\ DOMAIN out = Names \ {<<>>}
             /\ \A n \in DOMAIN out : Holds(n, out[n])
  <2>1. last.exit = 0 /\ out = Extracted(Records(archive))
      BY <1>1, <1>2, <1>4 DEF Answered
  <2>2. /\ DOMAIN Extracted(Records(archive)) =
              {written.recs[i].name : i \in DOMAIN written.recs} \ {<<>>}
        /\ \A n \in DOMAIN Extracted(Records(archive)) :
              \E i \in DOMAIN written.recs :
                 /\ written.recs[i].name = n /\ IsLast(written.recs, i)
                 /\ Extracted(Records(archive))[n] = written.recs[i].data
      BY <1>1, <1>3, ReadExtracted
  <2>3. DOMAIN out = Names \ {<<>>}
      BY <2>1, <2>2 DEF Names
  <2>4. \A n \in DOMAIN out : Holds(n, out[n])
      BY <2>1, <2>2, HoldsLast
  <2> QED BY <2>1, <2>3, <2>4
<1>5. ASSUME last.cmd = "py unpack"
      PROVE  /\ last.exit = 0
             /\ AsciiNames(written.recs) =>
                   \A n \in Names \ Unnamed : n \in DOMAIN out /\ Holds(n, out[n])
  <2>1. last.exit = 0 /\ out = Extracted(PyNamed(Records(archive)))
      BY <1>1, <1>2, <1>5 DEF Answered
  <2>2. ASSUME AsciiNames(written.recs), NEW n \in Names \ Unnamed
        PROVE  n \in DOMAIN out /\ Holds(n, out[n])
    <3>1. n \in {written.recs[i].name : i \in DOMAIN written.recs}
        BY DEF Names
    <3>2. n # <<>>
        BY DEF Unnamed
    <3>3. n = <<Part("unnamed")>> => \A i \in DOMAIN written.recs : written.recs[i].name # <<>>
        BY DEF Unnamed, Names
    <3>4. /\ n \in DOMAIN Extracted(PyNamed(Records(archive)))
          /\ \E i \in DOMAIN written.recs :
                /\ written.recs[i].name = n /\ IsLast(written.recs, i)
                /\ Extracted(PyNamed(Records(archive)))[n] = written.recs[i].data
        BY <1>1, <1>3, <2>2, <3>1, <3>2, <3>3, NamedExtracted
    <3> QED BY <2>1, <3>4, HoldsLast
  <2> QED BY <2>1, <2>2
<1> QED BY <1>4, <1>5 DEF UnpackRestores

(***************************************************************************)
(* Each tool gets back what either put in (fileformat.c:182-227, 437-606;  *)
(* ch25-checkpoint-parser.py:138-410, 605-622).                            *)
(***************************************************************************)
THEOREM Unpacking == Spec => []UnpackRestores
<1> QED BY ArchiveInductive, UnpackFromInvariant, PTL

LEMMA DamageFromInvariant ==
    ArchiveInvariant => DamageIsFound
<1> SUFFICES ASSUME ArchiveInvariant PROVE DamageIsFound
    OBVIOUS
<1>1. /\ WellFormed(written.recs) /\ FromWritten(archive, intact, written)
      /\ Answered(last, out, archive)
    BY DEF ArchiveInvariant
<1>2. ASSUME last.cmd = "validate", intact PROVE last.exit = 0
    BY <1>1, <1>2, IntactIsValid DEF Answered
<1>3. ASSUME last.cmd \in {"validate", "py unpack", "roundtrip"}, last.exit = 0,
             "footer" \in written.flags, ~ intact
      PROVE  FALSE
  <2>1. CValid(archive) \/ PyStrict(archive)
    <3>1. CASE last.cmd = "validate"
        BY <1>1, <1>3, <3>1 DEF Answered
    <3>2. CASE last.cmd = "py unpack"
      <4>1. ~ PyStrict(archive) => last.exit = 1
          BY <1>1, <3>2 DEF Answered
      <4>2. last.exit = 0
          BY <1>3
      <4>3. last.exit # 1
          BY <4>2
      <4>4. PyStrict(archive)
          BY <4>1, <4>3, Zenon
      <4> QED BY <4>4
    <3>3. CASE last.cmd = "roundtrip"
        BY <1>1, <1>3, <3>3 DEF Answered
    <3> QED BY <1>3, <3>1, <3>2, <3>3
  <2>2. PICK author : IsDamaged(archive, Archive(written.recs, written.flags, author))
      BY <1>1, <1>3 DEF FromWritten
  <2> DEFINE recs == written.recs
             flags == written.flags
  <2> HIDE DEF recs, flags
  <2>3. WellFormed(recs) /\ "footer" \in flags /\ IsDamaged(archive, Archive(recs, flags, author))
      BY <1>1, <1>3, <2>2 DEF recs, flags
  <2>4. ~ CValid(archive) /\ ~ PyStrict(archive)
      BY <2>3, DamageFound DEF IsDamaged
  <2> QED BY <2>1, <2>4
<1> QED BY <1>2, <1>3 DEF DamageIsFound

(***************************************************************************)
(* validate tells whether anything happened to an archive with a footer,   *)
(* and what Python parses strictly is as it was written                    *)
(* (fileformat.c:612-716; ch25-checkpoint-parser.py:183-312).              *)
(***************************************************************************)
THEOREM Damages == Spec => []DamageIsFound
<1> QED BY ArchiveInductive, DamageFromInvariant, PTL

\* The archive is a file, whatever happened to it.
LEMMA ArchiveFile ==
    ASSUME ArchiveInvariant
    PROVE  IsFile(archive)
<1>1. WellFormed(written.recs) /\ FromWritten(archive, intact, written)
    BY DEF ArchiveInvariant
<1>2. PICK author :
         IF intact THEN archive = Archive(written.recs, written.flags, author)
         ELSE IsDamaged(archive, Archive(written.recs, written.flags, author))
    BY <1>1 DEF FromWritten
<1> DEFINE full == Archive(written.recs, written.flags, author)
<1>3. IsFile(full) /\ 8 <= Len(full)
    BY <1>1, ArchiveIsFile
<1> HIDE DEF full
<1>4. archive = full \/ IsDamaged(archive, full)
    BY <1>2 DEF full
<1> QED BY <1>3, <1>4, DamagedIsFile DEF IsDamaged

\* What can be read, and is written again, is read again.
LEMMA CopyIsRead ==
    ASSUME ArchiveInvariant, PyStrict(archive)
    PROVE  /\ PyStrict(Rewritten) /\ CValid(Rewritten)
           /\ SameRecords(Records(archive), Records(Rewritten))
<1>1. IsFile(archive) /\ Readable(archive)
    BY ArchiveFile DEF PyStrict
<1> DEFINE recs == Records(archive)
           flags == HeaderFlags(archive)
           author == HeaderAuthor(archive)
<1>2. AllWritable(recs, flags) /\ Len(recs) <= MAX_RECORDS
    BY <1>1, ReadCanBeWritten
<1>3. Rewritten = Archive(recs, flags, author)
    BY DEF Rewritten
<1> HIDE DEF recs, flags, author
<1>4. PyStrict(Rewritten) /\ CValid(Rewritten) /\ AsRead(Records(Rewritten), recs)
    BY <1>2, <1>3, WholeIsValid
<1> DEFINE found == Records(Rewritten)
<1> HIDE DEF found
<1>5. AsRead(found, recs) /\ IsSequence(recs)
    BY <1>2, <1>4 DEF found, AllWritable
<1>6. Len(found) = Len(recs) /\ DOMAIN recs = 1..Len(recs)
    BY <1>5 DEF AsRead, IsSequence
<1>7. \A i \in 1..Len(recs) :
         /\ found[i].name = recs[i].name /\ found[i].data = recs[i].data
         /\ found[i].type = recs[i].type
    BY <1>5, ReadFields
<1>8. SameRecords(recs, found)
    BY <1>6, <1>7 DEF SameRecords
<1> QED BY <1>4, <1>8 DEF recs, found

LEMMA RoundTripStep ==
    ArchiveInvariant /\ [Next]_vars =>
        [/\ left' /\ ~left => last'.full
         /\ last'.cmd = "roundtrip" /\ intact /\ Encodes => last'.exit = 0 \/ last'.full]_vars
<1> SUFFICES ASSUME ArchiveInvariant, Next
             PROVE  /\ left' /\ ~left => last'.full
                    /\ last'.cmd = "roundtrip" /\ intact /\ Encodes => last'.exit = 0 \/ last'.full
    OBVIOUS
<1>1. CASE RoundTrip
  <2>1. CASE PyStrict(archive) /\ Encodes
    <3>1. /\ PyStrict(Rewritten) /\ CValid(Rewritten)
          /\ SameRecords(Records(archive), Records(Rewritten))
        BY <2>1, CopyIsRead
    <3>2. CASE last' = [cmd |-> "roundtrip", exit |-> 1, full |-> TRUE]
        BY <3>2
    <3>3. CASE RoundTripCopy(/\ PyStrict(Rewritten)
                             /\ SameRecords(Records(archive), Records(Rewritten))
                             /\ CValid(Rewritten))
      <4>1. last'.exit = 0 /\ ~ left'
          BY <3>1, <3>3 DEF RoundTripCopy, Ends
      <4> QED BY <4>1
    <3> QED BY <1>1, <2>1, <3>2, <3>3 DEF RoundTrip
  <2>2. CASE ~ (PyStrict(archive) /\ Encodes)
    <3>1. left' = left
        BY <1>1, <2>2 DEF RoundTrip
    <3>2. ~ (intact /\ Encodes)
        BY <2>2, IntactIsValid
    <3> QED BY <3>1, <3>2
  <2> QED BY <2>1, <2>2
<1>2. CASE ~ RoundTrip
  <2>1. left' = left
      BY <1>2 DEF Next, Generate, Create, Pack, WriteTest, Damage, CValidate, PyValidate, CUnpack,
                  PyUnpack
  <2>2. last'.cmd # "roundtrip"
    <3>1. \A cmd, recs, flags, author : Write(cmd, recs, flags, author) => last'.cmd = cmd
        BY DEF Write, Ends
    <3>2. \A cmd : Refuse(cmd) => last'.cmd = cmd
        BY DEF Refuse, Ends
    <3>3. \A user : Generate(user) => last'.cmd # "roundtrip"
        BY <3>1 DEF Generate
    <3>4. \A list, xor, user : Pack(list, xor, user) => last'.cmd # "roundtrip"
        BY <3>1, <3>2 DEF Pack
    <3>5. \A list, xor : Create(list, xor) => last'.cmd # "roundtrip"
        BY <3>1, <3>2 DEF Create
    <3>6. \A recs, flags : WriteTest(recs, flags) => last'.cmd # "roundtrip"
        BY <3>1 DEF WriteTest
    <3>7. /\ Damage => last'.cmd = "damage"
          /\ CValidate => last'.cmd = "validate"
          /\ PyValidate => last'.cmd = "py validate"
          /\ CUnpack => last'.cmd = "unpack"
          /\ PyUnpack => last'.cmd = "py unpack"
      <4>1. ASSUME NEW cmd, NEW ok, Ends(cmd, ok) PROVE last'.cmd = cmd
          BY <4>1 DEF Ends
      <4>2. Damage => last'.cmd = "damage"
          BY <4>1 DEF Damage
      <4>3. CValidate => last'.cmd = "validate"
          BY <4>1 DEF CValidate
      <4>4. PyValidate => last'.cmd = "py validate"
          BY <4>1 DEF PyValidate
      <4>5. CUnpack => last'.cmd = "unpack"
          BY <4>1 DEF CUnpack
      <4>6. PyUnpack => last'.cmd = "py unpack"
          BY <4>1 DEF PyUnpack
      <4> QED BY <4>2, <4>3, <4>4, <4>5, <4>6
    <3>8. \/ \E user \in Users : Generate(user)
          \/ \E list \in Lists, xor \in BOOLEAN : Create(list, xor)
          \/ \E list \in Lists, xor \in BOOLEAN, user \in Users : Pack(list, xor, user)
          \/ \E recs \in TestRecords, flags \in SUBSET {"xor", "footer"} : WriteTest(recs, flags)
          \/ Damage \/ CValidate \/ PyValidate \/ CUnpack \/ PyUnpack
        BY <1>2 DEF Next
    <3> QED BY <3>3, <3>4, <3>5, <3>6, <3>7, <3>8
  <2> QED BY <2>1, <2>2
<1> QED BY <1>1, <1>2

(***************************************************************************)
(* A round trip of an archive nothing happened to succeeds, and only one   *)
(* that found the disk full leaves its copy behind                         *)
(* (ch25-checkpoint-parser.py:625-676).                                    *)
(***************************************************************************)
THEOREM RoundTrips == Spec => RoundTripHolds
<1> QED BY ArchiveInductive, RoundTripStep, PTL DEF Spec, RoundTripHolds

LEMMA KeepsStep ==
    [Next]_vars =>
        [archive' # archive =>
            \/ last'.cmd \in {"generate", "pack", "create", "test"} /\ (last'.exit = 0 \/ last'.full)
            \/ last'.cmd = "damage"]_vars
<1> SUFFICES ASSUME Next, archive' # archive
             PROVE  \/ /\ last'.cmd \in {"generate", "pack", "create", "test"}
                       /\ last'.exit = 0 \/ last'.full
                    \/ last'.cmd = "damage"
    OBVIOUS
<1>1. ASSUME NEW cmd, NEW recs, NEW flags, NEW author, Write(cmd, recs, flags, author)
      PROVE  last'.cmd = cmd /\ (last'.exit = 0 \/ last'.full)
    BY <1>1 DEF Write, Ends
<1>2. ASSUME NEW cmd, Refuse(cmd) PROVE FALSE
    BY <1>2 DEF Refuse
<1>3. ASSUME NEW user \in Users, Generate(user)
      PROVE  last'.cmd = "generate" /\ (last'.exit = 0 \/ last'.full)
    BY <1>1, <1>3 DEF Generate
<1>4. ASSUME NEW list, NEW xor, NEW user, Pack(list, xor, user)
      PROVE  last'.cmd = "pack" /\ (last'.exit = 0 \/ last'.full)
    BY <1>1, <1>2, <1>4 DEF Pack
<1>5. ASSUME NEW list, NEW xor, Create(list, xor)
      PROVE  last'.cmd = "create" /\ (last'.exit = 0 \/ last'.full)
    BY <1>1, <1>2, <1>5 DEF Create
<1>6. ASSUME NEW recs, NEW flags, WriteTest(recs, flags)
      PROVE  last'.cmd = "test" /\ (last'.exit = 0 \/ last'.full)
    BY <1>1, <1>6 DEF WriteTest
<1>7. ASSUME Damage PROVE last'.cmd = "damage"
    BY <1>7 DEF Damage, Ends
<1>8. ASSUME CValidate \/ PyValidate \/ CUnpack \/ PyUnpack \/ RoundTrip PROVE FALSE
    BY <1>8 DEF CValidate, PyValidate, CUnpack, PyUnpack, RoundTrip
<1> QED BY <1>3, <1>4, <1>5, <1>6, <1>7, <1>8 DEF Next

(***************************************************************************)
(* A command that ends with an error leaves the archive as it was, unless  *)
(* the disk was full (fileformat.c:352-367).                               *)
(***************************************************************************)
THEOREM Keeping == Spec => FailureKeepsArchive
<1> QED BY KeepsStep, PTL DEF Spec, FailureKeepsArchive
=============================================================================
