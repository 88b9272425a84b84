----------------------------- MODULE Ch14Cipher -----------------------------
(***************************************************************************)
(* The block cipher of binaries/ch14-crypto/crypto.c and the containers it *)
(* writes and reads in CBC mode.  Bytes are narrower and blocks shorter    *)
(* than the code's, in its proportions: the round keys are 13.5 blocks, so *)
(* that the last expansions run past them and wrap around.  The derivation *)
(* hashes the password with a salt made of it: a key for each password.    *)
(*                                                                         *)
(* A file of bytes has a cell for each; a container one for its header and *)
(* one for each 128-byte block (the rest of a block is whatever malloc     *)
(* left there, and nothing reads it).                                      *)
(***************************************************************************)
EXTENDS Cells

CONSTANTS
    BYTES,       \* values of a byte: 256
    XOR,         \* XOR[a][b] of two bytes
    SBOX,        \* <<multiplier, addend, mask>> of sbox
    BLOCK_SIZE,
    NUM_ROUNDS,
    RK_LEN,      \* bytes of the context kept for the round keys: 216
    U32,         \* unsigned lengths wrap here
    PwdKept,     \* PwdKept[p]: what PWD_BUF_SIZE leaves of password p
    HashOf       \* HashOf[k]: the key derived from what is kept

Bytes == 0..BYTES - 1

ASSUME CipherAssumption ==
    /\ BYTES \in Nat \ {0} /\ BLOCK_SIZE \in Nat \ {0} /\ NUM_ROUNDS \in Nat
    /\ RK_LEN \in Nat /\ RK_LEN >= 2 * BLOCK_SIZE
    /\ U32 \in Nat /\ BLOCK_SIZE < U32

\* XOR undoes itself; a derived key has two blocks.
ASSUME KeyAssumption ==
    /\ SBOX \in Nat \X Nat \X Bytes
    /\ \A a, b \in Bytes : XOR[a][b] \in Bytes /\ XOR[XOR[a][b]][b] = a
    /\ \A p \in DOMAIN PwdKept : p # "" => PwdKept[p] \in DOMAIN HashOf
    /\ \A k \in DOMAIN HashOf : HashOf[k] \in [1..2 * BLOCK_SIZE -> Bytes]

XorSeq(a, b) == [i \in DOMAIN a |-> XOR[a[i]][b[i]]]

-----------------------------------------------------------------------------
(***************************************************************************)
(* Keys.                                                                   *)
(***************************************************************************)
Sbox(v) == XOR[(v * SBOX[1] + SBOX[2]) % BYTES][SBOX[3]]

\* "bijection on [0,255]", the multiplier being odd.
ASSUME SboxAssumption ==
    \A v \in Bytes : \E i \in Bytes : Sbox(i) = v /\ \A j \in Bytes : Sbox(j) = v => j = i

\* sbox_inv: the table built on the first call.
SboxInv(v) == CHOOSE i \in Bytes : Sbox(i) = v

\* derive_key: salt[i] is made of pwd[i % pwd_len], and of no byte of "".
Derivable(password) == password # ""

KeyOf(password) == PwdKept[password]

\* Where round r of expand_key writes, and what it reads.
Dst(r) == ((r + 2) * BLOCK_SIZE) % RK_LEN
Src(r) == ((r + 1) * BLOCK_SIZE) % RK_LEN

\* expand_key: each byte is made of the block before and of the byte before.
\* One block reaches past RK_LEN, into the end of the context and of its chunk.
Expanded(rk, n) ==
    LET r == n \div BLOCK_SIZE
        i == n % BLOCK_SIZE
        before == rk[(Dst(r) + i - 1 + RK_LEN) % RK_LEN]
    IN  [rk EXCEPT ![Dst(r) + i] = XOR[XOR[Sbox(rk[Src(r) + i])][before]][(r + 1) % BYTES]]

ExpandKey(raw) ==
    LET rk[n \in 0..NUM_ROUNDS * BLOCK_SIZE] ==
            IF n = 0
            THEN [i \in 0..RK_LEN + BLOCK_SIZE - 1 |-> IF i < 2 * BLOCK_SIZE THEN raw[i + 1] ELSE 0]
            ELSE Expanded(rk[n - 1], n - 1)
    IN  rk[NUM_ROUNDS * BLOCK_SIZE]

RoundKeys == [h \in DOMAIN HashOf |-> ExpandKey(HashOf[h])]

RoundKey(rk, r) == [i \in 1..BLOCK_SIZE |-> rk[((r * BLOCK_SIZE) % RK_LEN) + i - 1]]

-----------------------------------------------------------------------------
(***************************************************************************)
(* Blocks.                                                                 *)
(***************************************************************************)
RotateLeft(s) == Tail(s) \o <<Head(s)>>
RotateRight(s) == <<s[Len(s)]>> \o Front(s)

\* encrypt_block_ecb
Round(rk, s, r) == XorSeq(RotateLeft([i \in DOMAIN s |-> Sbox(s[i])]), RoundKey(rk, r))

EncryptBlock(rk, in) ==
    LET s[n \in 0..NUM_ROUNDS] == IF n = 0 THEN in ELSE Round(rk, s[n - 1], n - 1)
    IN  s[NUM_ROUNDS]

\* decrypt_block_ecb
Unround(rk, s, r) ==
    LET t == RotateRight(XorSeq(s, RoundKey(rk, r))) IN [i \in DOMAIN t |-> SboxInv(t[i])]

DecryptBlock(rk, in) ==
    LET s[n \in 0..NUM_ROUNDS] == IF n = 0 THEN in ELSE Unround(rk, s[n - 1], NUM_ROUNDS - n)
    IN  s[NUM_ROUNDS]

-----------------------------------------------------------------------------
(***************************************************************************)
(* Files.                                                                  *)
(***************************************************************************)
\* read_block: the n-th block, short ones filled with zeros.
ReadBlock(plain, n) ==
    [i \in 1..BLOCK_SIZE |->
        IF (n - 1) * BLOCK_SIZE + i <= Len(plain) THEN plain[(n - 1) * BLOCK_SIZE + i] ELSE 0]

\* The time, twice mixed, and memory nobody has set.
Iv(time, unset) ==
    [i \in 1..BLOCK_SIZE |-> IF i = BLOCK_SIZE THEN unset ELSE XOR[time][i % BYTES]]

\* The blocks of a file: those read, and one of padding when the last was full.
Blocks(plain) ==
    LET full == Len(plain) \div BLOCK_SIZE
        short == Len(plain) % BLOCK_SIZE # 0
    IN  [n \in 1..full |-> [in |-> ReadBlock(plain, n), flags |-> 0]]
        \o (IF short THEN <<[in |-> ReadBlock(plain, full + 1), flags |-> 1]>>
            ELSE IF full > 0
            THEN <<[in |-> [i \in 1..BLOCK_SIZE |-> BLOCK_SIZE % BYTES], flags |-> 1]>>
            ELSE <<>>)

\* process_encrypt: each block is XORed with the ciphertext before it.
EncryptedBlocks(plain, rk, iv) ==
    LET blocks == Blocks(plain)
        ct[n \in 0..Len(blocks)] ==
            IF n = 0 THEN iv ELSE EncryptBlock(rk, XorSeq(blocks[n].in, ct[n - 1]))
    IN  [n \in 1..Len(blocks) |-> [kind |-> "block", flags |-> blocks[n].flags, ct |-> ct[n]]]

CrypHeader(orig_size, iv) ==
    [kind |-> "cryp", orig_size |-> orig_size % U32, iv |-> iv]

\* The cells process_encrypt writes, in this order.
Encrypted(plain, key, iv) ==
    <<CrypHeader(Len(plain), iv)>> \o EncryptedBlocks(plain, RoundKeys[key], iv)

IsCryp(cells) == cells # <<>> /\ cells[1].kind = "cryp"

\* The length of a block that bears the flag is what the size leaves, when less.
BugToWrite(hdr, flags, written) == BLOCK_SIZE

ToWrite(hdr, flags, written) ==
    LET remaining == (hdr.orig_size - written) % U32
    IN  IF flags = 1 /\ remaining < BLOCK_SIZE THEN remaining ELSE BLOCK_SIZE

\* process_decrypt: whole blocks as long as there are any; nothing counts them.
Decrypted(cells, key) ==
    LET Plain(n) ==
            XorSeq(DecryptBlock(RoundKeys[key], cells[n + 1].ct),
                   IF n = 1 THEN cells[1].iv ELSE cells[n].ct)
        out[n \in 0..Len(cells) - 1] ==
            IF n = 0 THEN <<>>
            ELSE LET before == out[n - 1]
                 IN  before \o SubSeq(Plain(n), 1,
                                      ToWrite(cells[1], cells[n + 1].flags, Len(before)))
    IN  out[Len(cells) - 1]
=============================================================================
