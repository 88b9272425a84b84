------------------------------ MODULE Ch24Crypt ------------------------------
(***************************************************************************)
(* The CRYPT24 files that binaries/ch24-crypto/crypto.c writes, and how    *)
(* solutions/ch24-checkpoint-decrypt.py reads them.  AES is the library's: *)
(* a block of ciphertext is the key, the ciphertext before it and the      *)
(* plaintext, and only with that key and predecessor does it give the      *)
(* plaintext back.  The header's fields keep their widths; a block of the  *)
(* model is 16 bytes wide whatever BLOCK24 is.                             *)
(***************************************************************************)
EXTENDS Cells

CONSTANTS
    BLOCK24,   \* bytes in a block of plaintext: 16
    MAX_FILE   \* bytes of the largest file read_file takes: 100 MiB

ASSUME Crypt24Assumption == BLOCK24 \in Nat \ {0} /\ MAX_FILE \in Nat

-----------------------------------------------------------------------------
(***************************************************************************)
(* Keys: the hash of the passphrase under a mask, in either program.       *)
(***************************************************************************)
build_passphrase == "r3vers3_" \o "m3_1f_" \o "y0u_c4n!"
CKey == [sha256 |-> build_passphrase, mask |-> "KEY_MASK"]

PASSPHRASE == "r3vers3_m3_1f_y0u_c4n!"
PyKey == [sha256 |-> PASSPHRASE, mask |-> "KEY_MASK"]

\* The three pieces of the C program join to the text of the script.
ASSUME PassphraseAssumption == build_passphrase = PASSPHRASE

-----------------------------------------------------------------------------
(***************************************************************************)
(* PKCS7 and CBC.                                                          *)
(***************************************************************************)
Pad(plain) ==
    LET n == BLOCK24 - (Len(plain) % BLOCK24) IN plain \o [i \in 1..n |-> n]

\* unpad: what it raises ValueError for.
PaddingFits(padded) ==
    /\ padded # <<>>
    /\ LET n == padded[Len(padded)]
       IN  n \in 1..BLOCK24 /\ \A i \in Len(padded) - n + 1..Len(padded) : padded[i] = n

Unpad(padded) == SubSeq(padded, 1, Len(padded) - padded[Len(padded)])

\* EVP_EncryptUpdate and EVP_EncryptFinal_ex; AES.encrypt(pad(...)).
CbcEncrypt(plain, key, iv) ==
    LET padded == Pad(plain)
        count == Len(padded) \div BLOCK24
        ct[n \in 0..count] ==
            IF n = 0 THEN iv
            ELSE [kind |-> "aes", width |-> 16, key |-> key, prev |-> ct[n - 1],
                  plain |-> SubSeq(padded, (n - 1) * BLOCK24 + 1, n * BLOCK24)]
    IN  [n \in 1..count |-> ct[n]]

\* With another key or predecessor a block gives bytes nobody can foretell: -1.
CbcDecrypt(ct, key, iv) ==
    LET Opens(n) == ct[n].key = key /\ ct[n].prev = (IF n = 1 THEN iv ELSE ct[n - 1])
    IN  [i \in 1..Len(ct) * BLOCK24 |->
            LET n == ((i - 1) \div BLOCK24) + 1
            IN  IF Opens(n) THEN ct[n].plain[((i - 1) % BLOCK24) + 1] ELSE -1]

-----------------------------------------------------------------------------
(***************************************************************************)
(* crypto.c                                                                *)
(***************************************************************************)
\* read_file: "file too large or empty".
Readable24(plain) == Len(plain) \in 1..MAX_FILE

Field(kind, width, val) == [kind |-> kind, width |-> width, val |-> val]

\* write_encrypted_file: seven fwrites, the ciphertext block by block.
Crypt24Cells(plain, iv) ==
    <<Field("CRYPT24", 8, 0), Field("major", 1, 1), Field("minor", 1, 0), Field("iv_len", 2, 16),
      Field("iv", 16, iv), Field("original_size", 4, Len(plain))>>
    \o CbcEncrypt(plain, CKey, iv)

-----------------------------------------------------------------------------
(***************************************************************************)
(* ch24-checkpoint-decrypt.py                                              *)
(***************************************************************************)
\* parse_crypt24: what it raises nothing for.  The ciphertext is what follows
\* the sixth field.
ParsesAsCrypt24(cells) ==
    /\ SizeOf(cells) >= 32
    /\ cells[1].kind = "CRYPT24"
    /\ cells[2].val = 1
    /\ cells[4].val \in {8, 12, 16}
    /\ LET size == SizeOf(SubSeq(cells, 7, Len(cells))) IN size # 0 /\ size % 16 = 0

\* size_ok is not looked at.
BugAllOk(plain, original_size, roundtrip_ok) == roundtrip_ok

AllOk(plain, original_size, roundtrip_ok) == Len(plain) = original_size /\ roundtrip_ok

\* main: what it writes to out_path, if anything, and its exit code.
PyDecrypt(cells) ==
    LET ct == SubSeq(cells, 7, Len(cells))
        iv == cells[5].val
        padded == CbcDecrypt(ct, PyKey, iv)
        plain == Unpad(padded)
    IN  IF ~ParsesAsCrypt24(cells) THEN [exit |-> "1", opened |-> FALSE]
        ELSE IF ~PaddingFits(padded) THEN [exit |-> "1", opened |-> FALSE]
        ELSE [exit |-> IF AllOk(plain, cells[6].val, CbcEncrypt(plain, PyKey, iv) = ct)
                       THEN "0" ELSE "1",
              opened |-> TRUE, plain |-> plain]
=============================================================================
