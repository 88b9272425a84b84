------------------------------ MODULE Keychecks ------------------------------
(***************************************************************************)
(* How the key checkers decide, chapter by chapter, on texts already read. *)
(* Keys keep their shape with groups of G digits where the code has four;  *)
(* bytes keep their eight bits.  A definition whose name begins with Bug   *)
(* is a wrong variant of the definition that follows it.                   *)
(***************************************************************************)
EXTENDS Lines, Integers

CONSTANTS
    LICENSE_SEED,       \* what ch05 makes its key of
    transformed_key,    \* expected in ch09
    EXPECTED_KEY,       \* of ch11
    EXPECTED_PASSWORD   \* of ch12

\* "XXXX-XXXX-XXXX-XXXX"
KEY_LEN == 4 * G + 3
Separators == {G + 1, 2 * G + 2, 3 * G + 3}
HasSeparators(key) == \A i \in Separators : key[i] = DASH
GroupOf(key, g) == SubSeq(key, (g - 1) * (G + 1) + 1, (g - 1) * (G + 1) + G)

\* The character at i, and the NUL behind the last one.
CharAt(text, i) == IF i \in DOMAIN text THEN text[i] ELSE 0

\* What strcmp sees of an array.
CString(chars) ==
    LET nul == SelectInSeq(chars, LAMBDA c : c = 0)
    IN  IF nul = 0 THEN chars ELSE SubSeq(chars, 1, nul - 1)

\* v ^ (v >> 16) in words of 32 bits.
XorFolded(v) == Xored(v, Upper(v))

-----------------------------------------------------------------------------
\* ch05-keygenme
AlphabetAt(i) == IF i < 26 THEN 65 + i ELSE 22 + i

Ch05SeedHash(seed) ==
    LET h[i \in 0..Len(seed)] ==
            IF i = 0 THEN 0
            ELSE LET sum == Low(h[i - 1] + seed[i] * (i + 6))
                 IN  Low(Xored(sum, RotL(sum, 5)) + \hB9)
    IN  h[Len(seed)]

Xorshift(h) ==
    LET a == Xored(h, Shl(h, 13 % W))
        b == Xored(a, Shr(a, 17 % W))
    IN  Xored(b, Shl(b, 5))

generate_expected_key(seed) ==
    LET h[i \in 0..4 * G] == IF i = 0 THEN Ch05SeedHash(seed) ELSE Xorshift(h[i - 1])
    IN  Dashed([g \in 1..4 |-> [i \in 1..G |-> AlphabetAt(h[(g - 1) * G + i] % 36)]])

Ch05Check(key) ==
    /\ Len(key) = KEY_LEN
    /\ HasSeparators(key)
    /\ key = generate_expected_key(LICENSE_SEED)

-----------------------------------------------------------------------------
\* ch07-keygenme: h * 33, with the character and its index.
Ch07Hash(input) ==
    LET h[i \in 0..Len(input)] ==
            IF i = 0 THEN Low(\h5381)
            ELSE Low(Xored(Low(h[i - 1] * 33), input[i]) + i - 1)
    IN  h[Len(input)]

Ch07Check(username, serial) == serial = HexLower(Ch07Hash(username), 2 * G)

-----------------------------------------------------------------------------
\* ch09-keygenme: the star becomes the NUL that ends what strcmp compares.
transform_key(key) ==
    [i \in DOMAIN key |-> LET c == Xored(key[i], \h2A) IN ((c * 8) % 256) + (c \div 32)]

Ch09Check(key) == CString(transform_key(key)) = transformed_key

Ch11Check(key) == key = EXPECTED_KEY

Ch12Check(key) == key = EXPECTED_PASSWORD

-----------------------------------------------------------------------------
\* ch13-keygenme: every step is taken, whatever the steps before it found.
KEY_LENGTH == 16
encoded_key ==
    <<\h70, \h74, \h74, \h1A, \h65, \h72, \h1A, \h05, \h07, \h05, \h03, \h1A,
      \h6F, \h67, \h65, \h78, \h37>>

decode_reference_key == [i \in 1..KEY_LENGTH + 1 |-> Xored(encoded_key[i], \h37)]

Ch13HashBuf(input) == [i \in 1..KEY_LENGTH |-> CharAt(input, i)]

Ch13Checksum(hash_buf) == FoldLeft(LAMBDA s, c : s + c, 0, hash_buf) % 65536

\* A longer input is compared by its beginning.
BugCh13Check(key) ==
    /\ Len(key) >= KEY_LENGTH /\ key[4] = DASH /\ key[7] = DASH /\ key[12] = DASH
    /\ CString(Ch13HashBuf(key)) = CString(decode_reference_key)

Ch13Check(key) ==
    /\ Len(key) = KEY_LENGTH
    /\ key[4] = DASH /\ key[7] = DASH /\ key[12] = DASH
    /\ SubSeq(key, 1, 3) = <<71, 67, 67>>
    /\ Ch13Checksum(Ch13HashBuf(key)) = \h3FC
    /\ CString(Ch13HashBuf(key)) = CString(decode_reference_key)

-----------------------------------------------------------------------------
\* The loop ends with the last digit.
Bugformat_check(key) ==
    /\ Len(key) = KEY_LEN
    /\ HasSeparators(key)
    /\ \A i \in (1..KEY_LEN) \ Separators : CharAt(key, i) \in AnyHex

\* ch14-keygenme: the loop goes on to the NUL, which is no digit, so that
\* what validate_key does with a text that passes never happens.
format_check(key) ==
    /\ Len(key) = KEY_LEN
    /\ HasSeparators(key)
    /\ \A i \in (1..KEY_LEN + 1) \ Separators : CharAt(key, i) \in AnyHex

-----------------------------------------------------------------------------
\* ch15-keygenme: "RENG-XXXX-XXXX-XXXX"
RENG == <<82, 69, 78, 71, DASH>>
XOR_SECRET == Half(\hBEEF)
Ch15Group(key, g) == SubSeq(key, 6 + (g - 1) * (G + 1), 5 + (g - 1) * (G + 1) + G)

Ch15Sum(g1, g2) == Half(g1 + g2)

Ch15Check(key) ==
    /\ Len(key) = 3 * G + 7
    /\ SubSeq(key, 1, 5) = RENG
    /\ key[6 + G] = DASH /\ key[7 + 2 * G] = DASH
    /\ \A g \in 1..3 : \A i \in 1..G : Ch15Group(key, g)[i] \in UpperHex
    /\ LET value == [g \in 1..3 |-> HexValue(Ch15Group(key, g))]
       IN  /\ Xored(value[1], value[2]) = XOR_SECRET
           /\ value[3] = Ch15Sum(value[1], value[2])
           /\ value[1] # 0

-----------------------------------------------------------------------------
\* ch18-keygenme
SERIAL_LEN == 4 * G
MAGIC == <<\hF1, \h2D, \h37, \h0D>>
EXPECTED_HIGH == Low(\h3514)
EXPECTED_LOW == Low(\hCAFE)

mix32(v, seed) ==
    LET Stirred(x) == Low(XorFolded(x) * \h3B)
    IN  XorFolded(Stirred(Stirred(Xored(v, seed))))

feistel4(left, right) ==
    LET f[n \in 0..4] ==
            IF n = 0 THEN <<left, right>>
            ELSE <<f[n - 1][2], Xored(f[n - 1][1], mix32(f[n - 1][2], MAGIC[n]))>>
    IN  f[4]

Ch18Check(serial) ==
    /\ Len(serial) = SERIAL_LEN
    /\ \A i \in DOMAIN serial : serial[i] \in AnyHex
    /\ feistel4(HexValue(SubSeq(serial, 1, 2 * G)),
                HexValue(SubSeq(serial, 2 * G + 1, 4 * G))) = <<EXPECTED_HIGH, EXPECTED_LOW>>

-----------------------------------------------------------------------------
\* ch20-keygenme: the key is four words, byte by byte.
mix_hash(data, seed) ==
    LET loop[h \in Word, i \in 1..Len(data) + 1] ==
            IF i > Len(data) THEN h
            ELSE loop[XorFolded(Low(RotL(Xored(h, data[i]), 5) + data[i] * \h93)), i + 1]
    IN  loop[seed, 1]

Ch20Key(username) ==
    LET state[r \in 0..3] ==
            mix_hash(username, IF r = 0 THEN \hEF ELSE Xored(state[r - 1], r))
    IN  [n \in 1..4 * G |-> (state[(n - 1) \div G] \div 256^(G - 1 - ((n - 1) % G))) % 256]

\* sscanf("%2x") at a place of a text: blanks, a sign, and as many digits as
\* two characters leave room for; -1 if there is none.
ScannedByte(text, place) ==
    LET from == CHOOSE i \in place..Len(text) + 1 :
                    /\ CharAt(text, i) \notin {SP, NL}
                    /\ \A j \in place..i - 1 : text[j] \in {SP, NL}
        signed == CharAt(text, from) \in {PLUS, DASH}
        at == IF signed THEN from + 1 ELSE from
        pair == ~signed /\ CharAt(text, at + 1) \in AnyHex
    IN  IF CharAt(text, at) \notin AnyHex THEN -1
        ELSE IF pair THEN HexValue(SubSeq(text, at, at + 1))
        ELSE IF CharAt(text, from) = DASH THEN (256 - DigitValue(text[at])) % 256
        ELSE DigitValue(text[at])

\* Where the n-th byte and the r-th dash are read.
BytePlace(n) == 2 * n - 1 + (n - 1) \div G

parse_key_input(input) == [n \in 1..4 * G |-> ScannedByte(input, BytePlace(n))]

Ch20Check(username, input) ==
    /\ Len(input) = 8 * G + 3
    /\ \A r \in 1..3 : input[BytePlace(r * G) + 2] = DASH
    /\ parse_key_input(input) = Ch20Key(username)

-----------------------------------------------------------------------------
\* ch21-keygenme
compute_hash(username) ==
    LET loop[h \in Word, i \in 1..Len(username) + 1] ==
            IF i > Len(username) THEN XorFolded(Low(XorFolded(h) * \h3B))
            ELSE LET c == username[i]
                 IN  loop[Xored(RotL(Low(Low(h + c) * \h3F), c % 16), \hEF), i + 1]
    IN  loop[\h2D, 1]

derive_key(hash) ==
    <<Xored(Half(hash), Half(\hA5A5)), Xored(Upper(hash), Half(\h5A5A)),
      Xored(Half(RotL(hash, 7)), Half(\h1234)), Xored(Half(RotL(hash, 13)), Half(\hFEDC))>>

format_key(groups) == Dashed([g \in 1..4 |-> HexUpper(groups[g], G)])

check_license(username, user_key) ==
    user_key = format_key(derive_key(compute_hash(username)))

-----------------------------------------------------------------------------
\* ch29 packed_sample: "RE29-XXXX", where strtoul reads the four characters; a
\* minus makes of them a number far beyond the sum.
RE29 == <<82, 69, 50, 57, DASH>>

WeightedSum(text) ==
    LET s[i \in 0..Len(text)] == IF i = 0 THEN 0 ELSE s[i - 1] + text[i] * i
    IN  s[Len(text)] % 65536

\* The digits behind blanks, a sign and a prefix; <<>> if there are none.
StrtoulDigits(text) ==
    LET Skip(t, chars) ==
            SubSeq(t, IF t # <<>> /\ t[1] \in chars THEN 2 ELSE 1, Len(t))
        from == SelectInSeq(text, LAMBDA c : c # SP)
        unsigned == IF from = 0 THEN <<>> ELSE Skip(SubSeq(text, from, Len(text)), {PLUS})
    IN  IF Len(unsigned) > 2 /\ unsigned[1] = 48 /\ unsigned[2] \in {88, 120}
           /\ unsigned[3] \in AnyHex
        THEN SubSeq(unsigned, 3, Len(unsigned)) ELSE unsigned

Ch29Check(key) ==
    /\ Len(key) = 9
    /\ SubSeq(key, 1, 5) = RE29
    /\ LET digits == StrtoulDigits(SubSeq(key, 6, 9))
       IN  /\ digits # <<>> /\ \A i \in DOMAIN digits : digits[i] \in AnyHex
           /\ HexValue(digits) = WeightedSum(RE29)

-----------------------------------------------------------------------------
\* ch32-dotnet: half of it computed by C#, half by the native library.
REV3RSE == <<82, 69, 86, 51, 82, 83, 69, 33>>
NATIVERE == <<78, 65, 84, 73, 86, 69, 82, 69>>

\* FNV-1a, folded to half a word.
Folded(text) ==
    LET loop[h \in Word, i \in 1..Len(text) + 1] ==
            IF i > Len(text) THEN Half(XorFolded(h))
            ELSE loop[Low(Xored(h, text[i]) * \h93), i + 1]
    IN  loop[Low(\h9DC5), 1]

ComputeUserHash(username) == Folded(LowerCase(username) \o REV3RSE)

compute_native_hash(data) == Folded(data \o NATIVERE)

ComputeCrossXor(segA, segB) ==
    Xored(Half(Xored(RotHalf(segA, 5), segB) * Half(\h9E37)), Half(\hA5A5))

compute_checksum(seg_a, seg_b, seg_c) ==
    LET half == W \div 2
        val == Xored(RotHalf(Xored(RotHalf(seg_a, 3), seg_b), half - (7 % half)), seg_c)
    IN  Xored(Half(val * Half(\h5BD1)), Half(\h1337))

ComputeFinalChecksum(segA, segB, segC) ==
    Xored(Half(segA + segB + segC), compute_checksum(segA, segB, segC))

ValidateStructure(key) ==
    /\ Len(key) = KEY_LEN
    /\ HasSeparators(key)
    /\ \A i \in (1..KEY_LEN) \ Separators : key[i] \in UpperHex

Ch32Check(username, licenseKey) ==
    LET key == UpperCase(Trim(licenseKey)) IN
    /\ Trim(username) # <<>>
    /\ ValidateStructure(key)
    /\ LET actual == [g \in 1..4 |-> HexValue(GroupOf(key, g))]
       IN  /\ actual[1] = ComputeUserHash(username)
           /\ actual[2] = compute_native_hash(LowerCase(username))
           /\ actual[3] = ComputeCrossXor(actual[1], actual[2])
           /\ actual[4] = ComputeFinalChecksum(actual[1], actual[2], actual[3])

-----------------------------------------------------------------------------
\* ch33-rust: "RUST-XXXX-XXXX-XXXX-XXXX", of which only the last two groups are
\* made of the name.
SERIAL_PREFIX == <<82, 85, 83, 84, DASH>>

Ch33Hash(username) ==
    LET h[i \in 0..Len(username)] ==
            IF i = 0 THEN Low(\hC0DE)
            ELSE LET byte == username[i]
                 IN  RotL(Xored(Low(h[i - 1] * 31 + byte), Shl(i - 1, ((byte % 16) + 1) % W)), 7)
        Shifted(v) == Xored(v, Shr(v, 13 % W))
        m[n \in 1..3] ==
            CASE n = 1 -> Low(XorFolded(h[Len(username)]) * \hB1)
              [] n = 2 -> Low(Shifted(m[1]) * \hFC)
              [] n = 3 -> XorFolded(m[2])
    IN  m[3]

FormatValid(serial) ==
    LET body == SubSeq(serial, 6, Len(serial))
    IN  /\ Len(body) = KEY_LEN
        /\ HasSeparators(body)
        /\ \A i \in (1..KEY_LEN) \ Separators : body[i] \in AnyHex

Ch33Check(username, serial) ==
    /\ username # <<>>
    /\ IsPrefix(SERIAL_PREFIX, serial)
    /\ FormatValid(serial)
    /\ LET body == SubSeq(serial, 6, Len(serial))
       IN  HexValue(GroupOf(body, 3) \o GroupOf(body, 4)) = Ch33Hash(username)

-----------------------------------------------------------------------------
\* ch34-go: four groups of two bytes, in their full width.
expectedSums == <<\h10E, \h122, \h136, \h13E>>

\* Places of the dashes.
Cuts == {5, 10, 15}

KeyParses(key) ==
    /\ Len(key) = 19
    /\ \A i \in Cuts : key[i] = DASH
    /\ \A i \in (1..19) \ Cuts : key[i] \in AnyHex

parseKey(key) ==
    [g \in 1..4 |-> [j \in 1..2 |-> HexValue(SubSeq(key, 5 * g + 2 * j - 6, 5 * g + 2 * j - 5))]]

Validate(group, index) == Xored(group[1], \hDE) + Xored(group[2], \hAD) = expectedSums[index]

validateOrder(groups) == \A g \in 1..3 : groups[g][1] < groups[g + 1][1]

validateCross(groups) ==
    FoldLeft(LAMBDA x, g : Xored(Xored(x, g[1]), g[2]), 0, groups) = \h42
=============================================================================
