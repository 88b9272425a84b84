----------------------------- MODULE MCKeygenmes -----------------------------
(***************************************************************************)
(* Instance of Keygenmes for TLC: words of eight bits, so groups of one    *)
(* digit.  Users type right keys, keys with one character missing, added   *)
(* or changed, and names of every length up to two beyond the buffer.      *)
(***************************************************************************)
EXTENDS Keygenmes

\* A dash, digits of three kinds, a star, a blank and a plus.
Typable == {DASH, 48, 65, 97, STAR, SP, PLUS}

Edited(t) ==
    {t}
    \cup {RemoveAt(t, i) : i \in DOMAIN t}
    \cup {InsertAt(t, i, c) : i \in 1..Len(t) + 1, c \in Typable}
    \cup {ReplaceAt(t, i, c) : i \in DOMAIN t, c \in Typable}

\* Ended by the end of the input, by a newline, or with a line behind it.
Ended(t) == {t, t \o <<NL>>, t \o <<NL, 65>>}

\* "D0", then the key of ch11, then that of ch12.
MCLicenseSeed == <<83, 51>>
MCTransformedKey == <<115, 51, 99>>
MCExpectedKey == <<75, DASH, 50>>
MCExpectedPassword == <<115, 51>>

\* A is a multiple of nothing; the rotation of p is by 0 bits.
SomeNames == {[i \in 1..n |-> IF i = 2 THEN 112 ELSE 65] : n \in 0..USERNAME_MAX + 2}
Names == SomeNames \cup UNION {[1..n -> {65, 112}] : n \in 0..4}

TypedAt(p, texts_) == {[program |-> p, argv |-> <<>>, typed |-> t] : t \in texts_}
StartedWith(p, args) == {[program |-> p, argv |-> a, typed |-> <<>>] : a \in args}

Near(key) == Ended(key) \cup {t \o <<NL>> : t \in Edited(key)}

\* Filled to the size of a buffer and beyond.
Long == {[i \in 1..n |-> 65] : n \in MAX_INPUT - 2..MAX_INPUT + 1}

Right21(name) == name \o <<NL>> \o keygen(name)
Right20(name) == name \o <<NL>> \o Ch20Text(name)

\* Groups with the sums that are asked for, in order and not, with the right
\* exclusive or of all and without.
Sums34 ==
    {Dashed([g \in 1..4 |-> HexUpper(first[g], 2) \o HexUpper(Second(g, first[g]), 2)]) :
        first \in {<<0>> \o f : f \in [1..3 -> {1, 5, 9}]} \cup {<<0, 1, 5, 10>>}}
Right34 == CHOOSE k \in Ch34Keys(<<0, 1, 5, 9>>) : TRUE

Right33(name) ==
    SERIAL_PREFIX \o Dashed(<<<<48>>, <<65>>, HexUpper(Upper(Ch33Hash(name)), G),
                             HexUpper(Half(Ch33Hash(name)), G)>>)
Right32(name) == name \o <<NL>> \o Ch32Key(name)

MCSessions ==
    TypedAt("ch05", Near(generate_expected_key(LICENSE_SEED)) \cup Long)
    \cup TypedAt("ch09", Near(Ch09Key) \cup Long \cup {<<>>, <<SP>>, <<SP, NL>> \o Ch09Key})
    \cup TypedAt("ch11", Near(EXPECTED_KEY) \cup Long \cup {<<>>})
    \cup TypedAt("ch12", Near(EXPECTED_PASSWORD) \cup Long)
    \cup TypedAt("ch13", Near(Ch13Key) \cup {Ch13Key \o t : t \in Long})
    \cup TypedAt("ch15", UNION {Ended(k) : k \in Ch15Keys} \cup Near(CHOOSE k \in Ch15Keys : TRUE))
    \cup TypedAt("ch29", UNION {Near(RE29 \o <<c, 51, 51, 55>>) : c \in {48, SP, PLUS}})
    \cup StartedWith("ch07",
            {<<>>, <<<<65>>>>} \cup {<<n, s>> : n \in SomeNames, s \in
                {HexLower(x, 2) : x \in 0..255} \cup {HexUpper(x, 2) : x \in 160..255}
                \cup {HexLower(x, 1) : x \in 0..15}})
    \cup StartedWith("ch13", {<<t>> : t \in Edited(Ch13Key) \cup {Ch13Key \o u : u \in Long}})
    \cup StartedWith("ch14",
            {<<>>} \cup {<<t>> : t \in Edited(<<65, DASH, 66, DASH, 67, DASH, 68>>)})
    \cup StartedWith("ch15", {<<t>> : t \in Edited(CHOOSE k \in Ch15Keys : TRUE)}
            \cup {<<RENG \o Dashed(<<HexUpper(a, G), HexUpper(b, G), HexUpper(c, G)>>)>> :
                    a \in {0, 1, 7, 12, 15}, b \in 0..15, c \in 0..15})
    \cup StartedWith("ch18", {<<>>, <<Ch18Serial, Ch18Serial>>}
            \cup {<<t>> : t \in Edited(Ch18Serial) \cup Edited(LowerCase(Ch18Serial))}
            \cup {<<HexUpper(a, 2 * G) \o HexLower(b, 2 * G)>> : a \in 150..165, b \in 0..31})
    \cup TypedAt("ch20", UNION {Ended(Right20(n)) \cup {LowerCase(Right20(n)), n} : n \in Names}
            \cup UNION {Near(Right20(n)) : n \in SomeNames})
    \cup TypedAt("ch21", UNION {Ended(Right21(n)) \cup {LowerCase(Right21(n)), n, n \o keygen(n)} :
                                n \in Names}
            \cup UNION {Near(Right21(n)) : n \in SomeNames})
    \cup TypedAt("ch32", UNION {Ended(Right32(n)) \cup {LowerCase(Right32(n)), n} : n \in SomeNames}
            \cup UNION {Near(Right32(n)) : n \in {<<65, 112>>, <<SP>>}})
    \cup StartedWith("ch32", {<<n, Ch32Key(n)>> : n \in Names} \cup {<<<<65>>>>})
    \cup StartedWith("ch33", {<<n, Right33(n)>> : n \in Names} \cup {<<<<65>>>>}
            \cup {<<<<65, 112>>, t>> : t \in Edited(Right33(<<65, 112>>))
                                        \cup Edited(LowerCase(Right33(<<65, 112>>)))})
    \cup StartedWith("ch34", {<<>>, <<LowerCase(Right34)>>}
            \cup {<<t>> : t \in Edited(Right34) \cup Sums34})
=============================================================================
