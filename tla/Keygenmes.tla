------------------------------ MODULE Keygenmes ------------------------------
(***************************************************************************)
(* The key checkers as programs.  A session is either a user's, who types  *)
(* a text at a program, or that of the ch21 validation script (solutions/  *)
(* ch21-checkpoint-keygen.py), which makes a key for each name and runs    *)
(* every build of the ch21 program: process() gives the program a pipe as  *)
(* its input and a terminal as its output, and recvuntil waits for the     *)
(* first prompt without a limit of time.  The program prints its prompts   *)
(* without a newline and flushes nothing; the C library does so before it  *)
(* waits for a terminal, and not before it waits for a pipe.               *)
(*   The ch34 program has each group of a key checked by a goroutine, and  *)
(* another closes the channel when those are done; main reads the results  *)
(* from the channel in the order they arrive.                              *)
(***************************************************************************)
EXTENDS Keychecks

CONSTANTS
    MAX_INPUT,      \* characters and NUL of a buffer meant for any key
    USERNAME_MAX,   \* and of one for a name: 32 in ch21, 64 in ch20
    Sessions,       \* what users start and type: [program, argv, typed]
    Usernames,      \* the number of names the script makes a key for
    Builds          \* the builds of the ch21 program the script is run on

VARIABLES
    program,    \* the program that runs
    argv,       \* its arguments
    typed,      \* history: what was sent to its standard input
    stdin,      \* what of it is unread
    more,       \* whether more may come
    texts,      \* the texts the program has read
    pc,         \* where it stands: "start", "read", "groups", "check" or "end"
    verdict     \* what it has printed

VARIABLES
    group,      \* of each goroutine of ch34: "none", "runs", "sent" or "done"
    ch,         \* the channel of results
    closed      \* whether it is closed

VARIABLES
    startable,  \* the builds that can be executed
    turn,       \* the number of the pair of name and build it is at
    spc,        \* where the script stands, "none" in a user's session
    failures,   \* its list of failures
    report      \* its result

programVars == <<program, argv, typed, stdin, more, texts, pc, verdict>>
scriptVars == <<startable, turn, spc, failures, report>>
goVars == <<group, ch, closed>>
vars == <<programVars, goVars, scriptVars>>

\* argv, stdin and the state of a process that starts.
Process(p, args, text, open) ==
    /\ program = p /\ argv = args /\ typed = text /\ stdin = text /\ more = open
    /\ texts = <<>> /\ pc = "start" /\ verdict = "none"

Init ==
    /\ turn = 1 /\ failures = {} /\ report = "none"
    /\ group = [g \in 1..4 |-> "none"] /\ ch = <<>> /\ closed = FALSE
    /\ \/ /\ \E s \in Sessions : Process(s.program, s.argv, s.typed, FALSE)
          /\ spc = "none" /\ startable = {}
       \/ /\ Process("none", <<>>, <<>>, FALSE)
          /\ spc = "start" /\ startable \in SUBSET (1..Builds)

-----------------------------------------------------------------------------
(***************************************************************************)
(* The programs.                                                           *)
(***************************************************************************)
\* What a main does before it decides: how many arguments it insists on (-1 for
\* any number), whether the texts are taken from them, how it reads, into which
\* buffers, and the lengths of a name that it goes on with.
FromStdin(reader, sizes, least, most) ==
    [arity |-> -1, arguments |-> "none", reader |-> reader, sizes |-> sizes,
     least |-> least, most |-> most]
ReadsKey(reader, sizes) == FromStdin(reader, sizes, 0, MAX_INPUT)

FromArguments(n) == [ReadsKey("none", <<>>) EXCEPT !.arity = n, !.arguments = "as they are"]

\* The first argument, copied by strncpy, or a line if there is none.
FromEither(reader) == [ReadsKey(reader, <<MAX_INPUT>>) EXCEPT !.arguments = "copied"]

ch05_main == ReadsKey("fgets", <<MAX_INPUT>>)
ch07_main == FromArguments(2)
ch09_main == ReadsKey("scanf", <<MAX_INPUT>>)
ch11_main == ReadsKey("fgets", <<MAX_INPUT>>)
ch12_main == ReadsKey("fgets", <<MAX_INPUT>>)
ch13_main == FromEither("scanf")
ch14_main == FromArguments(1)
ch15_main == FromEither("fgets")
ch18_main == FromArguments(1)
ch20_main == FromStdin("fgets", <<USERNAME_MAX, MAX_INPUT>>, 3, USERNAME_MAX)
ch21_main == FromStdin("fgets", <<USERNAME_MAX, KEY_LEN + 2>>, 3, USERNAME_MAX - 1)
ch29_main == ReadsKey("fgets", <<MAX_INPUT>>)
ch32_main == [ReadsKey("ReadLine", <<0, 0>>) EXCEPT !.arguments = "two or more"]
ch33_main == FromArguments(2)
ch34_main == FromArguments(1)

main ==
    [ch05 |-> ch05_main, ch07 |-> ch07_main, ch09 |-> ch09_main, ch11 |-> ch11_main,
     ch12 |-> ch12_main, ch13 |-> ch13_main, ch14 |-> ch14_main, ch15 |-> ch15_main,
     ch18 |-> ch18_main, ch20 |-> ch20_main, ch21 |-> ch21_main, ch29 |-> ch29_main,
     ch32 |-> ch32_main, ch33 |-> ch33_main, ch34 |-> ch34_main]

Copied(text) == IF Len(text) < MAX_INPUT THEN text ELSE SubSeq(text, 1, MAX_INPUT - 1)

\* The texts taken from the arguments.
Given ==
    IF main[program].arguments = "copied" THEN <<Copied(argv[1])>> ELSE argv

TakesArguments ==
    \/ main[program].arguments = "as they are"
    \/ main[program].arguments = "copied" /\ argv # <<>>
    \/ main[program].arguments = "two or more" /\ Len(argv) >= 2

\* The n-th call of the program's reader.
read_line(n) ==
    LET size == main[program].sizes[n]
    IN  CASE main[program].reader = "scanf" -> Scanf(stdin, size - 1)
          [] main[program].reader = "fgets" -> Fgets(stdin, size)
          [] main[program].reader = "ReadLine" -> ReadLine(stdin)

Accepts(p, t) ==
    CASE p = "ch05" -> Ch05Check(t[1])
      [] p = "ch07" -> Ch07Check(t[1], t[2])
      [] p = "ch09" -> Ch09Check(t[1])
      [] p = "ch11" -> Ch11Check(t[1])
      [] p = "ch12" -> Ch12Check(t[1])
      [] p = "ch13" -> Ch13Check(t[1])
      [] p = "ch14" -> format_check(t[1])
      [] p = "ch15" -> Ch15Check(t[1])
      [] p = "ch18" -> Ch18Check(t[1])
      [] p = "ch20" -> Ch20Check(t[1], t[2])
      [] p = "ch21" -> check_license(t[1], t[2])
      [] p = "ch29" -> Ch29Check(t[1])
      [] p = "ch32" -> Ch32Check(t[1], t[2])
      [] p = "ch33" -> Ch33Check(t[1], t[2])

End(v) == pc' = "end" /\ verdict' = v

StartProgram ==
    /\ pc = "start" /\ program # "none"
    /\ \/ /\ main[program].arity \notin {-1, Len(argv)}
          /\ End("usage")
          /\ UNCHANGED texts
       \/ /\ main[program].arity \in {-1, Len(argv)}
          /\ UNCHANGED verdict
          /\ IF TakesArguments THEN pc' = "check" /\ texts' = Given
             ELSE pc' = "read" /\ UNCHANGED texts
    /\ UNCHANGED <<program, argv, typed, stdin, more, goVars, scriptVars>>

\* The end of the input: fgets returns NULL, scanf no match.
NothingRead ==
    /\ pc = "read" /\ ~more /\ main[program].reader # "ReadLine"
    /\ \/ stdin = <<>>
       \/ main[program].reader = "scanf" /\ read_line(1).text = <<>>
    /\ End("no input")
    /\ UNCHANGED <<program, argv, typed, stdin, more, texts, goVars, scriptVars>>

ReadText ==
    /\ pc = "read"
    /\ stdin # <<>> \/ (main[program].reader = "ReadLine" /\ ~more)
    /\ LET line == read_line(Len(texts) + 1)
           length == Len(line.text)
       IN  /\ main[program].reader = "scanf" => line.text # <<>>
           /\ texts' = Append(texts, line.text)
           /\ stdin' = line.rest
           /\ IF texts = <<>> /\ length \notin main[program].least..main[program].most
              THEN End("name refused")
              ELSE /\ pc' = IF Len(texts') = Len(main[program].sizes) THEN "check" ELSE "read"
                   /\ UNCHANGED verdict
    /\ UNCHANGED <<program, argv, typed, more, goVars, scriptVars>>

Check ==
    /\ pc = "check" /\ program # "ch34"
    /\ End(IF Accepts(program, texts) THEN "accepted" ELSE "refused")
    /\ UNCHANGED <<program, argv, typed, stdin, more, texts, goVars, scriptVars>>

-----------------------------------------------------------------------------
(***************************************************************************)
(* main and validateGroups of ch34.                                        *)
(***************************************************************************)
\* A key that does not parse ends the program.
Parse ==
    /\ pc = "check" /\ program = "ch34"
    /\ IF KeyParses(texts[1]) THEN pc' = "groups" /\ UNCHANGED verdict ELSE End("refused")
    /\ UNCHANGED <<program, argv, typed, stdin, more, texts, goVars, scriptVars>>

Launched == \A g \in 1..4 : group[g] # "none"

\* wg.Add(1), then go.
Go ==
    /\ pc = "groups" /\ ~Launched
    /\ LET next == CHOOSE g \in 1..4 : group[g] = "none" /\ \A i \in 1..g - 1 : group[i] # "none"
       IN  group' = [group EXCEPT ![next] = "runs"]
    /\ UNCHANGED <<programVars, ch, closed, scriptVars>>

\* The channel has room for the results of all; a send to a closed channel
\* panics, and that ends the program.
SendResult(g) ==
    /\ pc = "groups" /\ group[g] = "runs"
    /\ group' = [group EXCEPT ![g] = "sent"]
    /\ IF closed THEN End("panic") /\ UNCHANGED ch
       ELSE /\ ch' = Append(ch, Validate(parseKey(texts[1])[g], g))
            /\ UNCHANGED <<pc, verdict>>
    /\ UNCHANGED <<program, argv, typed, stdin, more, texts, closed, scriptVars>>

\* The deferred wg.Done().
Done(g) ==
    /\ pc = "groups" /\ group[g] = "sent"
    /\ group' = [group EXCEPT ![g] = "done"]
    /\ UNCHANGED <<programVars, ch, closed, scriptVars>>

\* Without wg.Wait(): as soon as the last goroutine has been launched.
BugClose ==
    /\ pc = "groups" /\ ~closed
    /\ Launched
    /\ closed' = TRUE
    /\ UNCHANGED <<programVars, group, ch, scriptVars>>

\* wg.Wait() returns.
Close ==
    /\ pc = "groups" /\ ~closed
    /\ \A g \in 1..4 : group[g] = "done"
    /\ closed' = TRUE
    /\ UNCHANGED <<programVars, group, ch, scriptVars>>

\* The first result that is false ends the program, and every goroutine with it.
TakeResult ==
    /\ pc = "groups" /\ Launched /\ ch # <<>>
    /\ ch' = Tail(ch)
    /\ IF Head(ch) THEN UNCHANGED <<pc, verdict>> ELSE End("refused")
    /\ UNCHANGED <<program, argv, typed, stdin, more, texts, group, closed, scriptVars>>

\* The channel is closed and empty: what validateGroups leaves to be checked.
CheckAll ==
    /\ pc = "groups" /\ closed /\ ch = <<>>
    /\ LET groups == parseKey(texts[1])
       IN  End(IF validateOrder(groups) /\ validateCross(groups) THEN "accepted" ELSE "refused")
    /\ UNCHANGED <<program, argv, typed, stdin, more, texts, goVars, scriptVars>>

GoStep ==
    \/ Parse \/ Go \/ Close \/ TakeResult \/ CheckAll
    \/ \E g \in 1..4 : SendResult(g) \/ Done(g)

ProgramStep == StartProgram \/ NothingRead \/ ReadText \/ Check \/ GoStep

-----------------------------------------------------------------------------
(***************************************************************************)
(* The ch21 keygen: integers of any size, cut where the script cuts them.  *)
(***************************************************************************)
rotate_left_32(value, count) ==
    LET n == count % W IN Low(value * 2^n) + value \div 2^(W - n)

keygen_hash(username) ==
    LET mixed(h) == Low(Xored(h, Upper(h)) * \h3B)
        loop[h \in Word, i \in 1..Len(username) + 1] ==
            IF i > Len(username) THEN Xored(mixed(h), Upper(mixed(h)))
            ELSE LET byte == username[i]
                 IN  loop[Xored(rotate_left_32(Low(Low(h + byte) * \h3F), byte % 16), \hEF), i + 1]
    IN  loop[\h2D, 1]

keygen_groups(h) ==
    <<Xored(Half(h), Half(\hA5A5)), Xored(Half(Upper(h)), Half(\h5A5A)),
      Xored(Half(rotate_left_32(h, 7)), Half(\h1234)),
      Xored(Half(rotate_left_32(h, 13)), Half(\hFEDC))>>

keygen(username) ==
    LET groups == keygen_groups(keygen_hash(username))
    IN  Dashed([g \in 1..4 |-> HexUpper(groups[g], G)])

\* The names main makes a key for.
OffersKey(username) == Len(username) \in 3..USERNAME_MAX - 1

-----------------------------------------------------------------------------
(***************************************************************************)
(* The validation script.  What comes after the first recvuntil of         *)
(* validate_single is never reached: no program ends by itself while its   *)
(* input is open, and none that waits for it has shown its prompt.         *)
(***************************************************************************)
Tests == Usernames * Builds
Build == ((turn - 1) % Builds) + 1

FindBuilds ==
    /\ spc = "start"
    /\ \/ spc' = "next" /\ UNCHANGED report
       \/ spc' = "done" /\ report' = "missing"
    /\ UNCHANGED <<programVars, goVars, startable, turn, failures>>

\* process() returns, and recvuntil waits for the prompt.
Launch ==
    /\ spc = "next" /\ turn <= Tests /\ Build \in startable
    /\ program' = "ch21" /\ argv' = <<>> /\ typed' = <<>> /\ stdin' = <<>> /\ more' = TRUE
    /\ texts' = <<>> /\ pc' = "start" /\ verdict' = "none"
    /\ spc' = "prompt"
    /\ UNCHANGED <<goVars, startable, turn, failures, report>>

Fail ==
    /\ failures' = failures \cup {turn}
    /\ turn' = turn + 1
    /\ spc' = "next"
    /\ UNCHANGED <<programVars, goVars, startable, report>>

\* process() raises, for a build that is there and cannot be executed.
NotStarted ==
    /\ spc = "next" /\ turn <= Tests /\ Build \notin startable
    /\ Fail

\* Somebody kills the program that waits; its prompt is lost with its buffer.
Killed ==
    /\ spc = "prompt" /\ pc # "end"
    /\ End("killed")
    /\ UNCHANGED <<program, argv, typed, stdin, more, texts, goVars, scriptVars>>

\* recvuntil raises EOFError.
PromptLost ==
    /\ spc = "prompt" /\ pc = "end"
    /\ Fail

Summarize ==
    /\ spc = "next" /\ turn > Tests
    /\ report' = IF failures = {} THEN "passed" ELSE "failed"
    /\ spc' = "done"
    /\ UNCHANGED <<programVars, goVars, startable, turn, failures>>

ScriptStep == FindBuilds \/ Launch \/ NotStarted \/ PromptLost \/ Summarize

Next == ProgramStep \/ ScriptStep \/ Killed

(***************************************************************************)
(* The script goes on while it can, and so does the program it runs; of    *)
(* the ch34 program, main and each goroutine.                              *)
(***************************************************************************)
Spec ==
    /\ Init /\ [][Next]_vars
    /\ WF_vars(ScriptStep)
    /\ WF_vars(spc # "none" /\ ProgramStep)
    /\ WF_vars(program = "ch34" /\ (StartProgram \/ Parse \/ Go \/ TakeResult \/ CheckAll))
    /\ WF_vars(Close)
    /\ \A g \in 1..4 : WF_vars(SendResult(g) \/ Done(g))

-----------------------------------------------------------------------------
(***************************************************************************)
(* Properties.  First the keys each checker is meant for, made forwards:   *)
(* what a user has to type, not what the program does with it.             *)
(***************************************************************************)
\* The first line of a text, ended by a newline or by the end of the input.
FirstLine(key, text) ==
    IsPrefix(key, text) /\ (Len(text) = Len(key) \/ text[Len(key) + 1] = NL)

\* ch09: the transformation undone; a star ends the key.
Ch09Key ==
    [i \in DOMAIN transformed_key |->
        Xored(transformed_key[i] \div 8 + (transformed_key[i] % 8) * 32, \h2A)]

FirstWord(key, ends) ==
    LET from == SelectInSeq(typed, LAMBDA c : c \notin {NL, SP})
        word == IF from = 0 THEN <<>> ELSE SubSeq(typed, from, Len(typed))
    IN  IsPrefix(key, word) /\ (Len(word) = Len(key) \/ word[Len(key) + 1] \in ends \cup {NL, SP})

\* "GCC-RE-2024-XPRO"
Ch13Key == <<71, 67, 67, DASH, 82, 69, DASH, 50, 48, 50, 52, DASH, 88, 80, 82, 79>>

Ch15Keys ==
    {RENG \o Dashed(<<HexUpper(g, G), HexUpper(Xored(g, XOR_SECRET), G),
                      HexUpper(Half(g + (Xored(g, XOR_SECRET))), G)>>) : g \in 1..2^(W \div 2) - 1}

\* ch18: the four rounds undone, from the pair that is expected.
Ch18Serial ==
    LET u[n \in 0..4] ==
            IF n = 0 THEN <<EXPECTED_HIGH, EXPECTED_LOW>>
            ELSE <<Xored(u[n - 1][2], mix32(u[n - 1][1], MAGIC[5 - n])), u[n - 1][1]>>
    IN  HexUpper(u[4][1], 2 * G) \o HexUpper(u[4][2], 2 * G)

\* ch32: the key that both halves of the program make of a name.
Ch32Key(name) ==
    LET a == ComputeUserHash(name)
        b == compute_native_hash(LowerCase(name))
        c == ComputeCrossXor(a, b)
    IN  Dashed(<<HexUpper(a, G), HexUpper(b, G), HexUpper(c, G),
                 HexUpper(ComputeFinalChecksum(a, b, c), G)>>)

\* ch34: the second byte of a group from its first and the sum of both, masked;
\* beyond a byte if there is none.
Second(index, first) ==
    LET masked == expectedSums[index] - Xored(first, \hDE)
    IN  IF masked \in 0..255 THEN Xored(masked, \hAD) ELSE 256

\* The keys of ch34 whose groups begin with these bytes: one, or none.
Ch34Keys(first) ==
    LET bytes == FlattenSeq([g \in 1..4 |-> <<first[g], Second(g, first[g])>>])
    IN  {key \in {Dashed([g \in 1..4 |-> HexUpper(bytes[2 * g - 1], 2) \o HexUpper(bytes[2 * g], 2)])} :
            /\ \A i \in 1..8 : bytes[i] < 256
            /\ \A g, h \in 1..4 : g < h => first[g] < first[h]
            /\ FoldLeft(Xored, 0, bytes) = \h42}

Ch20Text(name) ==
    LET key == Ch20Key(name)
    IN  Dashed([g \in 1..4 |-> FlattenSeq([i \in 1..G |-> HexUpper(key[(g - 1) * G + i], 2)])])

\* A name and its key, on two lines; a name that fills the buffer is only read
\* for what it is if the key follows it at once.
NameAndKey(KeyIs(_, _)) ==
    \E n \in 3..USERNAME_MAX - 1 :
        /\ n <= Len(typed)
        /\ \A i \in 1..n : typed[i] # NL
        /\ n < USERNAME_MAX - 1 => n < Len(typed) /\ typed[n + 1] = NL
        /\ KeyIs(SubSeq(typed, 1, n),
                 SubSeq(typed, IF n < USERNAME_MAX - 1 THEN n + 2 ELSE n + 1, Len(typed)))

Licensed ==
    CASE program = "ch05" -> FirstLine(generate_expected_key(LICENSE_SEED), typed)
      [] program = "ch07" ->
             /\ Len(argv) = 2 /\ Len(argv[2]) = 2 * G
             /\ \A i \in 1..2 * G : argv[2][i] \in AnyHex \ (65..70)
             /\ HexValue(argv[2]) = Ch07Hash(argv[1])
      [] program = "ch09" -> FirstWord(Ch09Key, {STAR})
      [] program = "ch11" -> FirstLine(EXPECTED_KEY, typed)
      [] program = "ch12" -> FirstLine(EXPECTED_PASSWORD, typed)
      [] program = "ch13" -> IF argv = <<>> THEN FirstWord(Ch13Key, {}) ELSE argv[1] = Ch13Key
      [] program = "ch14" -> FALSE
      [] program = "ch15" ->
             \E key \in Ch15Keys : IF argv = <<>> THEN FirstLine(key, typed) ELSE argv[1] = key
      [] program = "ch18" -> Len(argv) = 1 /\ UpperCase(argv[1]) = Ch18Serial
      [] program = "ch20" ->
             NameAndKey(LAMBDA name, rest : FirstLine(Ch20Text(name), UpperCase(rest)))
      [] program = "ch21" -> NameAndKey(LAMBDA name, rest : FirstLine(keygen(name), rest))
      [] program = "ch32" ->
             LET name == IF Len(argv) >= 2 THEN argv[1] ELSE Fgets(typed, Len(typed) + 2).text
                 given == IF Len(argv) >= 2 THEN argv[2]
                          ELSE SubSeq(typed, Len(name) + 2, Len(typed))
             IN  /\ \E i \in DOMAIN name : name[i] \notin {SP, NL}
                 /\ \E from \in 1..Len(given) :
                       /\ \A i \in 1..from - 1 : given[i] = SP
                       /\ LET rest == SubSeq(given, from + KEY_LEN, Len(given))
                              ended == SelectInSeq(rest, LAMBDA c : c # SP)
                          IN  /\ UpperCase(SubSeq(given, from, from + KEY_LEN - 1)) = Ch32Key(name)
                              /\ ended = 0 \/ rest[ended] = NL
      [] program = "ch33" ->
             /\ Len(argv) = 2 /\ argv[1] # <<>>
             /\ IsPrefix(SERIAL_PREFIX, argv[2])
             /\ LET made == Ch33Hash(argv[1])
                IN  \E g, h \in 0..2^(W \div 2) - 1 :
                       UpperCase(SubSeq(argv[2], 6, Len(argv[2]))) =
                           Dashed(<<HexUpper(g, G), HexUpper(h, G),
                                    HexUpper(Upper(made), G), HexUpper(Half(made), G)>>)
      [] program = "ch34" ->
             /\ Len(argv) = 1 /\ KeyParses(argv[1])
             /\ UpperCase(argv[1]) \in
                    Ch34Keys([g \in 1..4 |-> HexValue(SubSeq(argv[1], 5 * g - 4, 5 * g - 3))])
      [] program = "ch29" -> \E c \in {48, SP, PLUS} : FirstLine(RE29 \o <<c, 51, 51, 55>>, typed)

\* sscanf also reads bytes from texts that are not pairs of digits.
PlainText ==
    program = "ch20" /\ Len(texts) = 2 =>
        \A i \in DOMAIN texts[2] : texts[2][i] \in AnyHex \/ i % (2 * G + 1) = 0

(***************************************************************************)
(* Each checker accepts the keys it is meant for and no other, whatever is *)
(* typed at it: cut by its buffers, with blanks, in lower case, with       *)
(* characters missing, added or changed, ended by a newline or by the end  *)
(* of the input, and in whatever order the goroutines of ch34 run.  For    *)
(* ch14 that is no key at all, since its check reads the NUL as a digit,   *)
(* for ch09 also a key with a star behind it, for ch29 also a blank or a   *)
(* plus for the leading zero, for ch33 any two groups before the last two; *)
(* ch20 and ch21 refuse the key of a name that fills the buffer, although  *)
(* 21-keygenme/checkpoint.md:23 has such a name accepted: its newline is   *)
(* read as the key (keygenme.c:134-180).                                   *)
(***************************************************************************)
AcceptsExactly ==
    verdict # "none" /\ PlainText => (verdict = "accepted" <=> Licensed)

(***************************************************************************)
(* The ch34 program ends whatever the order of its goroutines, main and    *)
(* the one that closes the channel, whether main takes all results or      *)
(* leaves at the first that is false, and no goroutine ever finds the      *)
(* channel closed when it has a result to send (main.go:136-162).          *)
(***************************************************************************)
WaitingEnds ==
    program = "ch34" ~> pc = "end" /\ verdict # "panic"

(***************************************************************************)
(* What the chapter shows of the validation script: it comes to the end of *)
(* its runs, and to its report (21-keygenme/checkpoint.md:63).  It does    *)
(* not hold: from the first build that starts, the script waits for a      *)
(* prompt, and the program for a name.                                     *)
(***************************************************************************)
ValidationEnds ==
    spc = "start" ~> spc = "done"
=============================================================================
