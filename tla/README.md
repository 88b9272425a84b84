# Verification of the training repository

The repository is a course in reverse engineering of GCC/G++ binaries. Its
programs are small but real: servers and their clients, file formats with two
independent implementations, plugin pipelines, license checks, batch tools.
This directory holds TLA+ models of those programs, the TLC runs that check
them on small instances, and theorems about them whose proofs TLAPS checks.
Every definition is translated from the C, C++, C#, Rust, Go or Python source; the chapters'
prose is used only as the statement of what a program should do.

## 1. The system's parts

Paths are under `src/`. The repository has no single system: it has programs
that share conventions, and a few that talk to each other. "Hard" is what a
test would hardly reach.

### Network services (chapters 13, 20, 23)

Three TCP services with the same frame: one process, one thread, `listen`,
`accept` one client, `handle_client` until it leaves its loop, `close`, next.
Clients interact with the server only by frames on their connection; the
server's state is what survives from one frame, or one client, to the next.

| part | state | operations | hard | must hold |
|---|---|---|---|---|
| `binaries/ch23-network/server.c` | `session_t` (state, challenge, auth_retries), accept queue, sockets | `accept`, `handle_hello`, `handle_auth`, `handle_command`, `handle_quit`, default case, error paths of `proto_recv` | a session left to the next client, pipelining, `send` to a client that is gone (SIGPIPE ends the server), the third refusal | data only after a proof on the same connection; retry limit; replies in step; a gone client is let go |
| `binaries/ch23-network/client.c` | position in its script, key | handshake, auth, commands, quit | server lost in any phase, results dropped | verdict is true |
| `solutions/ch23-checkpoint-client.py` | the same, several sessions | `full_session`, `test_all_credentials` | a challenge kept from an earlier session; exceptions | verdict is true; success only on a BYE |
| `binaries/ch13-network/server.c` | globals `current_session_id`, `authenticated` | `handle_auth`, `handle_ping`, `handle_data_req`, default case | globals that outlive a client; identifiers made of the clock; two identifiers on one connection | data only under the identifier granted on the same connection, the latest |
| `binaries/ch13-network/client.c` | `session_id`, position | auth, pings, resources, goodbye | 0 is both an identifier and a failure; results dropped | exit 0 only when all was received |
| `binaries/ch20-network/{server,client}.c` | globals `session_token`, `authenticated` | auth, commands, ping, disconnect | a token that is the same in every session and is never cleared; requests without an answer | commands only after AUTH on the same connection |

### File formats and containers (chapters 06, 14, 15, 24, 25)

| part | state | operations | hard | must hold |
|---|---|---|---|---|
| `binaries/ch25-fileformat/fileformat.c` and `solutions/ch25-checkpoint-parser.py` | an archive on disk | generate, pack, unpack, validate; create, unpack, validate, round trip | two readers and two writers of one format; truncated files; a footer with a bad magic; two CRCs and a XOR in the right order | each reads what each writes; both refuse the same damage |
| `binaries/ch14-fileformat` | a table with an index behind its records | create, add, parse | an addition overwrites the index of the only copy; a full index; names that fill their chunk or do not fit their length byte | the table only grows; what is added is shown, of a name what its length byte leaves |
| `binaries/ch06-fileformat`, two ImHex patterns | two sample files | generate | offsets written as 0 and filled in last; a checksum read from a stream opened for writing | a header with offsets describes a whole file |
| `binaries/ch14-crypto`; `ch24-crypto` and `solutions/ch24-checkpoint-decrypt.py` | a container | encrypt, decrypt | padding, sizes cut and wrapped, what an encryption that died leaves, an output that is the input | decrypt undoes encrypt; success means the original |
| `binaries/ch15-fileformat`, its fuzzing harness | an offset into a file of sections | visit each section | sections that fail or expand, deliberate reads out of bounds | both visit the same sections, in step |

### Object systems (chapters 08, 13, 17, 20, 22)

| part | state | operations | hard | must hold |
|---|---|---|---|---|
| `binaries/ch22-oop` (host, two plugins), `solutions/ch22-checkpoint-plugin.cpp` | loaded handles, processors, their order and settings | load, sort, execute, unload | a plugin that fails to load half way; objects destroyed by the library that made them, before it is closed; a processor that fails in the middle of the pipeline; two buffers used in turn; the order of the directory | order by priority; nothing used after its end, nothing left behind; the text each processor was meant to see |

`binaries/ch17-oop`, `ch08-oop`, `ch13-oop` and `ch20-oop` are demonstrations
with fixed data; section 6 says why they are left out.

### Tools (scripts/, solutions/)

| part | state | operations | hard | must hold |
|---|---|---|---|---|
| `solutions/ch35-checkpoint-batch.py` | results, one report file | scan, analyse each binary, write | binaries replaced or gone between steps, readers that raise half way, two binaries of one name | one line for each binary found, and its details, true of it; a death keeps the old report |
| `scripts/batch_analyze.py` | a Ghidra project, an output directory that stays | import, run each script, merge | files of earlier runs, files without a binary's name, broken files, timeouts | what this run found replaces what earlier runs left |
| `scripts/triage.py` | one report | parse, scan | written apart from the batch program, with the same intent | it agrees with the batch program |

### Checks of keys (chapters 05 to 21, 29, 32, 33, 34)

Thirteen C programs, a C# one with a native library, one in Rust and one in Go
take a key, most of them by the buffer, and accept it or not; the solutions
hold a keygen for chapter 21 that also validates itself against every build of
the program, with a pipe as its input. The Go program checks each group of a key
in a goroutine. Hard: what a buffer cuts, and where the rest goes;
word widths; the end of the input; prompts nobody flushes; the order of
goroutines. Must hold: each accepts the keys it is meant for and no other; who
waits comes to an end.

### Left aside

Chapters 02, 03, 16 (a few stateless lines), 19 (ptrace and timing), pattern
and YARA files (declarative), builds; section 6 has the reasons. Chapters 27
and 28 are malware training samples and are deliberately not part of this
project.

`PROJECT.json` lists every component with its status, and every hazard at its
line.

## 2. Modules

```
   Ch23Protocol     TcpService     Ch13Protocol
              \     /    |    \     /
        Ch23Server   Ch20Server   Ch13Server
```

| server | composed with its clients | TLC instances | proofs |
|---|---|---|---|
| `Ch23Server`, refining `Ch23Gate` | `Ch23Network` | `MCCh23Server`, `MCCh23Network` | `Ch23Proofs` |
| `Ch13Server` | `Ch13Network` | `MCCh13` | `Ch13Proofs` |
| `Ch20Server` | `Ch20Network` | `MCCh20` | `Ch20Proofs` |

These proof modules rest on `TcpServiceProofs`. The other parts stand by
themselves:

| part | modules, each extending those before it | TLC instance |
|---|---|---|
| chapter 22 | `Ch22Processors`, `Ch22Pipeline`; proofs in `Ch22PipelineProofs` | `MCCh22` |
| chapter 25 | `Ch25Format`, `Ch25Tools`; proofs in `Ch25Proofs` | `MCCh25` |
| chapters 6, 14, 15, 24 | `Cells`; `Ch06Samples`, `Ch14Table`, `Ch14Cipher`, `Ch15Sections`, `Ch24Crypt`, composed by `Containers`; proofs in `ContainersProofs` | `MCContainers` |
| chapter 35 | `Ch35Elf`, `Ch35Tools`; proofs in `Ch35ToolsProofs` | `MCCh35` |
| keys | `Words`, `Lines`, `Keychecks`, `Keygenmes` | `MCKeygenmes` |

**`TcpService`** is what the three servers have in common. `running`,
`backlog` (the accept queue), `served` (the connection `handle_client` works
on), and for each connection slot the peer's end (`peer`), the requests the
server has not read (`inbox`), the replies the peer has not read (`outbox`)
and the requests whose reply the peer has not read (`asked`, a history).
One server action takes one frame and runs the whole handler: the state
change, `Emit` of the replies, and `Conclude`, which closes the connection if
`handle_client` leaves its loop. Three points of the code are kept with care:

- A `send` to a client that has closed has three outcomes (`Outcomes`): it
  succeeds (the RST comes later), fails, or raises SIGPIPE. No server ignores
  SIGPIPE, so the last one ends the process and every connection it holds.
- Replies already in a socket can be read after the server has closed; a close
  discards what the server has not read.
- A `recv` that returns 0 is seen only when everything sent before was read.

Frames are records of a type and the fields the handlers look at. Partial
reads are not modelled: `recv_all`/`send_all` loop until the frame is complete
or the connection is gone, so no other step of the single thread can see half
a frame. `accept`, `socket` and allocation failures only print and go on, and
are left out.

**`Ch23Protocol`, `Ch23Server`** model the chapter 23 server. `state`,
`challenge`, `auth_retries` are the fields of `session_t`; `presented`,
`welcomed`, `refused` are histories used by properties only. One action per
path of `handle_client`: `RefuseFrame` (errors of `proto_recv`),
`RefuseState` (every handler's first test), `HandleHello`,
`RejectMalformedAuth`, `HandleAuth`, `RejectEmptyCommand`, `HandleCommand`,
`HandleQuit`, `HandleUnknown`, `ConnectionLost`, `Accept` (with the `memset`
of the session). The order of state change and reply is the code's:
`handle_hello` moves the state only after a successful send, `handle_auth`
before it. A byte is one bit of a byte: XOR acts on all bits alike and nothing
else is computed from challenge or password.

**`Ch23Gate`** is what that server promises: visitors wait, are admitted one
at a time, are greeted, trusted only after a greeting, and leave at the
Limit-th refusal. `Ch23Server` implements it under the mapping `Phase`.

**`Ch23Network`** composes the server with the three client programs:
`client.c` ("demo"), `full_session` ("full") and `test_all_credentials`
("testall") of the Python client. A client is a script of requests with, for
each step, what it does on an error and on a lost connection
(`GivesUpOn`, `GivesUpOnLoss`): these differ from client to client, and are
where the findings lie. A "testall" client uses one slot for its successive
connections; where the Python code lets an exception drop the old socket, it is
closed before the next `connect` in the model.

**`Ch13Protocol`, `Ch13Server`, `Ch13Network`** do the same for chapter 13:
two globals (`current_session_id`, `authenticated`), a clock (`now`,
`SessionIdAt[t]` for `time(NULL) ^ 0xCAFEBABE`), and the client program phase
by phase. `granted` is a history of the identifiers issued on a connection. A
connection belongs to a client program with a name, to one without, or to a
stranger that sends anything.

**`Ch20Server`, `Ch20Network`** model chapter 20: two globals again
(`session_token`, `authenticated`), of which only the second is reset for a new
client, while the token is the same in every session because `generate_token`
starts from a fixed seed. Two kinds of frames are dropped without an answer
(`Drop`, `Silent`). The client looks at the answer to AUTH and prints whatever
comes after it; `got` records which steps received what they were meant to.
`admitted` is a history: the peer was sent an AUTH_RESP of success. An ECHO is
modelled when its `arg_len` is the length of its arguments.

**`Ch22Processors`** says what the five processors of chapter 22 do to a text:
two of the host, one of each plugin, and the solution's. A text is a sequence
of characters, and a character is a numbered letter, a digit, a space, or one
half of what XorCipher writes for a character. Each works as its C++ does:
the cut at `out_cap`, the walk over word boundaries, the swap of a range in
place. `WordsMirrored` is the same as a definition without buffers.

**`Ch22Pipeline`** is the host from its first processor to the end of
`~Pipeline`, one action per step of a loop: `AddInternals`, `LoadPlugin` (an
entry of the directory, in any order, with every way to fail), `Sort` (any
order `std::sort` may leave), `Skip`, `Step`, `StepFails`, `Report`,
`DeleteInternal`, `DestroyPlugin`, `ClosePlugin`. `alive` and `open` are the
objects and the `dlopen` handles that exist. Two entries of a directory may
lead to one library, whose code is mapped while either is open. Left out are
the options nobody sets: `main` configures no plugin.

**`Ch25Format`** is the CFR format as both tools write and read it. A file is
a sequence of cells tagged with what they are: one for each field of a
structure, one for each byte of data, two for a name (a stem and a suffix).
Sizes count cells. A CRC is the sequence it covers, so that no two differ; in
exchange, what no CRC covers, or covers in the wrong order, is seen at once.
`Stored` writes the records one behind the other, and `ReadRecord` and `Walk`
take them from the cells as `parse_archive` and `parse_cfr` do:
a damaged length makes them take the wrong cells, and every later read is off.
`CValid`, `PyStrict` and `PyValid` are the three judges of a file, each with
the checks of its function: they differ in the footer's magic and in names.

**`Ch25Tools`** is one archive between the two programs. `archive` is the file;
`written` (what it was made to hold) and `intact` are histories; `out` is what
the last command extracted; `left` says whether a round trip's copy is still
there. Actions: `Generate`, `Pack`, `CValidate`, `CUnpack` of the C tool;
`Create`, `PyValidate`, `PyUnpack`, `RoundTrip` and the archives of `cmd_test`
(`WriteTest`) of the Python tool; `Damage`, by which a copy is cut, grows or
has one cell changed to another of its kind (`Damaged`). `Write` may meet a full disk: the C tool drops the
results of `fwrite` and exits 0, Python raises. The two `guess_type` differ
(`CType`, `PyType`), as do the treatment of an empty name and of a name that is
not ASCII: Python writes a record without a name to the file "unnamed", over a
record of that name, which `UnpackRestores` excepts (`Unnamed`). Left out: `list`, `read` and `parse`, which print what the readers
read; version and timestamp; a full disk under `unpack`.

**`Cells`** is a file as the container tools write it: a sequence of cells, one
for what one call writes, with its bytes where a reader counts them. A process
is the list of writes it still has to make, so that one that dies leaves a
beginning of them; a write of several cells into the middle of a file reaches
the disk cell by cell (`FirstOf`, `RestOf`). **`Ch14Table`** is the table of chapter 14 with its index;
**`Ch14Cipher`** the cipher of `ch14-crypto`, computed: the S-box, the key
schedule with the expansions that run past the round keys and wrap around, the
rounds, CBC and the container, on bytes of two bits and blocks of four bytes,
in the code's proportions. **`Ch24Crypt`** has AES as a black box that gives
the plaintext back to the same key and predecessor only. **`Ch15Sections`** is
the walk over the sections of a file, once as `main` does it and once as the
fuzzing harness does; where the code reads out of bounds on purpose the process
may end there or go on. **`Ch06Samples`** is the generator of the two sample
files, and the two ImHex patterns that follow the offsets in them.

**`Containers`** runs those tools one at a time in one directory. `disk` holds
the files, `proc` the writes of the command that runs, `last` what the last
command reported, `put` (a history) what each file was made of. `Start` reads
the input and decides everything, `WriteNext` lets one write, or the next cell
of one, reach the disk, and between any two the process may be killed (`Die`).
That the machine stops is not modelled: no tool calls `fsync`, and the writes
reach the disk in the order they are made. `process_decrypt` empties its output
between the header of its input and the blocks; when the two are one file there
is left what stdio had read ahead (`Fetched`, `READ_AHEAD`). `bench` says which files, tools and inputs a
behaviour is about.

**`Ch35Elf`** is what the two Python analysers say of one file, where a file is
what the libraries they call find in it; **`Ch35Tools`** is a shell in which
the three tools are run one after the other over a directory that somebody may
rebuild: each `stat`, parse and scan is a step, and the binary may be another
at the next. `quiet` is a history: nobody has changed the directory since the
checkpoint made its list. `fresh` is another: what the scripts of this run have
written whole. The Ghidra scripts are those three the chapters give
(`FileName`, `KindOf`): two write `<name>_<suffix>.json` with a member
`binary`, and `batch_export.py` of chapter 8 writes `<name>.json` without one,
which `merge_reports` files under the stem. That one writes into
`/tmp/ghidra_batch`, so with it that is the `--output` directory. What was in
this directory before is anybody's, except that `report.json` is no script's
result: a program named `report` under `batch_export.py` is left out
(`FilesAssumption`, `OutputsAssumption`).

**`Words`** has words of W bits and the texts made of them (`RotL`, `HexUpper`,
`HexValue`), **`Lines`** the ways a program takes a line from a stream (`Fgets`
with its size, `Scanf`, `ReadLine`). A group of a key has W/8 digits where the
code has four; constants keep their low bits, rotations are taken modulo W.
**`Keychecks`** decides, program by program, on texts already read.
**`Keygenmes`** is the programs: `main[p]` says how many arguments it insists
on, where it reads, into which buffers and which names it goes on with;
`StartProgram`, `ReadText`, `NothingRead` and `Check` are its steps. `Parse`,
`Go`, `SendResult`, `Done`, `Close`, `TakeResult` and `CheckAll` are those of
the Go program, where each group has a goroutine; a send to a closed channel
ends it in a panic. `FindBuilds` to `Summarize` are the validation script of
chapter 21 up to where it comes: `process()` gives the program a pipe, the
program's prompt stays in its buffer, and the `recvuntil` that waits for it has
no timeout, so that only a program that is killed (`Killed`) lets the script go
on. What it would do after the prompt is not reached and not modelled. The Go
program keeps its bytes and sums in full width.

A definition whose name begins with `Bug` is a wrong variant of the one that
follows it (a missing reset, an off-by-one, a dropped test). No specification
uses it; each shows that a property would notice such a bug.

## 3. Runs

| run | question | distinct states |
|---|---|---|
| `ch23_server` | the server against peers that send any of 14 requests in any order, pipeline two deep, hang up and reconnect | 245,984 |
| `ch23_network` | the server with one client of each kind, a good account, a wrong password, an unknown name; the operator stops the server at any moment | 44,690 |
| `ch23_exit` | does the demo client's success mean a completed session? (violated: finding) | |
| `ch13` | the GCRP server with a client that has a name, one that has none, and a stranger that sends anything, while the clock ticks | 493,896 |
| `ch20` | the token service with its client among two strangers, one that knows the password and sends anything, one that only knows the token | 235,656 |
| `ch22` | the plugin host over six directories, read in every order, six texts and all combinations of `-d` and `-w` | 11,376 |
| `ch25` | one archive between the C tool and the Python tool: every command of either, in any order, a disk that may be full, a file that may be damaged once | 28,961 |
| `ch25_magic` | does an archive that `validate` passes have the footer's magic? (violated: finding) | |
| `containers` | the tools of chapters 6, 14, 15 and 24 on their files, in any order, each killed after any write | 114,159 |
| `ch35` | the three analysis tools over one tree that others change between any two steps, with what earlier runs left | 250,026 |
| `keygenmes` | fifteen key checkers given right keys, keys with a character missing, added or changed, names of every length up to two beyond the buffer; the goroutines of ch34 in every order; the validation script as far as it comes | 80,824 |
| `ch21_script` | does the validation script come to an end? (violated: finding) | |

`CHECK_DEADLOCK FALSE` is set in all of them because the system may stop: the
operator may end the server, clients and programs end, and the bounds (clock,
window, number of commands) stop the environment.

**What they show.** `ch23_server`: `DataOnlyAfterProof` (no result of a
command without a password proven on that connection, with a challenge sent
there), `RetryLimit` (the counter counts this connection's refusals and the
last one closes it), `InStep` (the n-th reply answers the n-th request; the
only unpaired reply is the ERROR after the last refusal), `ImplementsGate`
(refinement), `LostClientReleased` (liveness). `ch23_network`:
`VerdictIsTruth`, `NoProtocolError` (no client provokes an ERROR, and none
leaves a request behind that would make the server die of SIGPIPE),
and `EveryClientEnds`. `ch13`: `DataFromOwnSession` (what a peer
receives it asked for under the identifier granted to it),
`OldIdRefused`, `InStep`, `SuccessIsComplete` (exit code 0 only after every
resource, and GOODBYE is the only request ever left behind), `EveryClientEnds`.
`ch20`: `CommandsAfterOwnAuth` (the token alone opens nothing), `InStep` (the
silent requests shift no reply), `ServedInFull` (a client of a server that is
still alive ended with every answer, under its own heading, and left nothing but
DISCONNECT behind), and `ClientsEnd` (unless a stranger keeps its
connection for ever: one client is served at a time, and nothing in the code
ends a silent one). `ch22`: `UsedInItsLife` (no object is called, or destroyed,
after its end or without its library), `NothingLeftBehind` (handles and objects
are given back whatever failed), `BuffersApart`, `OutputIsComposition` (what is
printed is what the loaded processors make of the text, whatever the order of
the directory, each buffer with room for its NUL), and `Ends`. `ch25`: `UnpackRestores` (either tool
gets back what either put in, the last of two records of one name),
`DamageIsFound` (with a footer, what the C tool's `validate` passes and what
Python parses strictly is as it was written, and a whole archive is never
faulted), `RoundTripHolds`, and `FailureKeepsArchive` (a command that fails
has not emptied the archive there was, unless the disk was full).
`containers`: `ReadsBack` (what a tool wrote whole, its reader gets back, for
the table, of each name as much as its length byte says, and for the cipher, of
a container decrypted in place a beginning), `SuccessIsOriginal` (a decryption
that reports success gives what was encrypted, also of what a death left),
`TableOnlyGrows` (no step, deaths included, makes the table show less than it
showed), `CaptureIsSealed` (a sample whose header has its offsets is complete,
and both patterns find each structure at its place), `SectionsInStep` (program
and harness visit the same sections of a file, each at its descriptor). `ch35`:
`SummaryIsTrue` (a line for each ELF file, true of it; the details under a name
are those of the last file of that name that could be read), `TriageAgrees`,
`FreshResultsWin` (what a script has just written about a binary is in the
report, unless a file that is read later says the same kind of thing about the
same name), `DeathKeepsReports`, `EveryRunEnds`. `keygenmes`: `AcceptsExactly` compares what each program says
of whatever was typed at it with keys that are made forwards: the cipher of
ch18 run backwards, the transformation of ch09 undone, the keygen of ch21, the
second byte of a ch34 group from the first; `WaitingEnds` says that the Go
program comes to a verdict, with no goroutine left waiting and no panic. W = 8
leaves the 32-bit keys the chapters print unchecked, the one of ch05 among them;
and where a program's key is a hash of the name (ch07, ch20, ch32, ch33) both
sides use the hash as the code computes it, so that what is compared there is
reading, cutting, case, digits and separators.

**Bounds.** Two connections in the server runs are enough for everything that
passes from one client to the next: one being served and one waiting or
following; slots are used again, so a third client is the first slot again.
`Window = 2` lets a request be pipelined behind another in every order, which
is what pairing and state can get wrong; the proofs do not have this bound.
`MAX_AUTH_RETRIES = 2` in `ch23_server` leaves one refusal that is not the
last and one that is; `ch23_network` has the code's 3. `CHALLENGE_LEN = 1`
with a two-byte password makes the XOR wrap around. `Backlog = 1` makes the
accept queue fill with three clients. In `ch20` a stranger before and one
behind the client is all that can touch its session: the server has one set of
globals, written when a client is accepted. Files and resources: one that exists and
one index that does not. The clock of `ch13` has two values, so that a
connection may be granted two identifiers and two clients the same one. In `ch22` an alphabet of four
letters makes Rot13 a shift by two and leaves letters with a leet digit and
without; buffers of `CAP = 7` cut one of the texts and make XorCipher, which
writes two characters for one, cut another; the directories hold each way a
plugin can fail to load, two names of one library, a priority equal to a host's
processor's, and a plugin that fails in `process`. In `ch25`, `MAX_RECORDS = 2`
is reached and passed by one list; the XOR key has two bytes and data of three
make it wrap around; the files have one base name in two directories, a name
that is only a suffix, a suffix in capitals, a name that is not ASCII, empty
data, and a path that does not open. A damaged cell takes values of its own
kind, a length 0, 1 and 3, which moves the reader back, little and far; a full
disk takes nine cells, the header and one more. One change per file is what a
CRC promises to find whatever it is; the model's CRC finds any.
In `containers` a bench is a directory, the tools used in it and how many
commands may write there: five on a table whose `MAX_RECORDS = 3` is reached
and passed, with names of 0, 256 and 257 bytes, one whose length fills its chunk,
and files the writer did not make; two runs of the cipher over documents of
zero, less than one, one and more than one block, with two passwords that agree
in what is kept of them, and with `READ_AHEAD = 2` containers that are in the
buffer whole and some that are not; three of the AES tool with `MAX_FILE = 7`; every pair
of eleven kinds of sections before a third, with and without a checksum; three
of the four tools mixed. In `ch35`, two of three paths have one file name, the
tree changes once and two tools are run, which is what one report may confuse
with another; the Ghidra directory has a broken file or a list, or results about
the same binary from an earlier run under names that sort before and behind the
fresh ones; the scripts are one that writes into the stem and one that does not;
files are one with everything, one stripped, one whose symbol
table raises half way, one lief refuses, and a text. In `keygenmes`, W = 8
makes every key one that can be written down; texts go to two characters beyond
each buffer (`MAX_INPUT = 20`, `USERNAME_MAX = 6`); names mix cases, blanks and
digits; `Usernames = 2` and `Builds = 2` let a pair that fails be followed by
another of the same name and of the next.

**Fairness.** Weak fairness of the server's steps taken together (its loop
never stops while it has something to read) and, in the network runs, of each
client program's steps (each is a straight-line program in its own process).
The chapter 22
host is one process that nothing holds up: weak fairness of its steps.
In chapter 35 the tool that runs goes on: the calls it makes end, by a timeout
if they have to. In `keygenmes`, the script and the program it runs, and the
main function and each goroutine of the Go program, which the runtime schedules
fairly; never the kill that frees the script.
The operator, the clock and the peers of the server runs are never obliged to
act: a silent client may hold the server for ever, which is what the code does.

**Findings.** Each has a run that violates the property which says what the
repository says. (1) `run_demo_session` drops the results of `do_command` and
`do_quit`, so `client.c` reports a completed session, and the Makefile's test
passes, when the server was lost after LIST. (2) The Python `validate` of
chapter 25 reports no error in a file whose footer has another magic, which the
specification of the format lets no parser ignore; the C tool counts it.
(3) The ch21 validation script waits for a prompt that the program, whose input
is a pipe, never flushes (`ch21-checkpoint-keygen.py:180-181`); the chapter
shows it ending with 30 of 30 and 50 of 50.

Other differences between the code and what is said of it. They are in the
models as the code has them, and the properties say what the code does:

- ch21: a name of 31 characters, which the program says it takes, fills the
  buffer of `read_line`: the newline behind it is read as the key, and the key
  the keygen makes is refused (keygenme.c:134-180, against
  21-keygenme/checkpoint.md:23). `AcceptsExactly` has it so.
- ch14-fileformat: `add` reports a record with a name of 256 bytes as added,
  and the parser shows neither it nor any behind it; of 257 bytes one is kept
  (fileformat.c:171, 178, 220, 532). `ReadsBack` says of each name what its
  length byte leaves.
- ch35: the checkpoint keeps the details by file name, so of two binaries of
  one name in two directories one has none (ch35-checkpoint-batch.py:598-602,
  against 35-automatisation-scripting/checkpoint.md:29). `SummaryIsTrue` says
  whose they are. `batch_analyze.py` reads every `*.json` in the order of the
  names: a stale `x_functions.json` takes the place of the `x.json` a script
  has just written (batch_analyze.py:191-211). `FreshResultsWin` says when.
- ch13: in one second of 2^32 the server's identifier is 0, which its client
  takes for a refusal (client.c:276). ch22: internal processors are deleted
  before the plugins (oop.cpp:182-193), the text says the opposite. ch23: the
  commands of a refused replay are answered with an ERROR, the chapter says
  they are not answered.
- ch06: the CRC in the footer is of memory nobody filled, since a stream opened
  with `"wb"` cannot be read (fileformat.c:509-517); a packet header has 16
  bytes where comments say 20. ch15: `verify_signature` asks for 40 bytes of a
  block that ends at 24. ch14-fileformat: the record that finds the index full
  is announced as added and lost. ch14-crypto: an empty password divides by
  zero; a container cut at the end, or one of more than 31 blocks that is
  decrypted onto itself, loses its rest with exit code 0 and no message.
  ch24: `verify_roundtrip` can no longer fail once the padding was removed.
- ch35: batch_analyze.py reads its own earlier report.json as a result; one
  JSON file that holds a list ends every run; a timeout leaves the project
  behind; triage.py's dictionary is not "the same as the checkpoint's".
- keys: ch14 refuses every key, because its loop takes in the NUL; ch20 has
  the fault of ch21 for names of 63 characters, and `sscanf` reads bytes from
  texts that are no pairs of digits; ch29 takes its sum modulo 0x10000, not
  0xFFFF; ch33 checks only the last two of four groups.

## 4. Proofs

TLAPS, for every value of the constants under the named assumptions. For the
servers these are `ServiceAssumption`, `ProtocolAssumption`,
`CredentialsAssumption`, `RequestsAssumption`, `ClockAssumption`: types of the
constants, at least one retry, a non-empty challenge; nothing about what
clients do. For the servers with their clients, `ScriptAssumption` (a peer that
is a client program may send what the program sends, besides anything else),
`NetworkAssumption`, and two facts of the code: the hash the ch20 client
computes of its password is the one the server was built with
(`ClientAssumption`; client.c:80-93, server.c:24-29), and the ch23 server grants
a second try (`RetriesAssumption`; protocol.h has three).

- `TcpServiceProofs`: lemmas about the frame, for any sets of requests and
  replies: types, the accept queue (a connection waits at one place and never
  while it is served), pipelining (`Flow`: what was asked and not answered
  is the replies in the socket followed by what the server has not read), and
  what a step on one connection leaves of another.
- `Ch23Proofs`: `TypeCorrect`, `Retries` (`RetryLimit`), `Authenticated`
  (`DataOnlyAfterProof`), from one inductive invariant
  `TypeOK /\ Queue /\ Count /\ Greeted /\ DataOnlyAfterProof`. Neither property
  is inductive alone: `Count` is needed because a counter left at the limit,
  or a connection waiting twice, would carry refusals from one client to the
  next; `Greeted` because AUTH is checked against a challenge held by the
  server, and the proof speaks of one its peer was sent. `XorInvolution` is
  the lemma that lets the server compare plain passwords. `Pipelined`
  (`InStep`) adds that the requests a reply belongs to are those the server
  has read, and treats the last refusal apart, which sends two frames for one
  request. `Refinement` (`ImplementsGate`) maps each handler to a step of the
  gate or a stutter, from the same invariant.
- `Ch13Proofs`: `TypeCorrect`, `OwnSession` (`DataFromOwnSession`) and
  `Pipelined` (`InStep`), from `TypeOK /\ Queue /\ Flow /\ Pairs /\ Own`.
  `InStep` holds at every pipelining depth, because `Flow` places each request
  and `Pairs` says what stands at its place; `OwnSession` needs both, since a
  reply is judged by the request at its place. `LatestOnly` (`OldIdRefused`)
  needs `Current`: the grants in a socket form a chain whose last link is the
  identifier the server holds.
- `Ch20Proofs`: `TypeCorrect`, `TokenAlone` (`CommandsAfterOwnAuth`) and
  `Pipelined` (`InStep`), from
  `TypeOK /\ Queue /\ CommandsAfterOwnAuth /\ InStep`.
- The compositions, in `Ch23Proofs`, `Ch13Proofs` and `Ch20Proofs`. What
  a client ends with says nothing by itself of how it came there, so each has
  an invariant `NetInv` that says, for every point a client program may stand
  at, what its two sockets hold (`Sockets`: at most one request or one reply,
  and which), that one who waits has had no answer (`Waiting`), that the
  server's session is at the same point (`Agree`), that the server does not
  close first (`Lasting`), and what the program has seen so far. Strangers are
  the reason the server's invariant is part of it. It gives `NoError`
  (`NoProtocolError`) and `Truthful` (`VerdictIsTruth`) for chapter 23, with
  any scripts and accounts;
  `CompleteSuccess` (`SuccessIsComplete`) for chapter 13; `Served`
  (`ServedInFull`) for chapter 20. `NetSafety` carries the servers' own
  properties over to the compositions of chapters 13 and 20.

- `Ch22PipelineProofs`: `TypeCorrect`, `Lifetimes` (`UsedInItsLife`),
  `Released` (`NothingLeftBehind`) and `Apart` (`BuffersApart`), for any number
  of plugins and any directory (`PluginAssumption`). `Life` says what exists in
  each phase, by the place of the loop; it is inductive only with `Once`: no
  entry is loaded twice, because `readdir` returns it once.
  `Output` (`OutputIsComposition`) is about any alphabet, buffer size, texts
  and plugins. Its invariant `OutInv` says of `execute` that what the buffer
  holds is what the *set* of processors so far makes of the text
  (`Composed`): the place each character comes from, how often rot13 turned it,
  whether it was made a capital, whether digits replaced it, and how much of the
  text is still there. That forgets the order in which they ran, and may,
  because case commutes with all and places with single characters. Where the
  order does matter `Sorted` provides it, by `OrderAssumption`: to_leet comes after
  rot13, which turns no digit, and XorCipher after all, once, since it writes what
  no other processor reads back; the priorities in the code are 30, 40 and 50.
  `InputAssumption` gives the types of the texts. The invariant needs `Distinct`
  and `Known` as well: nothing runs twice, and what is loaded is of one
  directory. `ReverseWords` walks with a pointer and swaps in place: `VisitIs`
  says what is turned round when the pointer stands at p, and
  `ReverseWordsIs` that every word ends in its mirror image.
- `ContainersProofs`: `ComesBack` (`ReadsBack`), `SuccessTells`
  (`SuccessIsOriginal`), `AdditionsOnlyGrow` (`TableOnlyGrows`),
  `CapturesAreSealed` (`CaptureIsSealed`) and `VisitsInStep`
  (`SectionsInStep`), for any number of files, records, sections, commands and
  deaths, any texts and any keys. The first four follow from `BenchInv`: a file is what its last writer was given, or what a
  death left of it (`Filed`, `FileHolds`); the writes a running command has still
  to make lead from what is on the disk to what it was given, and each file on
  the way could be read (`Running`, by kind of command in `Pending`); a report is
  about the file it was made of (`Reported`). The properties speak of
  commands that have ended, so nothing less says what they read. For an
  addition, which overwrites its index, its record and its header in place,
  `Pending` says which part of the new file has been laid over the old
  (`Lays`), and the table lists its old records until the header changes.
  `TableHolds` is what the records and the index of a table are under that.
  Of the cipher, `BlockBack` undoes the rounds one by one, for any S-box that is
  a permutation (`SboxAssumption`) and any operation that undoes itself
  (`KeyAssumption`), and `Chain` the feedback of the blocks; key expansion only has to
  give bytes. AES is a function of the key and the block, as the model has it.
  For the samples `SealInv` adds that no other program writes what the patterns
  look for (`Clean`), and that the generator places its header last; what the
  patterns then find is computed from the lengths of the cells before each
  offset (`SizeOf`). For the sections an invariant of its own, `SectionsInv`,
  only has to say that nothing is written beside such a file; the work is in
  `ParsedIs`, which goes along the sections of a well-formed file and finds the
  parser's offset at each descriptor, and what the offset gives there to be what
  was put there.
  `BenchInv` speaks of all sequences, so TLC cannot evaluate it; each of its parts
  was shown to hold by proof alone. The other assumptions are the types of the
  constants (`TableAssumption`, `CipherAssumption`, `Crypt24Assumption`,
  `ReadAheadAssumption`), that the
  passphrase of the script is the program's (`PassphraseAssumption`), and that no
  file that was there before is one of the programs' own (`BenchAssumption`).
- `Ch35ToolsProofs`: all four safety properties of chapter 35, for a directory
  of any size, any changes to it and any number of runs:
  `ReportsSurviveDeath` (`DeathKeepsReports`), `EveryElfHasItsLine`
  (`SummaryIsTrue`), `TheLastRunIsReported` (`FreshResultsWin`) and
  `TriageSaysTheSame` (`TriageAgrees`). Each rests on an invariant of its own.
  `Places` says which tool stands where. `Walk` says that the results and what
  is still to do make up the list, and `Reading` that while nobody touches the
  directory, what was read of a binary in several steps belongs to one file;
  without them the line of a binary could not be traced back to it; `LastOfName`
  names the one of several binaries whose details stay. For the
  merged report, `Written` says that each result of this run stands in its file
  (`Stands`) under the name and kind of its script, which needs that no script
  runs twice and that no two of them write into one file; `ReportHolds` is what
  `Consolidate` makes of that. The property's exception, a file that is read
  later and says the same kind of thing about the same name (`Overridden`), is
  the only one: files of any origin and content may lie in the directory.
  `TriageInv` carries what either program said to the moment both have spoken.
  The assumptions are the types of the constants, that a name and a script make
  a file, other than report.json, and that report.json is no script's result
  (`FilesAssumption`, `OutputsAssumption`).
  `find_elfs` is a recursive function; `LeastNumber`, every non-empty set of
  numbers has a least, stands in for the induction it needs.

- `Ch25Proofs`: `Unpacking` (`UnpackRestores`), `Damages` (`DamageIsFound`),
  `RoundTrips` (`RoundTripHolds`) and `Keeping` (`FailureKeepsArchive`), from
  `ArchiveInvariant`: what is on the disk is what was written, whole, cut or
  damaged once, and the last answer is what the tools compute from it. The work
  is in the format. Writer and reader are recursive functions over the records
  (`Stored`, `Walk`), `Xor` one over the bits, and `Induction`, from the least
  number of a set, goes along them: `RecordAt` places every record in the file,
  `ReadWhole` finds it there again, and `XorTwice` undoes the key.
  `WholeIsValid` is the result: of what was written both tools find no fault,
  and the same records. `AnyWalk` says what the readers make of any file, however
  damaged: they never stop before the end of the header, and what they have
  read can be written (`ReadCanBeWritten`), which is why a round trip succeeds
  also on an archive that was damaged where no check looks. `DamageFound` needs
  no more: the CRC of a footer stands behind the place where the readers
  stopped, no cell of a record is one (`PlainPayload`), so they stopped where
  the writer did, and the CRC covers every cell before it. It assumes, as the
  model does, that a CRC tells any two files apart. The constants are of their
  types (`FormatAssumption`, `ToolsAssumption`): files have a name, the lists of
  records the tools themselves make fit `MAX_RECORDS`. Python's file of a record
  without a name was met here: without the exception the lemma
  `NamedExtracted` is false.

Only model-checked: `AcceptsExactly` (the key checks compute with Bitwise, from
which no theorem can be reached), and the liveness
properties (fairness and ENABLED are beyond the prover).

## 5. Plan

The models are complete up to what section 6 leaves out, and what the runs check
is proved up to what section 4 lists at its end.

No RECURSIVE operator is used in a module that is proved about. What a recursive
function computes the prover can be told, as `elfs` of chapter 35 and `Walk` of
chapter 25 show.

## 6. Not modelled

- **ch17, ch08, ch13, ch20 (object systems)**: straight-line demonstrations
  with fixed data that read no input. In ch13-oop and ch20-oop, one program, a
  manager may outlive the library of a plugin's device; the repository has no
  plugin for it, and chapter 22 has the same hazard with plugins.
- **ch05 mystery_bin**: a password compared as in ch12, and one command that
  writes a file nothing reads.
- **ch10**: two versions of a checker whose subject is the overflow of a
  buffer. **ch19**: what ptrace, the clock and the layout of the process say,
  and a second file that is unsafe on purpose.
- **ch02, ch03, ch16**: a few stateless lines each. **ch20's reconstructed
  header**, patterns, YARA rules, builds, hooks: declarations or I/O. The two
  ImHex patterns of chapter 6 are modelled with its generator.
- **ch27, ch28**: malware training samples.
- Of what is modelled, partly: the note of each component in `PROJECT.json`.
  Printing, usage errors, `malloc` and `fopen` failures are left out
  throughout, unless a property is about them.
