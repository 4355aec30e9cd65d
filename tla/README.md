# Verification of xx-crypto-cli

TLA+ models of `xx`, a command line tool that moves bytes between streams while hashing,
encrypting, encoding and generating them. The modules are written from the C sources under
`src/`; comments name the functions they stand for. TLC checks them on small instances. TLAPS
proves theorems about the stream layer, the program around its commands, the buffer and the array that
everything in memory goes through, the tokenizer that rewrites a line in place, the hex and base64
codecs, and the lines people exchange in a chat.

## 1. Inventory

The program is single threaded. What makes it hard is not concurrency but *composition*: streams
are stacked on streams, ownership travels down the stack, calls fail in the middle of loops, one
process runs many commands over the same stdin and stdout, and Ctrl-C ends it between any two
steps.

| part (source) | state | operations | interacts with | what makes it correct |
|---|---|---|---|---|
| `xbytes` (`data/xbytes.c`) | block, length, capacity | new, new_copy, require_size, write, (v)printf, clean, free, detach | used by read_all, the hex decoder, the printers | content never lost, changed or read from unwritten memory; the terminator of printf is inside the block; a failed growth changes nothing and is reported |
| `xio` (`xio/*`) | per stream: type, ownership flag, should-flush flag, target, counters, last char | constructors, read, write, printf, flush, close, dup, ctrl | filters call their target; FILE calls stdio; every command uses it | bytes arrive once, in order, encoded by every filter; nothing is used after it is freed; nothing leaks; nothing stays in a buffer |
| program frame (`main.c`, `xx_run.c`, `cmdp.c`, `global.h`) | `g_state`: in, out, no_eol, repl_mode | main, xx_run, run_command, repl, signal_handler | calls cmdparser, which calls a command's `__process` | every command returns; the global streams survive; a newline is added exactly when the output lacks one |
| stream commands (`cmd/*.c`, `cmd_helper.c`, `cc/cipher.c`, `cc/hash.c`, `cc/rand.c`) | option structs (static), local streams and buffers | one `__process` each | open, wrap and close streams; GmSSL does the cryptography | whole input processed, right output, all streams closed on every path, failure reported |
| hex and base64 codecs (`cc/format/hex.c`, `base64.c`) | none | encode, decode, bounded decode | commands, key and option parsing | decode inverts encode; lines and lengths fit what was allocated |
| REPL line reader and tokenizer (`utils/console.c`) | static string and argv tables | console_readline, commandline_to_args | the REPL, chat; reads the stdin commands read too | arguments as quoted; tables grow safely |
| `xarray` (`data/xarray.c`) | block, count, capacity | add, remove, index and pointer conversion | PEM scanner | indices and pointers agree, growth keeps elements |
| C string / C bytes (`cc/format/cformat.c`) | a buffer, with what the last read left behind | encode, decode over buffered reads | nobody yet: `data` knows the formats' names, but `cmd_wrap_stream` leaves such a stream as it is | what is written reads back, however reads cut the input |
| PEM scanner (`cc/format/decoder.c`), ASN.1 (`cc/asn1.c`) | position, bytes left | scan, recursive parse, print | asn1, verify | what is printed is found; every element is read where it is; the walk ends |
| size parser (`utils/converter.c`) | none | string_to_long | rand, hash, pbkdf2 | value of the text or failure |
| chat (`cmd/sc_chat.c`) | session key, iv; on the terminals: public keys, KEYs, lines | key agreement, encrypt or decrypt a line | readline, GmSSL, people who copy and paste | a line sent is the line received, nothing else is ever shown |
| random tests (`cc/random-check`, `sc_randcheck.c`) | a shared bit sequence | the tests in order | randcheck | each test sees the bits of the file and counts what its name says |
| SM2 (`cc/sm2.c`, `cmd/sc_sm2*.c`) | keys | keygen, sign, verify (enc and dec are stubs) | GmSSL | control flow of key and digest handling |
| log, terminal, portability | log level, stream | print | all | (output only) |

The behaviours that are hard to test: a device that fails between two writes; a flush that seems
unnecessary; closing a stack of which only part is owned; a write of no bytes; the REPL and a
command reading the same stdin; output that is still buffered when Ctrl-C arrives; exact boundaries
of buffers and lines. `PROJECT.json` lists each at its line with the properties that watch it.

`cmdparser` and GmSSL are git submodules that are not part of the tree. They are modelled from how
the code uses them and marked external.

## 2. Modules

| module | stands for | about |
|---|---|---|
| `XBytes` | `data/xbytes.c` | one object and every call on it; allocation may fail in any call |
| `ByteLog` | what xbytes promises | a byte string that only grows at its end; calls take everything or nothing and say which |
| `Induction` | lemmas | induction, recursive functions and `FlattenSeq`, for the proofs of all other modules |
| `Xio` | `xio/*` and the stdio below | operators on a heap of stream objects, FILEs and devices; no variables of its own |
| `XioProofs` | lemmas about `Xio` | chains of filters of any length: what a write, read, flush and close do to a heap |
| `XioStreams` | a client of xio | opens, stacks, writes, reads, flushes, copies and closes in any order a caller may |
| `XioStreamsProofs` | theorems about `XioStreams` | section 6 |
| `HexCodec`, `Base64Codec` | `cc/format/hex.c`, `base64.c` | pure operators; the loops of the hex code are recursive functions of their bodies |
| `Codecs` | the codecs as a whole | strings grow character by character; each state is compared with reference definitions |
| `CodecsProofs` | theorems about `Codecs` | section 6 |
| `Commands` | main, run_command, REPL, the stream commands | composes `Xio`, `HexCodec` and `Base64Codec` |
| `CommandsProofs` | theorems about `Commands` | section 6 |
| `CmdlineArgs` | `commandline_to_args` of `utils/console.c` | lines, one after another, into argv; one action per turn of its loops |
| `CmdlineArgsProofs` | theorems about `CmdlineArgs` | section 6 |
| `XArray` | `data/xarray.c` | one array and every call on it; a growth may fail in any call |
| `ElementList` | what an xarray promises | a list: add at the end or refuse, take one out, hand all to the callback |
| `ContainerProofs` | theorems about `XBytes` and `XArray` | section 6 |
| `CFormats`, `PemScan`, `SizeParse`, `Asn1Parse` | `cc/format/cformat.c`, `decoder.c`, `utils/converter.c`, `cc/asn1.c` | pure operators |
| `Formats` | those, as a whole | extends `Codecs` with their reference definitions and properties |
| `ChatSession` | `cmd/sc_chat.c` | people, each with a process, and what is printed, copied and cut between them |
| `ChatSessionProofs` | theorems about `ChatSession` | section 6 |
| `BitTests` | `cc/random-check/*.c` | what each test counts in a bit sequence; pure operators |
| `RandomCheck` | `sc_randcheck.c`, the battery in `cc/rand.c` | the file, the FILE, the shared bits, the verdict |
| `MC*` | instances for TLC | constants only |

**XBytes.** `mem` is the C struct, `live` whether it exists, `ret` and `room` what the last calls
returned. `Reserve(m, n)` is the set of outcomes of `xbytes_require_size`: there was room, realloc
gave a larger block whose new cells hold `Junk`, or realloc failed and nothing changed. `Store` is
the common shape of write and vprintf. Each C function is one action.

**Xio.** A heap is a record `[obj, file, disk]`. `obj` maps handles to stream objects with the
fields of `struct XIO_st` and of the type behind it; `file` maps FILE pointers to stdio's state (mode,
position, buffer); `disk` is what is behind them. A call that goes through a chain of targets
(`XIO_write` on HEX over PASS over FILE) is one operator: `Forwarded` computes the strings each
layer hands down (HEX two digits per byte, BASE64 one padded text per write), `SourceWrite` what the
source does with them, `FilterRets` what each layer returns and `Charged` what it notes about
itself. A `last_char` that the code reads from in front of a buffer is the value `Unknown`, and
whoever tests it gets either answer. `num_write` is kept as "is it zero", the only question asked.

stdio is external: a FILE keeps bytes until its buffer would overflow; a device, once broken, takes
nothing more, and what was buffered then is lost, which `fflush` and `fclose` do not tell anybody
because no caller looks.

**XioStreams.** `held` are the handles the client may use: giving a stream to a filter that
closes its target gives the handle up. `wanted` is the history variable of delivery: what each
device should have received, by the encodings of the filters at the time of each write. Devices on
which a FILE was dup'ed (two buffers, no order between them) are `exempt` from delivery.

**Commands.** `pc` follows the program: `start`, the loop of the command, `close`, `eol`
(run_command's last step), `newline` and `prompt` (REPL), `end`, `exited` or `killed`. `job` holds the
options and locals of the running command, `due` what each device should hold, `runs` what outlives a command.
The table `Commands`
gives for every command its inputs (`--string`, `--in FILE`, a missing file, stdin), outputs (stdout,
`--out FILE`, one that cannot be opened, `--noout`) and the loop it runs:

- `drain` (hex, data): `XIO_drain`, one byte at a time, not looking at what the write returned;
- `readall` (hex -d, base64): `XIO_read_all`, one conversion, one write;
- `update`, `finish` (hash, sm4, sm2 sign, sm2 verify): read a block, update, write; finish at the end of input;
- `emit` (rand, gen, pbkdf2, keygen, pwd): write piece after piece, gen flushing after each, the
  random source failing at any of them;
- `close` (base64 -d): opens its streams and closes them, as the code does today.

`Start` chooses what the user gives; `Begin` is what `__process` does up to its loop: open and wrap the
streams, look at the arguments, set up the locals (`NewJob`). `broke` notes that an argument, a key, the random
source or GmSSL made the command give up. `sm2 keygen` leaves its FILE open; when a later command opens the same
file anew, `runs.aside` keeps where the old FILE will write, at exit, over what is there by then (`AtExit`, one heap for each
order the library may take its FILEs in).

What the output should be is defined apart from the steps: `Given` reads off stdin what follows the line a command
was given in, or takes the text or the file; `Ideal` is what the command should make of the whole of it, `Body` that in
the output's format. `Settled` demands, when the command is over, `Body`, or, if it broke off, the pieces
written before, or nothing; a decryption that finds its last block wrong has given the blocks in front of it. A failing
command's output is thus demanded as exactly as another's. `Succeeds` says the same of what it reports.

Each turn of a loop is a step, so that `signal_handler` and `DeviceFails` may come between any two.
GmSSL is a stand-in that keeps what matters here: encryption returns whole blocks and keeps the
rest, decryption keeps the last block for finish, finish returns the padded block or what is left
without padding - possibly nothing - or fails. Hash, sign and verify gather their input; a signature is
as good as a digest here: other messages have another one. What `sign` prints depends on its output
form, what `verify` returns on `--fail-code`. Making a signature may fail, and a signature may be none
(`Unreadable`); both show only after the whole input was read.

**Codecs.** The reference definitions do not share code with the codec: `Pairs` reads two digits
per byte, `Base64Meaning` goes through the bits of the letters, `LineLengths` through the newlines.

The hex dump is checked column by column. **Formats** does the same for the other formats: a size is
digits and a suffix (`SizesOf`), a BER element is a tag, a length and as many bytes (`IsElement`), a
PEM block is what `XIO_write_pem` prints. The operators of `CFormats` see the input as it is read,
full buffers and a rest, and `Behind` says which byte the decoder finds behind a read's last one: what
an earlier read left there, or nobody's. `Asn1Parse` keeps `NEXT_BYTE` as it is, position and count apart,
and the recursion of `parse_cb_r`, with the place each child is parsed from.

Where the code does not do what the format means, the property says what it does instead, and that
it does so exactly there, so a change of the code in either direction shows:

- `CStringMeant`: a text comes back, unless a read ends between an escape and its letter, and if one does, a byte that
  is nobody's gets into it.
- `CBytesMeant`: of n bytes in one read the first (6n + 4) div 7 come back; in smaller reads, if none cuts a token, those the
  decoder's count reaches; the whole comes back if and only if no token is cut or left out, but for one case
  (`Recalled`), in which the last token's last digit, alone in its read, brings back the first byte. Of data that is
  encoded in several reads the comma between two of them is missing.
- `SizeMeant`: a number above the largest `long` is the largest, and then the product wraps, exactly.
- `PemMeant`: `cc_pem_find` finds nothing, though the scanner passes over each block.
- `Asn1Meant`: a sequence lists its first element as often as it takes for the lengths to add up, and the others never, be
  they like the first or not (`Listing`).

**XArray.** `arr` is the C struct; a cell of the block holds an element, `Zero` where calloc or removal
cleared it, or `Garbage` where realloc handed out memory. Pointers are distances from the block's start
in bytes. `xarray_add_new_item` hands out a slot (`filling`) with whatever is in it, and the client fills it
before it does anything else. `freed` is the history of what the callback was given.

**ChatSession.** `proc` holds each user's process: where it is, its session and the locals of the loop
over a line. `posted` is what was printed and can be copied by anybody; `noted` the KEYs a user has on
his terminal and can restore from. People paste lines in any order, again, and without their last digits
(`Cuts`); they mistype a KEY (`Mistyped`), of which the code then silently uses, of the half with the wrong digit, what came before
it. A KEY's halves are the key and the iv, each known byte by byte, since the cipher is CBC: with another key all
is garbage, with another iv only those bytes of the first block where the two differ (`Seen`). A point on the curve is the set of secrets it was made with; the bytes of a line are numbered, 0 standing
for a byte it never had, so that what a decryption shows can be told apart. `Stop` is Ctrl-C and the end of
stdin, after which `Restore` starts again: this is the crash and the recovery of the program.

**RandomCheck** and **BitTests.** `BitTests` has one operator per test with what it counts: sums, blocks,
patterns, runs, ranks, registers, walks. The statistic made of the counts is floating point and left
open: whether a test passes is either answer, except where the code gives up before it counts. `RandomCheck`
is the command: the file is written bit by bit, opened, read and tested. `CHECK` runs the next test, which sees what the ones
before it left of the bits. The battery is run on files of one byte; an empty file, for which
what `malloc(0)` returns decides whether the tests run at all (`sc_randcheck.c:45`), is left out. The two excursion tests are in the sources but not in the battery; `WalkMeant` checks them by themselves,
and its n div 2 + 2 places for the cycles are what a walk needs, while the code has max(1000, n / 100).

**CmdlineArgs.** `strings` and `argTable` are the function's static buffer and table: they only grow,
hold what the last call left there (`Junk` where nobody wrote), and each growth may fail, as in the
code. `pc` says where the call is: blanks in front (`lead`), the test of the outer loop (`next`), the
inner loop (`char`, one action for each kind of character), behind an argument (`close`, `trail`,
`add`). `cp`, `cpOut`, `argument` and `quote` are its locals, `error` is which message it logged. Actions
of one call are steps because the properties are about the buffer in the middle of the rewriting, not
because anything could come between them.

## 3. Runs

| run | states | bounds | shows |
|---|---|---|---|
| `xbytes` | 36 k | chunks of up to two bytes over a text byte and NUL, 4 bytes, slack 1; 4 elements of two bytes | `TypeOK`, `RoomForTerminator`, `ContentInitialised`, `ArrayTypeOK`, `OwnedOnce`, `VisitsAll`; implements `ByteLog` (`AppendOnly`) and `ElementList` (`IsList`) |
| `streams` | 110 k | 3 handles, 2 FILEs, 2 devices, 2 bytes | `NoDangling`, `NoLeak`, `FileOwnership`, `NothingLeftBehind` |
| `delivery` | 75 k | 2 handles, 4 bytes, empty and two-byte writes, one device may fail | `TypeOK`, `Delivered`, `DeliveredAtClose` |
| `commands` | 149 k | 15 commands, 5 inputs, 4 kinds of input, 4 of output, each in binary and hex, 1 command | `GlobalStreams`, `Released`, `OutputRight`, `OutputPrefix`, `Returns` |
| `repl` | 7 k | 4 commands, 2 in a row, on a stdin of several lines | `OutputRight` across commands |
| `codecs` | 92 k | hex: 8 characters, length 4; base64: 3 bytes, length 7; C: 4 and 5; sizes: 8 and 4; PEM: 5 and 6; BER: 6 and 6; 6 line lengths | `HexMeant`, `LinesFit`, `Base64Meant`, `CFormatsMeant`, `SizeMeant`, `PemMeant`, `Asn1Meant` |
| `cmdline` | 147 k | 6 characters, 22 lines of up to three arguments, any number of lines in a row | `TypeOK`, `InPlace`, `ArgvTerminated`, `ArgsAsQuoted` |
| `chat` | 137 k | 2 users, 3 processes, 1 line printed, blocks of 2 bytes, pieces of 4; texts, a plain line of hex digits, lines copied whole or without the last block; a KEY with either half wrong from any byte on | `Understood`, `Legible`, `NothingForeign`, `Answered` |
| `random_tests` | 10 k | all sequences of up to 9 bits; files of 8 bits, pointers of 4 | `CountsMeant`, `LinearMeant`, `WalkMeant`, `BatteryRuns` |
| `one_eol`, `sm4_hex`, `hex_invalid` | | | statements of the repository that the code does not keep (section 7) |

*Why the bounds are enough.* The buffer code compares sums of three numbers; with slack 1 and
capacities from 0 on, every growth happens at every fill, with and without failure, and the proofs
remove the bounds. Stream chains are handled layer by layer, each looking at its target only: three
handles give a filter on a filter on a source, and two chains sharing a source. A FILE buffer of two
or three bytes overflows within one HEX-encoded byte and is left half full by others. Inputs for the
commands cross the read buffer (3 bytes) and the cipher block (2 bytes) at different places. The hex
decoder is an automaton with one bit of memory, so four characters reach every pair of steps; two
full groups, a tail and a line break are all that base64 has. The tokenizer's lines are made of pieces
written in every style it knows (plain, escaped, in either quote, empty quotes, glued), with
blanks around them, or left unfinished; since buffer and table outlive a call, longer and shorter
lines follow each other, and either growth may fail.

A size of four characters has a prefix, a digit and a suffix, or three digits, and with a `long` of 8
bits each of them reaches the largest value and wraps; six bytes of BER hold a sequence of two elements,
or a header with a tag and a length of more than a byte; six characters of PEM hold a marker with a label and
another marker's start. Four elements of two bytes make an array grow twice and shrink between. In a
chat, lines of five and eight bytes are a piece and a byte, and two whole pieces; three processes are one each
and a restored one; the proofs remove these bounds, and cover the empty line and longer cuts, which the run leaves out. Nine bits are a 3 by 3 matrix, a byte and a bit, and
four blocks of two; every count is compared at every length up to there.

A command opens at most two streams of two objects each and two FILEs, and `sm2 keygen` leaves its one
behind: with `MaxRuns` + 5 handles and `MaxRuns` + 4 FILEs an allocation and an `fopen` of a file that is there always
find room. `RoomAssumption` says so; a pool that is too small would be a failure the code does not have.

*What is bounded:* the constants marked `bound:` in the modules (`Handle`, `MaxBytes`, `MaxLen`, `MaxRoom`,
`MaxRuns`, `MaxLines`, `MaxAhead`, the `max` of a trial). Handles are symmetric in the stream runs, which check no liveness;
elsewhere no symmetry is used.

*Deadlock* is checked in `xbytes`, `streams`, `delivery` and `cmdline`. It is off in `Commands` and `RandomCheck`,
whose programs end, in `Codecs`, whose strings stop growing at their bound, and in `ChatSession`, where no
process may be left to start.

*The properties.* Each has a mutant in `PROJECT.json`: a definition is replaced by its `...Bug`
form - a plausible mistake such as a growth without the extra byte, a close that forgets the
target, a newline test that is never true - and TLC must then find the property violated.

## 4. Fairness

`Commands` has `Returns`: a command that started comes back to the prompt, or the program ends. The
assumption is weak fairness of `Step`, the steps the program takes by itself: once a command runs, nothing but
the processor's attention is needed. There is no fairness on commands being given, on Ctrl-C or on
device failure. It is written with `pc \notin Working`, which is when `Step` is disabled. `gen` without
`--repeat` is meant to run for ever and is left out (`Items \ {0}` for it). Terminals and pipes that
never deliver their next byte are left out as well: inputs are finite. At the end of stdin the REPL
prompts again for ever (`xx_run.c:17-22`); `Returns` counts the prompt as a return, so this is described
by the model and not judged by it.

`ChatSession` has `Answered`: a line given to a process is answered, or the process is stopped. The
assumption is `WF_vars(Step(u))` for each user, the loop over the line's pieces. Nobody has to type, paste
or press Ctrl-C.

## 5. What is only model-checked

- `OutputRight` and `OutputPrefix` of `Commands`: which bytes a command's output is. What is proved of `Commands` is about
  streams and FILEs; the bytes would need, for each loop, how far the input is read and the output written.
- The four properties of `Formats` (`CFormatsMeant`, `SizeMeant`, `PemMeant`, `Asn1Meant`): each compares a fold over a string with a definition that reads the same
  string another way.
- `CountsMeant`, `LinearMeant`, `WalkMeant` and `BatteryRuns` of `RandomCheck`.
- Liveness (`Returns`, `Answered`) and everything about `ENABLED`: out of the provers' reach.

`Factors`, `Asn1Parse` and the BER reference are RECURSIVE operators, which are kept to modules nothing is proved
about. That rules out theorems in `Formats` and `RandomCheck` as they are.

## 6. What is proved

Arithmetic is that of unbounded integers throughout: what is proved holds as long as lengths and offsets
stay below what a `size_t` holds.

**Induction.** The library states induction for an operator `P(_)`, which none of the provers can be given an
instance of. `Induction` goes around that: `LeastMember` (a set of naturals that is not empty has a least
member, from the well-foundedness of `<`), `SetInduction` (a set that holds 0 and with n also n + 1 holds
all of `Nat`), both over sets instead of operators; `Recursion`, that a function with `f[n]` given by `f[n - 1]`
exists and is what its definition says; `FlattenSteps`, that `FlattenSeq` of a sequence is that of all but its last,
and the last. The stream chains, the array's loops and the tokenizer's lines are inductions by these.

**Streams.** `XioStreamsProofs` proves all seven invariants of the `streams` and `delivery` runs: `TypeCorrect`,
`NoDanglingAlways`, `NoLeakAlways`, `FileOwnershipAlways`, `NothingLeftBehindAlways`, `DeliveredAlways` and
`DeliveredAtCloseAlways`, for every set of handles, FILEs, devices and bytes, every buffer size, and chains of filters of any
length. None of them is inductive by itself, but for the types.
That no stream writes to a freed one (`NoDangling`) needs that nobody frees a stream twice or one that another still
uses: the inductive invariant adds that no two streams are stacked on one and that the client holds none that a
closing filter has taken (`Stacks`), that a FILE belongs to one object and that only stdout's is not owned (`Owners`),
and that targets end (`Chained` in `Sound`: a function gives every handle its chain, so there is no circle). These, with
`NoLeak` and `FileOwnership`, are `Shape`, which writes and reads keep whatever the bytes. `Content` is about the
bytes: `Delivered` and `NothingLeftBehind`, that only an exempt device has two open FILEs (`OneFile`), and that one
with no open FILE has what was written (`Idle`), which is what makes `DeliveredAtClose` follow. The flush that looks
unnecessary in `XIO_close` keeps `NothingLeftBehind`. `XioProofs` has the lemmas on chains: `Chain` is a recursive
function over handles, `ChainSteps` and `ChainLinks` say that it goes from target to target down to a source, `ChainIn`
that it stays within the live streams. On them rest one lemma per call (write, read, flush, close) and one
per action. The attempt to prove them showed two `CASE` expressions in `XIO_close` and `XIO_read` whose guards overlapped
for a stream that is NULL; they were made disjoint.

**Commands.** `CommandsProofs` proves `GlobalStreamsAlways` and `ReleasedAlways`: whichever commands are run, in
whichever order, formats and inputs, and wherever one gives up, the program's own streams survive, and a
command that is over has closed what it opened, but for `sm2 keygen`. The inductive invariant `IInv` is free of
bytes. `Base` says of the heap that targets are alive, that the global streams are alive and close
nobody, that a FILE stream of a command owns its FILE, and that no other FILE is open. `Mine(h)` says of a
stream of the command that it and what it closes (`Parts`) were made by the command and that no other live
stream is stacked on them; `StreamsOK`, that the input's parts and the output's are apart and that,
with what was lost, they are all there is. This counting is what gives `Released`, and by
`RoomAssumption` what gives the next command its room. Reading, writing and flushing keep all of it because they keep a heap's shape
(`SameShape`: which objects there are, what they are stacked on, which FILEs are open), whatever bytes go
through; so one lemma per loop suffices. `IInv` was checked by TLC on the instances of the runs before it was proved.

**Buffer.** `ContainerProofs` proves, for all values of `Byte`, `Chunk`, `Slack`, `MaxLen` and `MaxRoom` under the
assumptions named in `XBytes`:

- `TypeCorrect`, `TerminatorFits`, `ContentWritten`: the three invariants of the `xbytes` run;
- `Refinement`: `Spec => AppendOnly`, that is, XBytes implements ByteLog.

The invariants are not inductive each by itself: that the content holds no junk after a growth
needs that the block is as long as `capacity` says and that the content ends before it, and both
need each other. The inductive invariant is `Inv`, whose core `GoodBuffer(m)` says all of that of one
buffer. The lemmas go up the call graph of the C file: `FreshGood` (new), `ReserveGood` (require_size
keeps a good buffer good, its content the same, and reports the room there is), `StoreGood` (write
and vprintf), then one case per action in `Invariance`. `LiveType` adds that `live` is Boolean, kept
apart because it needs another prover. For the refinement, `StoreContent` says that the content
after a store is the old content followed by the bytes, or the old content and return value 0;
`Refinement` maps every action to a step of the log or to a stutter (`RequireSize`). The
assumption that matters is `Slack \in Nat`: the arithmetic is that of unbounded integers, so
what is proved holds as long as lengths stay below 2^64.

**Tokenizer.** `CmdlineArgsProofs` proves, for every alphabet and every set of lines without `'\0'` in them:
`TypeCorrect`, `StaysInPlace`, `ArgvEnds` and `QuotingRight`, the invariants of the `cmdline` run. That an argv
ends inside the table when it is returned says nothing about the table while it is built, so the
inductive invariant `Inv` adds `TableFits`: in a call, the used cells and one more are within the
table, and every pointer in a used cell, with the one about to be stored, is within the line. Most actions move
the two offsets and write at most one character; `LookInv`, `PatchInv` and `FailInv` say once when that
(or giving up) keeps `Inv`, `BeforeEnd` that a character other than `'\0'` lies before the line's end,
and each action's lemma shows it is of such a kind. `Call` (the copy), `AddArgument` (the growth of the
table) and `Return` have arguments of their own. `QuotingRight` says that the arguments are what the user quoted. A
line comes with what it means, `MeaningAssumption`: the meaning is what `Reading`, a recursive function over the
characters, makes of the text, which TLC evaluates for the instance's lines, whose meaning is written down
independently of it. The proof is a simulation: `Follows` relates the call in the middle of its line, with its
buffer partly rewritten, to the state of `Reading` after as many characters, and each action keeps it
because what is not yet read is not yet overwritten - `StaysInPlace` again.

**Array.** `ContainerProofs` also proves `ArrayTypes`, `ArrayIsList`, `ArrayOwnsOnce` and `LoopsVisitAll`, for every set of elements, every
element size above 0 and every `Extra` in `Nat`. The inductive invariant is `TypeInv`, whose core `GoodArray(a)`
says that the block is as long as the capacity and the count within it, together with `MadeInv`, that
before `xarray_new` there is nothing. `RoomForGood`, `AppendedGood`, `ShiftedGood` and `IndexInside` say what growth, add, removal and
pointer arithmetic do to a good array. For the refinement, `Firsts(b, n)` is what the first n cells of
a block show; `FirstsSame`, `FirstsAppend` and `FirstsRemoved` say how it changes when the block does, and
`Simulates` maps every call to a step of `ElementList` or a stutter. It is needed that a growth that
failed has changed nothing and that a removed element, which stays in the last cell, is not shown. `ArrayOwnsOnce` then
is a property of the list: `Own(l, f)` says that two sequences hold each element once, and
`OwnTake`, `OwnTakeOut` and `OwnClear` that the steps keep it. `LoopsVisitAll` is about `xarray_foreach` and
`xarray_foreach_reverse`: starting at either end, the pointers meet every element in its order and then end, also where the
loop's body has moved the pointer within the element. The walks are recursive functions, and the proof an induction over
the turns of the loop.

**Codecs.** `CodecsProofs` proves all three invariants of `Codecs`, for every string of bytes, every set of line lengths and
every width of a dump above 0 (`LineAssumption`). The strings are data of any length, so the argument is induction over
the turns of the codecs' loops, not over steps:

- `CodecsFit`: `LinesFit`. `Within` says of a text so far which lines it has and how long its open line is; each turn adds a
  piece (`HexPiece`, `Base64Piece`), and `HexFar` and `Base64Far` say where its loop is after i of them. That
  the newlines counted before the first character was written are as many as are written is `RowsGrow`.
- `HexMeaning`: `HexMeant`. `Whole(s, out)` says that the decoder, having read s, has given `out` and holds no half byte;
  every piece of the encoder, every newline and every cell of the dump takes it from one such state to the next. For
  text nobody encoded, `Sees` relates the decoder's state to the digits so far (`HexIgnores`). For the dump, `Goes` does for the
  reference reader of lines what `Whole` does for the decoder, `DumpAt` says what both have after k lines, and the
  columns are where `HexColumn` and `TextColumn` look for them (`CellsWide`).
- `Base64Meaningful`: `Base64Meant`. `Kept(s, C, F, m)` says that s without the characters C is the first m of F. With the
  characters of all groups for F it holds of the text without newlines, and of the text without newlines and
  `=`, after every group, the padded one included (`KeptMore`, `PadLast`). So the reference reads exactly the letters that were
  written; `EightBits`, `SextetsOf` and `BitsOfSix` say that the 24 bits of a group's letters are those of its bytes, and `ByteGrouped`
  that bit k of byte p is where the reference looks for it.

**Chat.** `ChatSessionProofs` proves `LinesAreUnderstood`, `NothingElseIsShown` and `PrintedIsLegible`, for any number
of users, processes, lines and lost digits, and every block size that divides the chunk size.
`NothingElseIsShown` is about lines that lost their end or are read in another session: the bytes that appear are the
line's, each in its place, once or twice, or garbage; with the line's key and a wrong iv, garbage in the
first block only (`SeenInPlace`). The three say nothing of a line while it is encrypted, nor of why two sessions have one key. The
inductive invariant `Inv` adds: `Known`, that whatever a session is known by (both key pairs, the PSK, the KEY) determines its key
and iv, which is `SessionOf`; `ProgressOK`, that so far whole blocks were printed and less than one is
held, and none at the end of a whole chunk; `PostedOK` and `CopiedOK`, how many digits a line of n bytes has, at least or at
most. `PieceProgress` is the arithmetic of one turn of the loop, `Deciphered` that of a decryption. The
assumption that matters is that `Chunk % Block = 0` (1024 and 16 in the code). SM4 and SM2 are taken to
be right: that is what the model of them says.

## 7. Where the code and its texts disagree

Three runs show it, each with the state it leads to:

- `one_eol`: a write of no bytes sets `last_char` from the byte in front of the buffer, and the
  newline at the end of the output becomes a matter of luck. It happens whenever sm4 decryption ends
  with a block that is all padding. TLC shows the second newline; that one is missing where the guess goes the other way
  is the same choice.
- `sm4_hex`: the help of sm4 offers hex as an input format, and `--decrypt` uses it by default, but
  the HEX stream cannot be read.
- `hex_invalid`: the decoder's "invalid hex char" branch cannot be reached.

Described by properties of passing runs, which say exactly where it happens:

- The C bytes decoder counts five characters for a token of four (`cformat.c:164-190`), so that of n tokens
  in one read only the first (6n + 4) div 7 come back; an escape or a token that a read cuts is completed with what is behind
  the buffer's content; the encoder puts no comma between the tokens of two reads (`CFormatsMeant`).
- `cc_pem_find` loops until there is no next position and then reports that (`decoder.c:100-104`): it never
  finds anything, and with it `asn1` decodes PEM text as hex (`PemMeant`).
- Every child of a constructed element is parsed from the place the first one is at (`asn1.c:121`, `Asn1Meant`), so
  unlike children are never listed.
- A suffix is multiplied in without an overflow test (`converter.c:45`, `SizeMeant`).
- A chat line whose last piece is shorter than a block is printed with "(null)" in front of its last
  block (`sc_chat.c:112`), and is not taken for ciphertext again (`Legible`); `--restore` with a KEY that holds a wrong digit
  starts a session with part of the key or of the iv zero (`sc_chat.c:254-255`): with a wrong key it shows garbage, with a
  wrong iv all but the first block of each line (`NothingForeign`). The failure of a decryption's last block is not
  looked at, and what update left is shown twice.
- `sm2 keygen` never closes its stream (`Released` counts what is left). After `sm2 keygen --out F` at the prompt, the output of
  another command with `--out F` is overwritten at exit by the keys that were still buffered (`sc_sm2_keygen.c:79`): `OutputPrefix` leaves
  out this case only.
- hash and data with `--inform hex` read nothing and report success over it, like a file that is not
  there for hex, data and sm4 (`OutputRight`).
- A plain chat line of 32 hex digits is taken for ciphertext and garbage is printed for it (`sc_chat.c:84`).
- `BinaryDerivate` is given the size of a pointer for the number of bits (`rand.c:125-126`), works in place, and the
  tests after it see the changed bits (`BatteryRuns`). `RunsDistribution` never counts the last run,
  `SelfCorrelation` not the last pair (`CountsMeant`); Berlekamp-Massey writes one place behind its array when a
  block's only 1 is its last bit (`linearComplexity.c:79`, `LinearMeant`).

Noted while reading, without a run: `global.h:35` describes `no_eol` the wrong way round;
`xbytes.c:50` counts a byte for a terminator that `xbytes_write` never writes (only vprintf
does); `hex.h` calls the largest line length "auto", which `cc_hex_encode` refuses as
odd; `test/tc_hex.c` runs `hex 123` and expects success where `sc_hex.c:33` refuses arguments; gen's
`XIO_flush` of a PASS stream reaches no device, so lines of `gen` piped elsewhere come in blocks;
`sm2 verify`'s help asks for a public key
(`sc_sm2_verify.c:29`), but `cc_sm2_try_load_public_key` takes 32 bytes and sets a private one
(`sm2.c:196-211`); sign and verify take the length of `--key` before they look whether it was given
(`sc_sm2_sign.c:55`, `sc_sm2_verify.c:59`); `chat` does so with the NULL it gets at the end of stdin
(`sc_chat.c:82-83`, `Stop` of the model); `drfti1` has room for 13 factors (`dfft.c:86`), enough below 8 * 3^12 bits; the
excursions test, which the battery does not call, writes its last cycle whether or not there is a place for
it (`randomExcursions.c:55`).

## 8. Not modelled, and why

- cmdparser's option parsing and GmSSL: not in the tree; only their effect is modelled.
- Log lines, colours, help texts: output to stderr that nothing depends on. Of ASN.1's printed values,
  bytes and line breaks are kept, wording and columns are not.
- P-values: `erfc`, `igamc`, `genutils.c`, `cephes.c` and the butterflies of `dfft.c` are floating point, which TLC
  does not have. The FFT's tables of factors are modelled, its sums are not.
- Elliptic curve arithmetic; `sm2 enc`, `sm2 dec` and `base64 -d` are stubs in the code.
- The SDF device of `cc/rand.c`: it is behind dlopen, and nothing else in the program reads its state.
- Allocation failure in `Xio` and `Commands`: the constructors return NULL and most callers do not
  look; it is modelled where the code handles it, in `XBytes` and `XArray`.
- Seek, tell and event callbacks of streams, dup of filters: no command uses them.
- `--in` and `--out` naming one file: the file is truncated first and no text says what should happen.
- `CONV_SIZE`'s flags in other combinations than the callers use.

## 9. What could come next

1. `XIO_read_all` with an xbytes that refuses: one chunk missing in the middle of an input (`xio.c:57`).
2. The static option structs, which keep their values from one REPL command to the next.
3. `OutputPrefix`, with the invariant that an output is what the conversion makes of the input read so far; the order
   of the battery (`BatteryRuns`), once `Factors` is a recursive function.
