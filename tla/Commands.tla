------------------------------ MODULE Commands ------------------------------
(***************************************************************************)
(* The life of the program around its commands: main, xx_run, run_command, *)
(* the REPL, and the commands that move bytes from an input stream to an   *)
(* output stream (hex, base64, data, hash, sm4, rand, gen, pbkdf2, pwd,    *)
(* sm2 keygen, sign and verify).  A command opens its streams, wraps them, *)
(* runs step by step and closes them; run_command adds the end of line.    *)
(* Between any two steps the device may fail or the user may press Ctrl-C. *)
(***************************************************************************)
EXTENDS Xio

CONSTANTS
  In, Out,    \* the objects on stdin and stdout: g_state.in, g_state.out
  Stdin, Stdout,            \* the two FILE*s of the process
  Kbd, Tty, InDisk, OutDisk, \* what is behind them, --in FILE and --out FILE
  Cmd,        \* the commands users give
  Input,      \* the bytes users process
  InForm,     \* --inform values: BIN, HEX
  OutForm,    \* --outform values
  ArgCount,   \* numbers of positional arguments
  InBuf,      \* sizeof(inbuf), STACK_BUFFER_SIZE
  Items,      \* rounds of a command that writes in a loop
  Repl, NoEol, \* values of the global options --repl and --no-eol
  Fallible,   \* the disks that may fail
  MaxRuns     \* bound: commands given at the REPL's prompt

LF      == 10
Drainer == {"hex", "data"}
ReadAll == {"unhex", "base64"}
Cipher  == {"encrypt", "decrypt"}
Gatherer == {"hash", "sign", "verify"}   \* write nothing before the end
Updater == Gatherer \cup Cipher
Emitter == {"rand", "gen", "pbkdf2", "keygen", "pwd"}
Unread  == {"unbase64"}     \* base64 --decode opens its streams and closes them

ASSUME CommandAssumption ==
  /\ {In, Out} \subseteq Handle /\ In # Out
  /\ {Stdin, Stdout} \subseteq Fp /\ {Kbd, Tty, InDisk, OutDisk} \subseteq Disk
  /\ Cmd \subseteq Drainer \cup ReadAll \cup Updater \cup Emitter \cup Unread
  /\ Stdin # Stdout
  /\ InBuf \in Nat \ {0} /\ Repl \subseteq BOOLEAN /\ NoEol \subseteq BOOLEAN

(* Room for In and Out, for what each command may leave behind, and for the   *)
(* streams of one command: allocations and fopen of a file that is there work. *)
ASSUME RoomAssumption ==
  /\ MaxRuns \in Nat \ {0} /\ IsFiniteSet(Handle) /\ IsFiniteSet(Fp)
  /\ Cardinality(Handle) >= MaxRuns + 5 /\ Cardinality(Fp) >= MaxRuns + 4

VARIABLES
  heap,     \* streams, FILEs, disks
  flags,    \* g_state.no_eol, g_state.repl_mode
  pc,       \* where the program is
  job,      \* the command that runs: its options, streams and locals
  due,      \* what each disk should hold by now
  runs      \* commands started; streams nobody can close any more; and FILEs
            \* left open whose file was opened anew, with where they write on

vars == <<heap, flags, pc, job, due, runs>>

-----------------------------------------------------------------------------
(* GmSSL, from how the code uses it.  Blocks of two bytes and a byte-wise     *)
(* cipher stand for SM4-CBC; what matters is which bytes update and finish    *)
(* give back and when, and PKCS#7 padding.                                    *)
Block     == 2
Sealed(s) == [i \in DOMAIN s |-> (s[i] + 128) % 256]
PadLen(n) == Block - (n % Block)
Padded(s) == s \o [i \in 1 .. PadLen(Len(s)) |-> PadLen(Len(s))]
Seal(s)   == Sealed(Padded(s))

IsSealed(s) ==
  /\ s # <<>> /\ Len(s) % Block = 0
  /\ LET p == Last(Sealed(s)) IN p \in 1 .. Block /\ \A i \in 0 .. p - 1 : Sealed(s)[Len(s) - i] = p
Unseal(s) == LET p == Sealed(s) IN SubSeq(p, 1, Len(p) - Last(p))

(* Encryption gives back every whole block; decryption keeps the last one   *)
(* for finish, which must find a whole block with a padding.                *)
UpdateOut(cmd, held, s) ==
  LET all  == held \o s
      give == CASE cmd \in Gatherer -> 0
                [] cmd = "encrypt" -> Block * (Len(all) \div Block)
                [] cmd = "decrypt" -> IF all = <<>> THEN 0
                                      ELSE ((Len(all) - 1) \div Block) * Block
  IN  [out |-> Sealed(SubSeq(all, 1, give)), held |-> SubSeq(all, give + 1, Len(all))]

Digest(s) == <<200 + Len(s), FoldLeft(+, 0, s) % 256>>

(* The digest stands for the signature of a message, too: other messages have *)
(* another one.                                                               *)
Signature(s) == Digest(s)
Unreadable == <<>>                          \* a --sig that is no signature
Verified   == <<83>>
Verdict(s, sig) == IF Signature(s) = sig THEN Verified ELSE <<70>>

FinishOut(cmd, held, sig) ==
  CASE cmd = "hash"    -> {Digest(held)}
    [] cmd = "sign"    -> {Signature(held)}
    [] cmd = "verify"  -> IF sig = Unreadable THEN {} ELSE {Verdict(held, sig)}
    [] cmd = "encrypt" -> {Seal(held)}
    [] cmd = "decrypt" -> IF IsSealed(held) /\ Len(held) = Block THEN {Unseal(held)} ELSE {}

-----------------------------------------------------------------------------
(* Conversions of a whole input. *)
Decode(s) == HexC!cc_hex_decode(s, TRUE)
AsHex(s)  == FlattenSeq([i \in DOMAIN s |-> Hex(s[i])])

ConvertOut(cmd, s) ==
  LET r == IF cmd = "unhex" THEN Decode(s) ELSE Base64(s)
  IN  IF r = HexC!Failed THEN {} ELSE {r}

(* What a command should make of the bytes it reads.  Nothing if they cannot  *)
(* be converted; and a decryption gives every block before the last until it  *)
(* finds this one wrong.                                                      *)
Ideal(cmd, s, sig) ==
  CASE cmd = "data"    -> s
    [] cmd = "hex"     -> AsHex(s)
    [] cmd \in ReadAll -> FlattenSeq(SetToSeq(ConvertOut(cmd, s)))
    [] cmd = "hash"    -> Digest(s)
    [] cmd = "sign"    -> Signature(s)
    [] cmd = "verify"  -> IF sig = Unreadable THEN <<>> ELSE Verdict(s, sig)
    [] cmd = "encrypt" -> Seal(s)
    [] cmd = "decrypt" -> IF IsSealed(s) THEN Unseal(s)
                          ELSE Sealed(SubSeq(s, 1, Block * ((Len(s) - 1) \div Block)))
    [] cmd \in Unread  -> <<>>

-----------------------------------------------------------------------------
NoJob == [cmd |-> "none", in |-> "none", out |-> "none", inform |-> "BIN", outform |-> "BIN",
          i |-> NULL, o |-> NULL, acc |-> <<>>, todo |-> <<>>,
          broke |-> FALSE, ret |-> "FAIL"]

Init ==
  \E s \in Input :
    /\ heap = LET empty == [obj  |-> [h \in Handle |-> Unused],
                            file |-> [f \in Fp |->
                              CASE f = Stdin  -> [Closed EXCEPT !.open = TRUE, !.disk = Kbd]
                                [] f = Stdout -> [Closed EXCEPT !.open = TRUE, !.disk = Tty,
                                                                !.mode = "wb"]
                                [] OTHER      -> Closed],
                            disk |-> [d \in Disk |->
                              [data |-> IF d \in {Kbd, InDisk} THEN s ELSE <<>>, broken |-> FALSE]]]
              IN  XIO_new_fp(XIO_new_fp(empty, In, Stdin, FALSE), Out, Stdout, FALSE)
    /\ flags \in [no_eol : NoEol, repl : Repl]
    /\ pc = "start" /\ job = NoJob
    /\ due = [d \in Disk |-> <<>>]
    /\ runs = [n |-> 0, lost |-> 0, aside |-> {}]

Fresh(hp)   == CHOOSE h \in FreeObj(hp) : TRUE
FreshFp(hp) == CHOOSE f \in FreeFp(hp) : TRUE

(* A stream under construction: the heap so far, and its handle. *)
Stream(hp, h) == [hp |-> hp, h |-> h]

cmd_get_instream(hp, kind) ==
  LET h == Fresh(hp)
  IN  CASE kind = "text"    -> Stream(XIO_new_memory(hp, h, hp.disk[InDisk].data), h)
        [] kind = "file"    -> Stream(XIO_new_file(hp, h, FreshFp(hp), InDisk, "rb"), h)
        [] kind = "missing" -> Stream(hp, NULL)
        [] kind = "stdin"   -> Stream(XIO_newf_pass(hp, h, In, FALSE), h)
        [] kind = "none"    -> Stream(hp, NULL)

cmd_get_outstream(hp, kind) ==
  LET h == Fresh(hp)
  IN  CASE kind = "file"                -> Stream(XIO_new_file(hp, h, FreshFp(hp), OutDisk, "wb"), h)
        [] kind = "unwritable"          -> Stream(hp, NULL)
        [] kind \in {"stdout", "noout"} -> Stream(XIO_newf_pass(hp, h, Out, FALSE), h)

cmd_wrap_stream(st, form) ==
  LET h == Fresh(st.hp)
  IN  IF form = "HEX" THEN Stream(XIO_newf_hex(st.hp, h, st.h), h) ELSE st

(* Definitions named ...Bug are mistakes this code could easily have had; each *)
(* stands before the definition it would spoil.                               *)
MutedLeakBug(st) ==       \* forgets the stream it replaces
  LET h == Fresh(st.hp) IN Stream(XIO_new_null(st.hp, h), h)
MutedBug(st) == st        \* --noout is not looked at

(* rand --noout exchanges the stream it has for a NULL one. *)
Muted(st) == LET hp == XIO_close(st.hp, st.h)
                 h  == Fresh(hp)
             IN  Stream(XIO_new_null(hp, h), h)

(* What the commands read from and write to, in which formats, where they go *)
(* with their streams open, and the pieces the writing ones write: lines, hex *)
(* digits or random bytes.                                                    *)
AnyIn   == {"text", "file", "missing", "stdin"}
ToFile  == {"stdout", "file", "unwritable"}
Line    == <<66, LF>>
Command(ins, outs, entry) ==
  [ins |-> ins, outs |-> outs, entry |-> entry, informs |-> {"BIN"}, outforms |-> {"BIN"},
   items |-> {}]
Writer(outs, items) == [Command({"none"}, outs, {"emit"}) EXCEPT !.items = items]

sc_hex      == [Command(AnyIn, ToFile, {"drain"}) EXCEPT !.outforms = {"HEX"}]
sc_hex_d    == Command(AnyIn, ToFile, {"readall"})
sc_base64   == Command(AnyIn, ToFile, {"readall"})
sc_base64_d == Command(AnyIn, ToFile, {"close"})
sc_data     == [Command(AnyIn, ToFile, {"drain"}) EXCEPT !.informs = InForm, !.outforms = OutForm]
(* An unknown algorithm, or a buffer size it cannot have, ends hash at once. *)
sc_hash     == [Command(AnyIn, {"stdout"}, {"update", "close"})
                  EXCEPT !.informs = InForm, !.outforms = OutForm]
sc_sm4      == [Command(AnyIn, ToFile, {"update"}) EXCEPT !.informs = InForm, !.outforms = OutForm]
(* A key, a signature or a number that cannot be read ends these after their  *)
(* streams are open.                                                          *)
sc_sm2_sign   == [Command(AnyIn, {"stdout"}, {"update", "close"}) EXCEPT !.outforms = OutForm]
sc_sm2_verify == [Command(AnyIn, {"stdout"}, {"update", "close"})
                    EXCEPT !.items = {Unreadable, Signature(<<>>), Signature(heap.disk[InDisk].data)}]
sc_rand     == [Writer(ToFile \cup {"noout"}, {<<LF>>, <<200>>}) EXCEPT !.outforms = OutForm]
sc_gen      == Writer(ToFile, {Line})
sc_pbkdf2   == Writer({"stdout"}, {Hex(200)})
sc_sm2_keygen == Writer(ToFile, {Line})
sc_pwd      == Writer({"stdout"}, {Line})

Commands ==
  [hex |-> sc_hex, unhex |-> sc_hex_d, base64 |-> sc_base64, unbase64 |-> sc_base64_d,
   data |-> sc_data, hash |-> sc_hash, encrypt |-> sc_sm4, decrypt |-> sc_sm4,
   sign |-> sc_sm2_sign, verify |-> sc_sm2_verify, rand |-> sc_rand, gen |-> sc_gen,
   pbkdf2 |-> sc_pbkdf2, keygen |-> sc_sm2_keygen, pwd |-> sc_pwd]

Rounds(cmd) == CASE cmd = "pwd" -> {1} [] cmd = "gen" -> Items \ {0} [] OTHER -> Items
Plans(cmd)  == CASE cmd \in Emitter -> UNION {[1 .. n -> Commands[cmd].items] : n \in Rounds(cmd)}
                 [] cmd = "verify"   -> Commands[cmd].items          \* --sig
                 [] OTHER            -> {<<>>}

(* gen and pwd do not look at what is given besides their options.  In the  *)
(* others argc > 0 also stands for options refused before a stream is open. *)
Refuses(cmd, argc) == argc > 0 /\ cmd \notin {"gen", "pwd"}

(* --hex of sm2 sign is no wrapper, only what the signature is printed as. *)
Wrapped(cmd, outform) == IF cmd = "sign" THEN "BIN" ELSE outform
Printed(cmd, outform, s) ==
  IF cmd # "sign" THEN s ELSE IF outform = "HEX" THEN AsHex(s) ELSE Base64(s)

(* hash refuses a missing stream. *)
Entries(cmd, i, o) ==
  IF cmd = "hash" /\ NULL \in {i, o} THEN {"close"} ELSE Commands[cmd].entry

(* What params and the locals begin as. *)
NewJob(cmd, ik, ok, inf, outf, plan) ==
  [NoJob EXCEPT !.cmd = cmd, !.in = ik, !.out = ok, !.inform = inf, !.outform = outf, !.todo = plan]

(* broke: an argument, a key, the random source or GmSSL made it give up. *)
Entered(j, i, o, entry) ==
  [j EXCEPT !.i = i, !.o = o, !.broke = entry = "close" /\ j.cmd \notin Unread,
            !.ret = IF j.cmd \in Unread THEN "OK" ELSE "FAIL"]

(* The FILEs left open on the --out file when it is opened anew: each goes on *)
(* writing, at exit, behind what it has written by now.                       *)
Aside == {a.fp : a \in runs.aside}
PushedAside ==
  runs.aside \cup {[fp |-> f, at |-> Len(heap.disk[OutDisk].data)] :
                    f \in {f \in Fp \ Aside : heap.file[f].disk = OutDisk}}

(* The streams are open, or there was an argument too many. *)
Begin(cmd, ik, ok, inf, outf, plan, argc) ==
  \E i \in {cmd_wrap_stream(cmd_get_instream(heap, ik), inf)} :
  \E o1 \in {cmd_wrap_stream(cmd_get_outstream(i.hp, ok), Wrapped(cmd, outf))} :
  \E o \in {IF ok = "noout" THEN Muted(o1) ELSE o1} :
    LET j == NewJob(cmd, ik, ok, inf, outf, plan)
    IN  IF Refuses(cmd, argc)       \* CMDP_CHECK_ARG_COUNT(params, 0, 0)
        THEN /\ pc' = "eol" /\ job' = [j EXCEPT !.broke = TRUE]
             /\ runs' = [runs EXCEPT !.n = @ + 1] /\ UNCHANGED <<heap, due>>
        ELSE /\ pc' \in Entries(cmd, i.h, o.h)
             /\ job' = Entered(j, i.h, o.h, pc') /\ heap' = o.hp
             /\ due' = IF ok = "file" THEN [due EXCEPT ![OutDisk] = <<>>] ELSE due
             /\ runs' = [runs EXCEPT !.n = @ + 1, !.aside = IF ok = "file" THEN PushedAside ELSE @]

Start(cmd) ==
  /\ pc = "start"
  /\ \E ik \in Commands[cmd].ins, ok \in Commands[cmd].outs, inf \in Commands[cmd].informs,
        outf \in Commands[cmd].outforms, plan \in Plans(cmd), argc \in ArgCount :
     Begin(cmd, ik, ok, inf, outf, plan, argc)
  /\ UNCHANGED <<flags>>

Rest == <<flags, due, runs>>

(* XIO_drain: byte by byte, no look at what XIO_write returns. *)
Drain ==
  LET r == XIO_read(heap, job.i, 1)
  IN  /\ pc = "drain"
      /\ IF r.data = <<>>
         THEN heap' = r.hp /\ pc' = "close" /\ job' = [job EXCEPT !.ret = "OK"]
         ELSE heap' = XIO_write(r.hp, job.o, r.data).hp /\ UNCHANGED <<pc, job>>
      /\ UNCHANGED Rest

(* XIO_read_all, then one conversion and one write.  These commands return OK *)
(* whatever happens.                                                          *)
Collect ==
  LET r == XIO_read(heap, job.i, InBuf)
  IN  /\ pc = "readall"
      /\ IF r.data # <<>>
         THEN heap' = r.hp /\ job' = [job EXCEPT !.acc = @ \o r.data] /\ UNCHANGED pc
         ELSE /\ heap' = IF ConvertOut(job.cmd, job.acc) = {} THEN r.hp
                         ELSE XIO_write(r.hp, job.o, CHOOSE x \in ConvertOut(job.cmd, job.acc) : TRUE).hp
              /\ job' = [job EXCEPT !.ret = "OK"] /\ pc' = "close"
      /\ UNCHANGED Rest

(* sm4 writes what update gives back, the others gather; sm4 gives up when *)
(* its output does not take everything.                                     *)
Update ==
  LET r == XIO_read(heap, job.i, InBuf)
      u == UpdateOut(job.cmd, job.acc, r.data)
      w == XIO_write(r.hp, job.o, u.out)
  IN  /\ pc = "update"
      /\ IF r.data = <<>>
         THEN heap' = r.hp /\ pc' = "finish" /\ UNCHANGED job
         ELSE /\ job' = [job EXCEPT !.acc = u.held]
              /\ IF job.cmd \in Gatherer THEN heap' = r.hp /\ UNCHANGED pc
                 ELSE heap' = w.hp /\ pc' = IF w.ret # Len(u.out) THEN "close" ELSE pc
      /\ UNCHANGED Rest

FailureBug(cmd, s, w, fail_code) ==      \* the last write is not looked at
  cmd = "verify" /\ fail_code /\ s # Verdict(job.acc, Signature(job.acc))

(* A wrong signature is a failure only for those who gave a --fail-code. *)
Failure(cmd, s, w, fail_code) ==
  \/ cmd \in Cipher /\ w.ret # Len(s)
  \/ cmd = "verify" /\ fail_code /\ s # Verdict(job.acc, Signature(job.acc))

(* An input that is not what it should be gives no result; and making a       *)
(* signature may fail, which leaves sign no bytes to print.                   *)
Finish ==
  LET outs == FinishOut(job.cmd, job.acc, job.todo)
  IN  /\ pc = "finish" /\ pc' = "close"
      /\ \/ outs = {} /\ UNCHANGED <<heap, job>>
         \/ job.cmd = "sign" /\ job' = [job EXCEPT !.broke = TRUE] /\ UNCHANGED heap
         \/ \E s \in outs, fail_code \in BOOLEAN :
              LET w == XIO_write(heap, job.o, Printed(job.cmd, job.outform, s))
              IN  /\ heap' = w.hp
                  /\ job' = [job EXCEPT !.ret =
                               IF Failure(job.cmd, s, w, fail_code) THEN "FAIL" ELSE "OK"]
      /\ UNCHANGED Rest

(* The writing commands: gen flushes its stream after every line, a random   *)
(* source may fail half way, pbkdf2 before it has written anything.          *)
Emit ==
  /\ pc = "emit"
  /\ IF job.todo = <<>>
     THEN pc' = "close" /\ job' = [job EXCEPT !.ret = "OK"] /\ UNCHANGED heap
     ELSE \/ LET w == XIO_write(heap, job.o, Head(job.todo)).hp
             IN  /\ heap' = IF job.cmd = "gen" THEN XIO_flush(w, job.o) ELSE w
                 /\ job' = [job EXCEPT !.todo = Tail(@), !.acc = @ \o Head(job.todo)]
                 /\ UNCHANGED pc
          \/ /\ job.cmd = "rand" \/ (job.cmd = "pbkdf2" /\ job.acc = <<>>)
             /\ pc' = "close" /\ job' = [job EXCEPT !.broke = TRUE] /\ UNCHANGED heap
  /\ UNCHANGED Rest

(* sm2 keygen returns without closing its stream. *)
Close ==
  /\ pc = "close" /\ pc' = "eol"
  /\ IF job.cmd = "keygen"
     THEN runs' = [runs EXCEPT !.lost = @ + Len(Chain(heap, job.o)) - IF job.out = "stdout" THEN 1 ELSE 0]
          /\ UNCHANGED heap
     ELSE heap' = XIO_close(XIO_close(heap, job.i), job.o) /\ UNCHANGED runs
  /\ UNCHANGED <<flags, job, due>>

-----------------------------------------------------------------------------
(* run_command's last step.  A last_char that was read outside a buffer may *)
(* or may not be a '\n'.                                                    *)
LastCharIsLF(answer) == LET c == heap.obj[Out].last IN IF c = Unknown THEN answer ELSE c = LF

(* What a disk has been given by the FILE that was opened on it last. *)
Flow(d) == heap.disk[d].data \o IF \E f \in Fp \ Aside : heap.file[f].disk = d
           THEN heap.file[CHOOSE f \in Fp \ Aside : heap.file[f].disk = d].buf ELSE <<>>
OutOf(j) == IF j.out = "stdout" THEN Tty ELSE OutDisk

(* The bytes a user gives: a text, a file, or what follows on stdin behind the *)
(* line the command was given in.  Lines of one char ask for nothing, and the *)
(* first command comes with the program's arguments.                          *)
LineEnds(data) == {p \in DOMAIN data : data[p] = LF \/ p = Len(data)}
Asking(data) ==
  {p \in LineEnds(data) : p - Max({0} \cup {q \in LineEnds(data) : q < p}) > 1}
AskedAt(data, n) ==
  Min({p \in {0} \cup Asking(data) : Cardinality({q \in Asking(data) : q <= p}) = n})
Given(j) ==
  LET typed == heap.disk[Kbd].data
  IN  CASE j.in = "stdin"            -> SubSeq(typed, AskedAt(typed, runs.n - 1) + 1, Len(typed))
        [] j.in \in {"text", "file"} -> heap.disk[InDisk].data
        [] OTHER                     -> <<>>

(* What a command has to write: of the whole input it was given, if it can    *)
(* read it, which from hex it cannot (xio_f_hex.c: no read).                  *)
Readable(j) == IF j.inform = "HEX" THEN <<>> ELSE Given(j)
Coded(j, s) == IF j.cmd = "sign" THEN Printed(j.cmd, j.outform, s)
               ELSE IF j.outform = "HEX" /\ j.cmd # "hex" THEN AsHex(s) ELSE s
Body(j) == Coded(j, IF j.cmd \in Emitter THEN j.acc \o FlattenSeq(j.todo)
                    ELSE Ideal(j.cmd, Readable(j), j.todo))

(* What the disks should hold before the '\n': all of it, or what there was   *)
(* before the command broke off, the pieces written so far.                   *)
Settled ==
  LET text == IF ~job.broke THEN Body(job)
              ELSE IF job.cmd \in Emitter THEN Coded(job, job.acc) ELSE <<>>
  IN  IF job.out \in {"stdout", "file"} THEN [due EXCEPT ![OutOf(job)] = @ \o text] ELSE due
(* And with it, unless the program had to guess. *)
WithEol(want, answer) ==
  LET text  == want[Tty]
      ended == IF heap.obj[Out].last = Unknown THEN answer ELSE Last(text) = LF
  IN  IF flags.no_eol \/ text = <<>> \/ ended THEN want ELSE [want EXCEPT ![Tty] = Append(@, LF)]

Eol ==
  /\ pc = "eol"
  /\ \E answer \in BOOLEAN :
       /\ heap' = IF ~flags.no_eol /\ heap.obj[Out].wrote /\ ~LastCharIsLF(answer)
                  THEN XIO_flush(XIO_write(heap, Out, <<LF>>).hp, Out)
                  ELSE heap
       /\ due' = WithEol(Settled, answer)
  /\ pc' = IF flags.repl THEN "newline" ELSE "end"
  /\ UNCHANGED <<flags, job, runs>>

(* repl: an empty line after every command, then the next line of stdin. *)
Newline ==
  /\ pc = "newline" /\ pc' = "prompt"
  /\ heap' = XIO_write(heap, Out, <<LF>>).hp
  /\ due' = [due EXCEPT ![Tty] = Append(@, LF)]
  /\ job' = NoJob
  /\ UNCHANGED <<flags, runs>>

LineEndBug(data, p) ==           \* takes the char behind the '\n', too
  IF p = Len(data) THEN p
  ELSE Min({k \in p + 1 .. Len(data) : (k > p + 1 /\ data[k - 1] = LF) \/ k = Len(data)})

(* getline: up to the next '\n' or the end. *)
LineEnd(data, p) ==
  IF p = Len(data) THEN p ELSE Min({k \in p + 1 .. Len(data) : data[k] = LF \/ k = Len(data)})

(* console_readline cuts off the last char, which need not be a '\n'.  A line *)
(* that is empty then, and the end of stdin, just prompt again.               *)
Prompt ==
  LET data  == heap.disk[Kbd].data
      p     == heap.file[Stdin].pos
      line  == LineEnd(data, p)
  IN  /\ pc = "prompt"
      /\ heap' = [heap EXCEPT !.file[Stdin].pos = line]
      /\ pc' = IF line - p > 1 /\ runs.n < MaxRuns THEN "start" ELSE "prompt"
      /\ UNCHANGED <<flags, job, due, runs>>

(* exit writes out what every open FILE still buffers, in the library's       *)
(* order, each at its own place in the file: over what is there, and zeros if *)
(* the file has become shorter.                                               *)
PutAt(data, at, s) ==
  [i \in 1 .. Max({Len(data), at + Len(s)}) |->
     IF i > at /\ i <= at + Len(s) THEN s[i - at] ELSE IF i <= Len(data) THEN data[i] ELSE 0]
Place(hp, f) ==
  IF f \in Aside THEN (CHOOSE a \in runs.aside : a.fp = f).at
  ELSE Len(hp.disk[hp.file[f].disk].data)
WrittenOut(hp, d, files) ==
  FoldLeft(LAMBDA data, f : IF hp.file[f].disk = d THEN PutAt(data, Place(hp, f), hp.file[f].buf) ELSE data,
           hp.disk[d].data, files)
AtExit(hp) ==
  {[hp EXCEPT !.file = [f \in Fp |-> Closed],
              !.disk = [d \in Disk |-> IF hp.disk[d].broken THEN hp.disk[d]
                                        ELSE [hp.disk[d] EXCEPT !.data = WrittenOut(hp, d, files)]]] :
     files \in SetToSeqs({f \in Fp : hp.file[f].buf # <<>>})}

End ==
  /\ pc = "end" /\ pc' = "exited"
  /\ heap' \in AtExit(XIO_close(XIO_close(heap, In), Out))
  /\ UNCHANGED <<flags, job, due, runs>>

(* SIGINT: exit(0). *)
signal_handler ==
  /\ pc \notin {"exited", "killed"} /\ pc' = "killed"
  /\ heap' \in AtExit(heap)
  /\ UNCHANGED <<flags, job, due, runs>>

DeviceFails(d) ==
  /\ \A e \in Disk : ~heap.disk[e].broken
  /\ heap' = [heap EXCEPT !.disk[d].broken = TRUE]
  /\ UNCHANGED <<flags, pc, job, due, runs>>

Working == {"drain", "readall", "update", "finish", "emit", "close", "eol", "newline", "end"}
Step == Drain \/ Collect \/ Update \/ Finish \/ Emit \/ Close \/ Eol \/ Newline \/ End

Next ==
  \/ \E cmd \in Cmd : Start(cmd)
  \/ Step \/ Prompt \/ signal_handler
  \/ \E d \in Fallible : DeviceFails(d)

(* A started command runs on by itself; nobody has to press Ctrl-C or to give *)
(* another command.  Step is enabled exactly when pc is in Working, so this   *)
(* is the weak fairness of Step.                                              *)
Fairness == []<>(pc \notin Working) \/ []<><<Step>>_vars

Spec == Init /\ [][Next]_vars /\ Fairness

-----------------------------------------------------------------------------
Busy    == {"drain", "readall", "update", "finish", "emit", "close", "eol"}
Stopped == {"exited", "killed"}

(* A command closes the streams it was given on g_state.in and g_state.out  *)
(* like any other, whatever it wrapped around them and wherever it gave up: *)
(* that never closes the program's own stdin and stdout.                    *)
GlobalStreams ==
  pc \notin Stopped =>
    /\ {In, Out} \subseteq Live(heap)
    /\ heap.file[Stdin].open /\ heap.file[Stdout].open

(* When a command is over, on whichever path, its streams are gone and its  *)
(* files closed; only sm2 keygen leaves what it opened behind.              *)
Released ==
  pc \in {"eol", "newline", "prompt", "end"} =>
    /\ Cardinality(Live(heap)) = 2 + runs.lost
    /\ runs.lost = 0 => \A f \in Fp \ {Stdin, Stdout} : ~heap.file[f].open

(* A command succeeds unless something broke or, if it decrypts or verifies,  *)
(* the input or the signature is not what it should be.  A file that is not   *)
(* there and hex that cannot be read are empty inputs; only hash refuses the   *)
(* one, and not the other.                                                    *)
Succeeds(j) ==
  /\ ~j.broke
  /\ j.cmd = "decrypt" => IsSealed(Readable(j))
  /\ j.cmd = "verify"  => j.todo # Unreadable
  /\ j.cmd = "hash"    => j.in # "missing" \/ j.inform = "HEX"

(* sm4, and only if it writes no hex, looks at whether its output is taken. *)
LooksAtOutput(j) == j.cmd \in Cipher /\ j.outform = "BIN"

(* A command reports success only if it succeeded.  One that succeeded reports *)
(* a failure only if it is sm4 and its device failed, or there was a file it   *)
(* could not open and something to write to it, or if it found a signature     *)
(* wrong.  And if sm4 reports success, then stdio has taken its whole output.  *)
SaysSo ==
  LET j == job
  IN  /\ pc \in {"eol", "newline", "end"} =>
           /\ j.ret = "OK" => Succeeds(j)
           /\ Succeeds(j) => \/ j.ret = "OK"
                             \/ j.cmd = "verify" /\ Body(j) # Verified
                             \/ LooksAtOutput(j) /\ IF j.out = "unwritable" THEN Body(j) # <<>>
                                                     ELSE heap.disk[OutOf(j)].broken
      /\ pc = "close" /\ j.ret = "OK" /\ LooksAtOutput(j) =>
           IF j.out = "unwritable" THEN Body(j) = <<>> ELSE IsSuffix(Body(j), Flow(OutOf(j)))

(* When a command is over, it has added to the file it was given, or to       *)
(* stdout and then with a '\n' if it does not end in one, exactly this: if it *)
(* succeeded, all that it should make of its whole input, once; what it wrote *)
(* before its random source failed, or before it found the last block wrong;  *)
(* else nothing.  At exit, and after a Ctrl-C before the first command or at  *)
(* the prompt, nothing is left in a buffer.                                   *)
Exact ==
  LET quiet == pc = "exited" \/ (pc = "killed" /\ job.cmd = "none" /\ runs.aside = {})
  IN  \A d \in {Tty, OutDisk} : ~heap.disk[d].broken =>
        /\ pc \in {"newline", "prompt", "end"} => Flow(d) = due[d]
        /\ quiet => heap.disk[d].data = due[d]

(* What a command adds to its output and what it reports are right, whatever  *)
(* it was given and wherever it gave up.                                      *)
OutputRight == Exact /\ SaysSo

(* Whenever the program is stopped or its output device fails, what the     *)
(* device holds is a beginning of the right output: no byte out of place,   *)
(* and none on a stream the user did not choose.  Only when a file that     *)
(* sm2 keygen left open was given to a later command, too, the exit writes  *)
(* the one's lines over the other's output.                                 *)
OutputPrefix ==
  \A d \in {Tty, OutDisk} :
    LET data == heap.disk[d].data
        mine == job.out \in {"stdout", "file"} /\ d = OutOf(job)
    IN  \/ IsPrefix(data, due[d])
        \/ mine /\ IsPrefix(data, due[d] \o Body(job) \o <<LF>>)
        \/ d = OutDisk /\ pc \in Stopped /\ runs.aside # {}

(* Every command that is started comes to its end and back to the prompt, or *)
(* the program ends: the loops over an input end with the input.             *)
Returns == pc \in Busy \cup {"end"} ~> pc \in {"prompt"} \cup Stopped

-----------------------------------------------------------------------------
(* Statements of the repository about the program. *)

(* sc_sm4.c on --inform: "FORMAT: bin, hex."  What xx sm4 wrote in hex can be *)
(* decrypted from hex.                                                        *)
HexInputWorks ==
  pc = "eol" /\ job.cmd = "decrypt" /\ job.inform = "HEX" /\ IsSealed(Decode(Given(job))) =>
    job.ret = "OK"

(* global.h on no_eol, "add eol if out not ends with eol": and only then. *)
OneEol ==
  pc = "end" /\ ~flags.no_eol /\ ~heap.disk[Tty].broken /\ job.out = "stdout" /\ job.ret = "OK" =>
    LET body == Body(job) IN
      Flow(Tty) = IF body = <<>> \/ Last(body) = LF THEN body ELSE Append(body, LF)
=============================================================================
