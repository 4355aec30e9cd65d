-------------------------------- MODULE Xio ---------------------------------
(***************************************************************************)
(* The stream layer of src/xio: sources (FILE, MEMORY, MBUILDER, NULL) and *)
(* the filters stacked on them (PASS, HEX, BASE64).  A heap holds the XIO  *)
(* objects, the stdio FILEs below them and the open files below those; the *)
(* operators compute what one library call does to a heap, through the     *)
(* whole chain of targets, and are used by the modules that call xio.      *)
(***************************************************************************)
EXTENDS Integers, Sequences, SequencesExt, FiniteSets, FiniteSetsExt

HexC == INSTANCE HexCodec
B64C == INSTANCE Base64Codec

CONSTANTS
  Handle,     \* bound: the XIO objects that may be alive at one time
  NULL,       \* no object
  Fp,         \* the FILE* values
  Disk,       \* the files, terminals and pipes behind them
  BufSize,    \* bytes a FILE buffers before it writes them out
  Unknown,    \* a char read from outside every buffer
  NoFp,       \* no FILE*, no file
  UpperHex    \* g_state.upper_hex

Hex(b)    == HexC!HexByte(b, UpperHex)
Base64(s) == B64C!cc_base64_encode(s, 0, FALSE)

ASSUME NullAssumption == NULL \notin Handle /\ NoFp \notin Fp /\ NoFp \notin Disk
ASSUME BufSizeAssumption == BufSize \in Nat
ASSUME UpperHexAssumption == UpperHex \in BOOLEAN

Filter == {"PASS", "HEX", "BASE64"}
Source == {"FILE", "MEMORY", "MBUILDER", "NULL"}

(* Of the two counters, num_write is only ever compared with 0 (wrote), and  *)
(* num_read is not used: readn is where a MEMORY is read next.               *)
Unused == [type |-> "unused", close |-> FALSE, dirty |-> FALSE, target |-> NULL,
           fp |-> NoFp, readn |-> 0, wrote |-> FALSE, last |-> Unknown, data |-> <<>>]
Closed == [open |-> FALSE, mode |-> "rb", disk |-> NoFp, buf |-> <<>>, pos |-> 0]

Live(hp)  == {h \in Handle : hp.obj[h] # Unused}
FreeObj(hp) == Handle \ Live(hp)
FreeFp(hp)  == {f \in Fp : ~hp.file[f].open}

-----------------------------------------------------------------------------
(* stdio.  A FILE keeps what it is given until its buffer would overflow, or *)
(* fflush or fclose writes it out.  A device that fails takes nothing more:  *)
(* fwrite then reports 0, and fflush loses what was buffered.                *)

Fflush(hp, f) ==
  LET d == hp.file[f].disk
  IN  [hp EXCEPT !.file[f].buf = <<>>,
                 !.disk[d].data = IF hp.disk[d].broken THEN @ ELSE @ \o hp.file[f].buf]

Fwrite(hp, f, s) ==
  LET d == hp.file[f].disk
      b == hp.file[f].buf \o s
  IN  IF hp.file[f].mode = "rb" THEN [hp |-> hp, ret |-> 0]
      ELSE IF Len(b) <= BufSize
      THEN [hp |-> [hp EXCEPT !.file[f].buf = b], ret |-> Len(s)]
      ELSE IF hp.disk[d].broken
      THEN [hp |-> [hp EXCEPT !.file[f].buf = <<>>], ret |-> 0]
      ELSE [hp |-> [hp EXCEPT !.file[f].buf = <<>>, !.disk[d].data = @ \o b], ret |-> Len(s)]

Fclose(hp, f) == [Fflush(hp, f) EXCEPT !.file[f] = Closed]

(* Definitions named ...Bug are mistakes this code could easily have had; each *)
(* stands before the definition it would spoil.                               *)
FreadBug(hp, f, n) ==        \* never ends: reads the file again
  LET p    == hp.file[f].pos
      rest == Len(hp.disk[hp.file[f].disk].data) - p
      r    == IF rest <= 0 \/ hp.file[f].mode # "rb" THEN 0 ELSE IF n < rest THEN n ELSE rest
  IN  [hp |-> [hp EXCEPT !.file[f].pos = IF r = rest THEN 0 ELSE p + r], ret |-> r]

(* fread, as f_read calls it. *)
Fread(hp, f, n) ==
  LET p    == hp.file[f].pos
      rest == Len(hp.disk[hp.file[f].disk].data) - p
      r    == IF rest <= 0 \/ hp.file[f].mode # "rb" THEN 0 ELSE IF n < rest THEN n ELSE rest
  IN  [hp |-> [hp EXCEPT !.file[f].pos = p + r], ret |-> r]

-----------------------------------------------------------------------------
(* The chain of an object: the object, its target, the target's target...  *)
Chain(hp, h) ==
  LET c[k \in Handle \cup {NULL}] ==
        IF k = NULL THEN <<>> ELSE <<k>> \o c[hp.obj[k].target]
  IN  c[h]

XIO_get_source(hp, h) == Last(Chain(hp, h))

(* What a filter writes to its target for the strings written to it: HEX    *)
(* prints byte by byte, BASE64 encodes each string on its own, and an empty *)
(* one not at all.                                                          *)
Forwarded(type, strs) ==
  CASE type = "PASS" -> strs
    [] type = "HEX"  -> LET s == FlattenSeq(strs) IN [i \in DOMAIN s |-> Hex(s[i])]
    [] OTHER         -> FlattenSeq([i \in DOMAIN strs |->
                          IF strs[i] = <<>> THEN <<>> ELSE <<Base64(strs[i])>>])

(* What reaches each object of the chain c when s is written to its first. *)
Handed(hp, c, s) ==
  LET strs[i \in DOMAIN c] ==
        IF i = 1 THEN <<s>> ELSE Forwarded(hp.obj[c[i - 1]].type, strs[i - 1])
  IN  strs

(* What the source at the end of a chain makes of these strings: the heap, *)
(* and the value each write returned.  A FILE takes the pieces of one       *)
(* XIO_write together or not at all.                                        *)
Taken(hp, strs)   == [hp |-> hp, rets |-> [i \in DOMAIN strs |-> Len(strs[i])]]
Refused(hp, strs) == [hp |-> hp, rets |-> [i \in DOMAIN strs |-> 0]]

FileWriteBug(hp, h, strs) ==        \* only the first string arrives
  Taken(IF strs = <<>> THEN hp ELSE Fwrite(hp, hp.obj[h].fp, Head(strs)).hp, strs)
FileWrite(hp, h, strs) ==
  LET w == Fwrite(hp, hp.obj[h].fp, FlattenSeq(strs))
  IN  IF w.ret = 0 THEN Refused(w.hp, strs) ELSE Taken(w.hp, strs)
MBuilderWrite(hp, h, strs) == Taken([hp EXCEPT !.obj[h].data = @ \o FlattenSeq(strs)], strs)
MemoryWrite(hp, h, strs)   == Refused(hp, strs)
NullWrite(hp, h, strs)     == Taken(hp, strs)

SourceWrite(hp, h, strs) ==
  CASE hp.obj[h].type = "FILE"     -> FileWrite(hp, h, strs)
    [] hp.obj[h].type = "MBUILDER" -> MBuilderWrite(hp, h, strs)
    [] hp.obj[h].type = "MEMORY"   -> MemoryWrite(hp, h, strs)
    [] hp.obj[h].type = "NULL"     -> NullWrite(hp, h, strs)
    [] OTHER                       -> Refused(hp, strs)     \* a filter over NULL

(* What f_write returns for the strings of a filter, given what its writes to *)
(* the target returned.                                                       *)
FilterRets(type, strs, targetRets) ==
  CASE type = "HEX"    -> [i \in DOMAIN strs |-> Len(strs[i])]
    [] type = "BASE64" -> [i \in DOMAIN strs |-> IF strs[i] = <<>> THEN 0 ELSE targetRets[i]]
    [] OTHER           -> targetRets

(* The object's own bookkeeping.  HEX, BASE64 and the sources count and look *)
(* at the string they were given; PASS at what its target took of it, and    *)
(* FILE counts what fwrite took.  The char before an empty string is not in  *)
(* the string; neither is the one PASS looks at behind a BASE64 target, which *)
(* returns how much longer the string became.                                *)
Charged(o, strs, rets) ==
  LET n       == Len(strs)
      upTo    == IF o.type = "PASS" THEN rets[n] ELSE Len(strs[n])
      counted == IF o.type \in {"PASS", "FILE"} THEN rets ELSE [i \in DOMAIN strs |-> Len(strs[i])]
  IN  IF n = 0 THEN o
      ELSE IF o.type = "MEMORY" \/ (o.type = "BASE64" /\ strs[n] = <<>>)
      THEN [o EXCEPT !.dirty = TRUE]
      ELSE [o EXCEPT !.dirty  = TRUE,
                     !.wrote  = @ \/ \E i \in DOMAIN counted : counted[i] > 0,
                     !.last   = IF upTo \in 1 .. Len(strs[n])
                                THEN strs[n][upTo] ELSE Unknown]

XIO_write(hp, h, s) ==
  IF h = NULL THEN [hp |-> hp, ret |-> 0]
  ELSE LET c == Chain(hp, h)
           n == Len(c)
           type(i) == hp.obj[c[i]].type
           strs == Handed(hp, c, s)
           end == SourceWrite(hp, c[n], strs[n])
           rets[i \in 1 .. n] ==
             IF i < n THEN FilterRets(type(i), strs[i], rets[i + 1])
             ELSE FilterRets(type(n), strs[n], end.rets)
           level(h2) == CHOOSE i \in 1 .. n : c[i] = h2
       IN  [hp  |-> [end.hp EXCEPT !.obj =
                       [k \in Handle |-> IF k \in Range(c)
                                         THEN Charged(@[k], strs[level(k)], rets[level(k)])
                                         ELSE @[k]]],
            ret |-> rets[1][1]]

(* How much of a MEMORY a read for n bytes gets, and where it goes on then. *)
Served(o, n) == LET left == Len(o.data) - o.readn IN IF n < left THEN n ELSE left
MovedBug(o, n) == o.readn + n      \* by what was asked for, past the end
Moved(o, n) == o.readn + Served(o, n)

(* Only PASS reads through; HEX, BASE64 and MBUILDER cannot be read.  NULL *)
(* leaves the caller's buffer as it was.                                   *)
XIO_read(hp, h, n) ==
  IF h = NULL THEN [hp |-> hp, data |-> <<>>]
  ELSE LET c    == Chain(hp, h)
           e    == Last(c)
           o    == hp.obj[e]
           down == \A i \in DOMAIN c : i < Len(c) => hp.obj[c[i]].type = "PASS"
           f    == Fread(hp, o.fp, n)
           data == IF ~down THEN <<>> ELSE
                   CASE o.type = "FILE" ->
                          SubSeq(hp.disk[hp.file[o.fp].disk].data,
                                 hp.file[o.fp].pos + 1, hp.file[o.fp].pos + f.ret)
                     [] o.type = "MEMORY" -> SubSeq(o.data, o.readn + 1, o.readn + Served(o, n))
                     [] o.type = "NULL" -> [i \in 1 .. n |-> Unknown]
                     [] OTHER -> <<>>
           hp2  == IF down /\ o.type = "FILE" THEN f.hp ELSE hp
       IN  [hp   |-> IF down /\ o.type = "MEMORY"
                     THEN [hp EXCEPT !.obj[e].readn = Moved(o, n)] ELSE hp2,
            data |-> data]

XIO_flushBug(hp, h) ==             \* forgets to ask stdio
  IF h = NULL \/ ~hp.obj[h].dirty THEN hp ELSE [hp EXCEPT !.obj[h].dirty = FALSE]

(* A flush goes no further than the object: only FILE passes it on, to stdio. *)
XIO_flush(hp, h) ==
  IF h = NULL \/ ~hp.obj[h].dirty THEN hp
  ELSE LET hp2 == IF hp.obj[h].type = "FILE" THEN Fflush(hp, hp.obj[h].fp) ELSE hp
       IN  [hp2 EXCEPT !.obj[h].dirty = FALSE]

(* A filter with XIO_FLAG_CLOSE closes its target too, and so on down. *)
ClosedWith(hp, h) ==
  LET c == Chain(hp, h)
  IN  {c[i] : i \in {i \in DOMAIN c : \A j \in 1 .. i - 1 : hp.obj[c[j]].close}}

XIO_closeBug(hp, h) ==             \* leaves the targets alone
  IF h = NULL THEN hp ELSE [hp EXCEPT !.obj[h] = Unused]
XIO_closeNoFlushBug(hp, h) ==      \* flushes only what it fcloses
  IF h = NULL THEN hp
  ELSE LET gone == ClosedWith(hp, h)
           e    == XIO_get_source(hp, h)
           o    == hp.obj[e]
           hp2  == IF e \in gone /\ o.type = "FILE" /\ o.close THEN Fclose(hp, o.fp) ELSE hp
       IN  [hp2 EXCEPT !.obj = [k \in Handle |-> IF k \in gone THEN Unused ELSE @[k]]]

(* Each is flushed, then closed; FILE closes its FILE* only if it owns it. *)
XIO_close(hp, h) ==
  IF h = NULL THEN hp
  ELSE LET gone == ClosedWith(hp, h)
           e    == XIO_get_source(hp, h)
           o    == hp.obj[e]
           hp2  == IF e \notin gone \/ o.type # "FILE" THEN hp
                   ELSE IF o.close THEN Fclose(hp, o.fp) ELSE XIO_flush(hp, e)
       IN  [hp2 EXCEPT !.obj = [k \in Handle |-> IF k \in gone THEN Unused ELSE @[k]]]

-----------------------------------------------------------------------------
(* Constructors: the heap with one more object, h. *)

Alloc(hp, h, o) == [hp EXCEPT !.obj[h] = o]

XIO_new_fp(hp, h, f, close) ==
  Alloc(hp, h, [Unused EXCEPT !.type = "FILE", !.fp = f, !.close = close])

(* fopen: "wb" truncates. *)
Fopen(hp, f, d, mode) ==
  [hp EXCEPT !.file[f] = [Closed EXCEPT !.open = TRUE, !.mode = mode, !.disk = d],
             !.disk[d].data = IF mode = "wb" THEN <<>> ELSE @]
XIO_new_fileBug(hp, h, f, d, mode) ==    \* not told to close the FILE
  XIO_new_fp(Fopen(hp, f, d, mode), h, f, FALSE)
XIO_new_file(hp, h, f, d, mode) == XIO_new_fp(Fopen(hp, f, d, mode), h, f, TRUE)

XIO_new_memory(hp, h, s) == Alloc(hp, h, [Unused EXCEPT !.type = "MEMORY", !.data = s])
XIO_new_mbuilder(hp, h)  == Alloc(hp, h, [Unused EXCEPT !.type = "MBUILDER"])
XIO_new_null(hp, h)      == Alloc(hp, h, [Unused EXCEPT !.type = "NULL", !.close = TRUE])

NewFilter(hp, h, type, target, close) ==
  Alloc(hp, h, [Unused EXCEPT !.type = type, !.close = close, !.target = target])
XIO_newf_hex(hp, h, target)         == NewFilter(hp, h, "HEX", target, TRUE)
XIO_newf_base64(hp, h, target)      == NewFilter(hp, h, "BASE64", target, TRUE)
XIO_newf_passBug(hp, h, target, close) == NewFilter(hp, h, "PASS", target, TRUE)
XIO_newf_pass(hp, h, target, close) == NewFilter(hp, h, "PASS", target, close)

(* XIO_dup of a source, as object k.  A FILE's copy is a FILE* of its own, f, *)
(* on the same open file, and is closed with the copy; fdopen gives one,      *)
(* opened "r+", if the file is a terminal.  MEMORY starts at its front.       *)
XIO_dup(hp, h, k, f) ==
  LET o == hp.obj[h]
      copy == [Closed EXCEPT !.open = TRUE, !.mode = "r+", !.disk = hp.file[o.fp].disk]
  IN  CASE o.type = "FILE"     -> XIO_new_fp([hp EXCEPT !.file[f] = copy], k, f, TRUE)
        [] o.type = "MEMORY"   -> XIO_new_memory(hp, k, o.data)
        [] o.type = "MBUILDER" -> Alloc(hp, k, [Unused EXCEPT !.type = "MBUILDER", !.data = o.data])
        [] o.type = "NULL"     -> XIO_new_null(hp, k)
=============================================================================
