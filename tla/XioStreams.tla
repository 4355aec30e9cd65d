----------------------------- MODULE XioStreams -----------------------------
(***************************************************************************)
(* A client of the stream layer, free to open, stack, write, read, flush,  *)
(* copy and close streams in any order a C caller may: it uses handles it  *)
(* holds, gives a handle up when a filter that closes its target takes it, *)
(* and does not close a stream something is still stacked on.              *)
(***************************************************************************)
EXTENDS Xio

CONSTANTS
  Stdout,     \* the FILE* open before the program starts,
  Tty,        \* and what is behind it
  Text,       \* the strings the client writes
  Fallible,   \* the disks that may fail
  MaxBytes    \* bound: bytes that all disks and MBUILDERs hold together

ASSUME ClientAssumption == Stdout \in Fp /\ Tty \in Disk /\ Fallible \subseteq Disk
                           /\ Text \subseteq Seq(0 .. 255)

VARIABLES
  heap,       \* objects, FILEs and open files
  held,       \* the handles the client holds
  wanted,     \* what was written to each disk, as the filters encode it
  exempt      \* disks that two FILEs have been open on

vars == <<heap, held, wanted, exempt>>

Init ==
  /\ heap = [obj  |-> [h \in Handle |-> Unused],
             file |-> [f \in Fp |-> IF f = Stdout
                                    THEN [Closed EXCEPT !.open = TRUE, !.mode = "wb", !.disk = Tty]
                                    ELSE Closed],
             disk |-> [d \in Disk |-> [data |-> <<>>, broken |-> FALSE]]]
  /\ held = {}
  /\ wanted = [d \in Disk |-> <<>>]
  /\ exempt = {}

StackedOn(h) == {k \in Live(heap) : heap.obj[k].target = h}
Files        == {h \in Live(heap) : heap.obj[h].type = "FILE"}
DiskOf(h)    == heap.file[heap.obj[h].fp].disk

(* The call makes h; the handles of taken now belong to it. *)
Made(h, hp, taken) ==
  h \in FreeObj(heap) /\ heap' = hp /\ held' = (held \ taken) \cup {h}

-----------------------------------------------------------------------------
(* main and the tests: one XIO on stdout, which it does not own. *)
OpenStdout(h) ==
  /\ \A k \in Files : heap.obj[k].fp # Stdout
  /\ Made(h, XIO_new_fp(heap, h, Stdout, FALSE), {})
  /\ UNCHANGED <<wanted, exempt>>

OpenFile(h, d, mode) ==
  /\ d # Tty /\ \A f \in Fp : heap.file[f].disk # d
  /\ \E f \in FreeFp(heap) : Made(h, XIO_new_file(heap, h, f, d, mode), {})
  /\ wanted' = IF mode = "wb" THEN [wanted EXCEPT ![d] = <<>>] ELSE wanted
  /\ UNCHANGED exempt

NewSource(h) ==
  /\ \/ \E s \in Text : Made(h, XIO_new_memory(heap, h, s), {})
     \/ Made(h, XIO_new_mbuilder(heap, h), {})
     \/ Made(h, XIO_new_null(heap, h), {})
  /\ UNCHANGED <<wanted, exempt>>

Stack(h, target) ==
  /\ target \in held /\ StackedOn(target) = {}
  /\ \/ Made(h, XIO_newf_hex(heap, h, target), {target})
     \/ Made(h, XIO_newf_base64(heap, h, target), {target})
     \/ Made(h, XIO_newf_pass(heap, h, target, TRUE), {target})
     \/ Made(h, XIO_newf_pass(heap, h, target, FALSE), {})
  /\ UNCHANGED <<wanted, exempt>>

Dup(h, of) ==
  /\ of \in held /\ heap.obj[of].type \in Source
  /\ IF heap.obj[of].type = "FILE"
     THEN /\ heap.obj[of].fp = Stdout
          /\ exempt' = exempt \cup {Tty}
          /\ \E f \in FreeFp(heap) : Made(h, XIO_dup(heap, of, h, f), {})
     ELSE Made(h, XIO_dup(heap, of, h, NoFp), {}) /\ UNCHANGED exempt
  /\ UNCHANGED wanted

(* What a string written to h is at the end of the chain. *)
Encoded(h, s) == FlattenSeq(Last(Handed(heap, Chain(heap, h), s)))

Stored(hp, want) ==
  FoldSet(LAMBDA d, n : Len(want[d]) + n, 0, Disk)
    + FoldSet(LAMBDA k, n : Len(hp.obj[k].data) + n, 0,
              {k \in Live(hp) : hp.obj[k].type = "MBUILDER"})

Write(h, s) ==
  LET c == Chain(heap, h)
      w == XIO_write(heap, h, s)
      x == Encoded(h, s)
  IN  /\ h \in held
      /\ heap' = w.hp
      /\ IF heap.obj[Last(c)].type = "FILE" /\ heap.file[heap.obj[Last(c)].fp].mode # "rb"
         THEN LET d == DiskOf(Last(c))
              IN  /\ wanted' = [wanted EXCEPT ![d] = @ \o x]
         ELSE UNCHANGED wanted
      /\ Stored(heap', wanted') <= MaxBytes
      /\ UNCHANGED <<held, exempt>>

Read(h, n) ==
  LET r == XIO_read(heap, h, n)
  IN  /\ h \in held
      /\ heap' = r.hp
      /\ UNCHANGED <<held, wanted, exempt>>

Flush(h) ==
  /\ h \in held /\ heap' = XIO_flush(heap, h) /\ UNCHANGED <<held, wanted, exempt>>

Close(h) ==
  /\ h \in held /\ StackedOn(h) = {}
  /\ heap' = XIO_close(heap, h)
  /\ held' = held \ {h}
  /\ UNCHANGED <<wanted, exempt>>

(* One device may fail. *)
DeviceFails(d) ==
  /\ \A e \in Disk : ~heap.disk[e].broken
  /\ heap' = [heap EXCEPT !.disk[d].broken = TRUE]
  /\ UNCHANGED <<held, wanted, exempt>>

Next ==
  \/ \E h \in Handle :
       \/ OpenStdout(h) \/ NewSource(h)
       \/ \E d \in Disk : OpenFile(h, d, "wb") \/ OpenFile(h, d, "rb")
       \/ \E k \in Handle : Stack(h, k) \/ Dup(h, k)
       \/ \E s \in Text : Write(h, s)
       \/ Read(h, 1) \/ Flush(h) \/ Close(h)
  \/ \E d \in Fallible : DeviceFails(d)

Spec == Init /\ [][Next]_vars

-----------------------------------------------------------------------------
TypeOK ==
  /\ \A h \in Live(heap) :
       LET o == heap.obj[h]
       IN  /\ o.type \in Filter \cup Source
           /\ o.readn \in 0 .. Len(o.data) /\ o.wrote \in BOOLEAN
           /\ o.target \in Handle \cup {NULL}
           /\ o.fp \in Fp \cup {NoFp} /\ (o.type = "FILE" <=> o.fp \in Fp)
  /\ \A f \in Fp : Len(heap.file[f].buf) <= BufSize

(* Closing a stack of filters never frees a stream, or closes a FILE, that *)
(* somebody still uses: the client, another stream or the rest of the      *)
(* program.  PASS without XIO_FLAG_CLOSE stops the closing, HEX and BASE64  *)
(* pass it on.                                                             *)
NoDangling ==
  /\ held \subseteq Live(heap)
  /\ \A h \in Live(heap) :
       LET o == heap.obj[h]
       IN  /\ o.type \in Filter => o.target \in Live(heap)
           /\ o.type = "FILE" => heap.file[o.fp].open

(* Every object is held or has a filter on it that is: closing what one     *)
(* holds releases everything that was given up to filters.                  *)
NoLeak ==
  \A h \in Live(heap) : h \in held \/ \E k \in StackedOn(h) : heap.obj[k].close

(* A FILE* opened by the stream layer is open exactly as long as the one    *)
(* object that owns it lives; stdout outlives every stream on it.           *)
FileOwnership ==
  /\ heap.file[Stdout].open
  /\ \A f \in Fp \ {Stdout} :
       heap.file[f].open <=> \E h \in Files : heap.obj[h].fp = f /\ heap.obj[h].close

(* "prevent multi-time flush": the SHOULD_FLUSH flag skips flushes, but     *)
(* never the one that is needed.  Bytes stay in a FILE's buffer only while  *)
(* an object on that FILE remembers to flush it, so closing a stream leaves *)
(* nothing behind, not even on stdout, which is not fclosed.                *)
NothingLeftBehind ==
  \A f \in Fp : heap.file[f].buf # <<>> =>
    \E h \in Files : heap.obj[h].fp = f /\ heap.obj[h].dirty

(* Through any stack of filters, and whatever was flushed, stacked or closed *)
(* meanwhile, a working device receives the encodings of everything that was *)
(* written, in order, nothing lost and nothing twice.                        *)
Delivered ==
  \A f \in Fp :
    LET d == heap.file[f].disk
    IN  heap.file[f].open /\ d \notin exempt /\ ~heap.disk[d].broken =>
          heap.disk[d].data \o heap.file[f].buf = wanted[d]

(* And once no stream is left on a device, the device itself has everything, *)
(* even behind stdout, which is flushed but never fclosed.                   *)
DeliveredAtClose ==
  \A d \in Disk \ exempt :
    (~heap.disk[d].broken /\ \A h \in Files : DiskOf(h) # d) => heap.disk[d].data = wanted[d]
=============================================================================
