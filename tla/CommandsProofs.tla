--------------------------- MODULE CommandsProofs ---------------------------
(* The program keeps its own streams, and a command that is over has given back *)
(* what it took, whatever it reads, writes, or stumbles over.  Bytes do not      *)
(* matter here: only which objects and FILEs there are, and who closes whom.     *)
EXTENDS Commands, XioProofs, FiniteSetTheorems

-----------------------------------------------------------------------------
(* The parts of a heap that only opening and closing changes are there. *)
Framed(hp) ==
  /\ {"obj", "file", "disk"} \subseteq DOMAIN hp
  /\ Handle \subseteq DOMAIN hp.obj /\ Fp \subseteq DOMAIN hp.file
  /\ \A k \in Handle :
       /\ {"type", "close", "target", "fp"} \subseteq DOMAIN hp.obj[k] /\ hp.obj[k].close \in BOOLEAN
       /\ hp.obj[k].type = "unused" => hp.obj[k] = Unused
  /\ \A f \in Fp : "open" \in DOMAIN hp.file[f] /\ hp.file[f].open \in BOOLEAN

(* What the commands made, and did not yet close. *)
Own(hp) == Live(hp) \ {In, Out}

(* The program's own streams are alive and so are their FILEs; a FILE stream  *)
(* of a command owns its FILE, and no FILE is open without its owner.         *)
Base(hp) ==
  /\ Framed(hp) /\ Chained(hp)
  /\ \A k \in Live(hp) : Target(hp, k) \in Live(hp) \cup {NULL}
  /\ \A k \in {In, Out} : k \in Live(hp) /\ Target(hp, k) = NULL
  /\ hp.file[Stdin].open /\ hp.file[Stdout].open
  /\ \A k \in Own(hp) : hp.obj[k].type = "FILE" =>
       hp.obj[k].close /\ Target(hp, k) = NULL /\ hp.obj[k].fp \in Fp \ {Stdin, Stdout}
  /\ \A f \in Fp \ {Stdin, Stdout} : hp.file[f].open =>
       \E k \in Own(hp) : hp.obj[k].type = "FILE" /\ hp.obj[k].fp = f

(* A stream is an object, with its target if it closes one. *)
Parts(hp, h) ==
  IF h = NULL THEN {}
  ELSE IF hp.obj[h].close /\ Target(hp, h) # NULL THEN {h, Target(hp, h)} ELSE {h}

(* It was made by the command, nothing else is stacked on it, and its target *)
(* closes nothing more.                                                      *)
Mine(hp, h) ==
  h # NULL =>
    /\ h \in Handle /\ Parts(hp, h) \subseteq Own(hp)
    /\ \A k \in Live(hp) \ Parts(hp, h) : Target(hp, k) \notin Parts(hp, h)
    /\ hp.obj[h].close /\ Target(hp, h) # NULL =>
         (hp.obj[Target(hp, h)].close => Target(hp, Target(hp, h)) = NULL)

(* Where a command has its streams open. *)
Running == {"drain", "readall", "update", "finish", "emit", "close"}

(* sm2 keygen has one stream: a file, or a PASS over stdout. *)
KeygenOK ==
  job.cmd = "keygen" =>
    /\ job.i = NULL
    /\ IF job.out = "stdout"
       THEN job.o # NULL /\ ~heap.obj[job.o].close /\ Target(heap, job.o) = Out
       ELSE job.o # NULL => Target(heap, job.o) = NULL

StreamsOK ==
  /\ Mine(heap, job.i) /\ Mine(heap, job.o)
  /\ Parts(heap, job.i) \cap Parts(heap, job.o) = {}
  /\ Cardinality(Live(heap)) =
       2 + runs.lost + Cardinality(Parts(heap, job.i)) + Cardinality(Parts(heap, job.o))
  /\ KeygenOK

CountsOK ==
  /\ runs.n \in Nat /\ runs.lost \in Nat /\ {"n", "lost"} \subseteq DOMAIN runs
  /\ runs.lost <= runs.n
  /\ pc = "start" => runs.n < MaxRuns
  /\ pc \in Running => runs.lost < runs.n

IInv ==
  /\ CountsOK /\ {"cmd", "out", "i", "o"} \subseteq DOMAIN job
  /\ pc \notin Stopped => Base(heap)
  /\ pc \in Running => StreamsOK
  /\ pc \notin Running \cup Stopped => Cardinality(Live(heap)) = 2 + runs.lost

-----------------------------------------------------------------------------
(* Reading, writing and flushing leave objects and FILEs as they were made. *)
SameShape(hp, w) ==
  /\ Framed(w)
  /\ \A k \in Handle : SameObject(hp.obj[k], w.obj[k])
  /\ \A f \in Fp : w.file[f].open = hp.file[f].open

LEMMA ShapeTrans ==
  ASSUME NEW hp, NEW v, NEW w, SameShape(hp, v), SameShape(v, w)
  PROVE  SameShape(hp, w)
BY DEF SameShape, SameObject

LEMMA ShapeSelf == ASSUME NEW hp, Framed(hp) PROVE SameShape(hp, hp)
BY DEF SameShape, SameObject

LEMMA SameLive ==
  ASSUME NEW hp, Framed(hp), NEW w, SameShape(hp, w)
  PROVE  Live(w) = Live(hp) /\ Own(w) = Own(hp)
<1>1. ASSUME NEW k \in Handle PROVE w.obj[k] = Unused <=> hp.obj[k] = Unused
  <2>1. w.obj[k].type = hp.obj[k].type
    BY DEF SameShape, SameObject
  <2>2. (hp.obj[k] = Unused <=> hp.obj[k].type = "unused")
        /\ (w.obj[k] = Unused <=> w.obj[k].type = "unused")
    BY UnusedType DEF SameShape, Framed
  <2>3. QED
    BY <2>1, <2>2
<1>2. QED
  BY <1>1 DEF Live, Own

LEMMA SameBase ==
  ASSUME NEW hp, Base(hp), NEW w, SameShape(hp, w)
  PROVE  Base(w)
<1>1. Live(w) = Live(hp) /\ Own(w) = Own(hp) /\ Live(hp) \subseteq Handle /\ Own(hp) \subseteq Handle
  BY SameLive DEF Base, Live, Own
<1>2. \A k \in Handle : /\ Target(w, k) = Target(hp, k) /\ w.obj[k].type = hp.obj[k].type
                        /\ w.obj[k].close = hp.obj[k].close /\ w.obj[k].fp = hp.obj[k].fp
  BY DEF SameShape, SameObject, Target
<1>3. Framed(w) /\ \A f \in Fp : w.file[f].open = hp.file[f].open
  BY DEF SameShape
<1>4. Chained(w)
  BY <1>2, SameTargets DEF Base
<1>5. \A k \in Live(w) : Target(w, k) \in Live(w) \cup {NULL}
  BY <1>1, <1>2 DEF Base
<1>6. \A k \in {In, Out} : k \in Live(w) /\ Target(w, k) = NULL
  BY <1>1, <1>2 DEF Base
<1>7. w.file[Stdin].open /\ w.file[Stdout].open
  BY <1>3, CommandAssumption DEF Base
<1>8. \A k \in Own(w) : w.obj[k].type = "FILE" =>
        w.obj[k].close /\ Target(w, k) = NULL /\ w.obj[k].fp \in Fp \ {Stdin, Stdout}
  BY <1>1, <1>2 DEF Base
<1>9. \A f \in Fp \ {Stdin, Stdout} : w.file[f].open =>
        \E k \in Own(w) : w.obj[k].type = "FILE" /\ w.obj[k].fp = f
  BY <1>1, <1>2, <1>3 DEF Base
<1>10. QED
  BY <1>3, <1>4, <1>5, <1>6, <1>7, <1>8, <1>9 DEF Base

(* A stream is what it was. *)
LEMMA SameMine ==
  ASSUME NEW hp, Base(hp), NEW w, SameShape(hp, w), NEW h, Mine(hp, h)
  PROVE  Mine(w, h) /\ Parts(w, h) = Parts(hp, h)
<1>1. CASE h = NULL
  BY <1>1 DEF Mine, Parts
<1>2. CASE h # NULL
  <2>1. /\ h \in Handle /\ Parts(hp, h) \subseteq Own(hp)
        /\ \A k \in Live(hp) \ Parts(hp, h) : Target(hp, k) \notin Parts(hp, h)
        /\ hp.obj[h].close /\ Target(hp, h) # NULL =>
             (hp.obj[Target(hp, h)].close => Target(hp, Target(hp, h)) = NULL)
    BY <1>2 DEF Mine
  <2>2. Live(w) = Live(hp) /\ Own(w) = Own(hp) /\ Live(hp) \subseteq Handle
    BY SameLive DEF Base, Live
  <2>3. \A k \in Handle : Target(w, k) = Target(hp, k) /\ w.obj[k].close = hp.obj[k].close
    BY DEF SameShape, SameObject, Target
  <2>4. Parts(w, h) = Parts(hp, h)
    BY <2>1, <2>3 DEF Parts
  <2>5. Target(hp, h) \in Handle \cup {NULL}
    BY <2>1 DEF Base, Chained
  <2>6. Mine(w, h)
    BY <2>1, <2>2, <2>3, <2>4, <2>5 DEF Mine
  <2>7. QED
    BY <2>4, <2>6
<1>3. QED
  BY <1>1, <1>2

-----------------------------------------------------------------------------
(* stdio touches no object, and opens and closes nothing by itself. *)
SameFrame(hp, w) ==
  /\ {"obj", "file", "disk"} \subseteq DOMAIN w /\ w.obj = hp.obj
  /\ Fp \subseteq DOMAIN w.file
  /\ \A f \in Fp : "open" \in DOMAIN w.file[f] /\ w.file[f].open = hp.file[f].open

LEMMA FlushFrame ==
  ASSUME NEW hp, Framed(hp), NEW f
  PROVE  SameFrame(hp, Fflush(hp, f))
<1> DEFINE d == hp.file[f].disk
           p == [hp.file[f] EXCEPT !.buf = <<>>]
           file == [hp.file EXCEPT ![f] = p]
           disk == [hp.disk EXCEPT ![d].data = IF hp.disk[d].broken THEN @ ELSE @ \o hp.file[f].buf]
           w == [hp EXCEPT !.file = file, !.disk = disk]
<1>1. Fflush(hp, f) = w
  BY DEF Fflush
<1>2. Fp \subseteq DOMAIN file /\ \A g \in Fp : "open" \in DOMAIN file[g] /\ file[g].open = hp.file[g].open
  BY DEF Framed
<1> HIDE DEF file, disk
<1>3. {"obj", "file", "disk"} \subseteq DOMAIN w /\ w.obj = hp.obj /\ w.file = file
  BY DEF Framed
<1> HIDE DEF w
<1>4. QED
  BY <1>1, <1>2, <1>3 DEF SameFrame

LEMMA FwriteFrame ==
  ASSUME NEW hp, Framed(hp), NEW f, NEW s
  PROVE  SameFrame(hp, Fwrite(hp, f, s).hp)
<1> DEFINE d == hp.file[f].disk
           b == hp.file[f].buf \o s
           WithBuf(x) == [hp.file EXCEPT ![f] = [hp.file[f] EXCEPT !.buf = x]]
           disk == [hp.disk EXCEPT ![d].data = @ \o b]
           v == Fwrite(hp, f, s).hp
<1>1. ASSUME NEW x PROVE
        Fp \subseteq DOMAIN WithBuf(x)
        /\ \A g \in Fp : "open" \in DOMAIN WithBuf(x)[g] /\ WithBuf(x)[g].open = hp.file[g].open
  BY DEF Framed
<1>2. \/ v = hp
      \/ v = [hp EXCEPT !.file = WithBuf(b)]
      \/ v = [hp EXCEPT !.file = WithBuf(<<>>)]
      \/ v = [hp EXCEPT !.file = WithBuf(<<>>), !.disk = disk]
  BY DEF Fwrite
<1> HIDE DEF WithBuf, disk, v, b
<1>3. /\ {"obj", "file", "disk"} \subseteq DOMAIN v /\ v.obj = hp.obj
      /\ v.file = hp.file \/ v.file = WithBuf(b) \/ v.file = WithBuf(<<>>)
  BY <1>2 DEF Framed
<1>4. QED
  BY <1>1, <1>3 DEF SameFrame, Framed, v

(* So do the sources; an MBUILDER keeps what it gets. *)
LEMMA SourceShape ==
  ASSUME NEW hp, Framed(hp), NEW e \in Live(hp), NEW strs
  PROVE  SameShape(hp, SourceWrite(hp, e, strs).hp)
<1> DEFINE w == SourceWrite(hp, e, strs).hp
           x == FlattenSeq(strs)
<1>1. CASE hp.obj[e].type = "FILE"
  <2>1. w = Fwrite(hp, hp.obj[e].fp, x).hp
    BY <1>1, Zenon DEF SourceWrite, FileWrite, Taken, Refused
  <2>2. SameFrame(hp, w)
    BY <2>1, FwriteFrame
  <2>3. QED
    BY <2>2 DEF SameFrame, SameShape, SameObject, Framed
<1>2. CASE hp.obj[e].type = "MBUILDER"
  <2> DEFINE o == [hp.obj[e] EXCEPT !.data = @ \o x]
             obj == [hp.obj EXCEPT ![e] = o]
  <2>1. w = [hp EXCEPT !.obj = obj]
    BY <1>2 DEF SourceWrite, MBuilderWrite, Taken
  <2>2. {"type", "close", "target", "fp"} \subseteq DOMAIN o /\ SameObject(hp.obj[e], o)
    BY DEF Framed, Live, SameObject
  <2> HIDE DEF o, x
  <2>3. Handle \subseteq DOMAIN obj /\ \A k \in Handle : obj[k] = IF k = e THEN o ELSE hp.obj[k]
    BY DEF Framed
  <2> HIDE DEF obj
  <2>4. {"obj", "file", "disk"} \subseteq DOMAIN w /\ w.obj = obj /\ w.file = hp.file
    BY <2>1 DEF Framed
  <2> HIDE DEF w
  <2>5. hp.obj[e].type # "unused"
    BY <1>2
  <2>6. Framed(w)
    BY <2>2, <2>3, <2>4, <2>5 DEF Framed, SameObject
  <2>7. QED
    BY <2>2, <2>3, <2>4, <2>6 DEF SameShape, SameObject, w
<1>3. CASE hp.obj[e].type \notin {"FILE", "MBUILDER"}
  <2>1. w = hp
    BY <1>3, Zenon DEF SourceWrite, MemoryWrite, NullWrite, Taken, Refused
  <2>2. QED
    BY <2>1, ShapeSelf
<1>4. QED
  BY <1>1, <1>2, <1>3
-----------------------------------------------------------------------------
(* Counting what was written is no change either. *)
LEMMA ChargedShape ==
  ASSUME NEW o, {"type", "close", "target", "fp"} \subseteq DOMAIN o, NEW strs, NEW rets
  PROVE  /\ SameObject(o, Charged(o, strs, rets))
         /\ DOMAIN Charged(o, strs, rets) = DOMAIN o
<1> DEFINE touched == [o EXCEPT !.dirty = TRUE]
           Wrote(a, b) == [o EXCEPT !.dirty = TRUE, !.wrote = a, !.last = b]
           q == Charged(o, strs, rets)
<1>1. SameObject(o, touched) /\ DOMAIN touched = DOMAIN o
  BY DEF SameObject
<1>2. ASSUME NEW a, NEW b PROVE SameObject(o, Wrote(a, b)) /\ DOMAIN Wrote(a, b) = DOMAIN o
  BY DEF SameObject
<1>3. q = o \/ q = touched \/ \E a, b : q = Wrote(a, b)
  BY DEF Charged
<1> HIDE DEF touched, Wrote, q
<1>4. SameObject(o, o)
  BY DEF SameObject
<1>5. QED
  BY <1>1, <1>2, <1>3, <1>4 DEF q

ChargedOn(c, v, w, g, r) ==
  w = [v EXCEPT !.obj = [k \in Handle |-> IF k \in Range(c)
                           THEN Charged(v.obj[k], g[k], r[k]) ELSE v.obj[k]]]

LEMMA WriteForm ==
  ASSUME NEW hp, NEW h, h # NULL, NEW s
  PROVE  LET c == Chain(hp, h)
             v == SourceWrite(hp, c[Len(c)], Handed(hp, c, s)[Len(c)]).hp
         IN  \E g, r : ChargedOn(c, v, XIO_write(hp, h, s).hp, g, r)
<1> DEFINE c == Chain(hp, h)
           n == Len(c)
           strs == Handed(hp, c, s)
           end == SourceWrite(hp, c[n], strs[n])
           v == end.hp
           type(i) == hp.obj[c[i]].type
           rets[i \in 1 .. n] ==
             IF i < n THEN FilterRets(type(i), strs[i], rets[i + 1])
             ELSE FilterRets(type(n), strs[n], end.rets)
           level(h2) == CHOOSE i \in 1 .. n : c[i] = h2
           g == [k \in Handle |-> strs[level(k)]]
           r == [k \in Handle |-> rets[level(k)]]
           w == XIO_write(hp, h, s).hp
<1>1. w = [v EXCEPT !.obj = [k \in Handle |-> IF k \in Range(c)
                               THEN Charged(@[k], strs[level(k)], rets[level(k)]) ELSE @[k]]]
  BY Zenon DEF XIO_write
<1> HIDE DEF c, n, strs, end, v, rets, level, w
<1>2. \A k \in Handle : g[k] = strs[level(k)] /\ r[k] = rets[level(k)]
  OBVIOUS
<1> HIDE DEF g, r
<1>3. ChargedOn(c, v, w, g, r)
  BY <1>1, <1>2 DEF ChargedOn
<1>4. QED
  BY <1>3, Zenon DEF w, v, end, strs, n, c

LEMMA WriteShape ==
  ASSUME NEW hp, Base(hp), NEW h \in Live(hp) \cup {NULL}, NEW s
  PROVE  SameShape(hp, XIO_write(hp, h, s).hp)
<1>1. Framed(hp) /\ Chained(hp) /\ Live(hp) \subseteq Handle
  BY DEF Base, Live
<1>2. CASE h = NULL
  BY <1>1, <1>2, ShapeSelf DEF XIO_write
<1>3. CASE h # NULL
  <2> DEFINE c == Chain(hp, h)
             n == Len(c)
             strs == Handed(hp, c, s)
             end == SourceWrite(hp, c[n], strs[n])
             v == end.hp
  <2>1. h \in Live(hp)
    BY <1>3
  <2>2. c \in Seq(Handle) /\ n > 0 /\ n \in Nat /\ DOMAIN c = 1 .. n
    <3>1. c \in Seq(Handle) /\ n > 0
      BY <1>1, <2>1, ChainSteps
    <3>2. QED
      BY <3>1, LenProperties
  <2>3. \A i \in 1 .. n : c[i] \in Live(hp)
    BY <1>1, <2>1, ChainIn DEF Base
  <2>4. SameShape(hp, v)
    <3>1. c[n] \in Live(hp)
      BY <2>2, <2>3
    <3> HIDE DEF c, n, strs
    <3>2. QED
      BY <1>1, <3>1, SourceShape
  <2>5. \E g, r : ChargedOn(c, v, XIO_write(hp, h, s).hp, g, r)
    BY <1>3, WriteForm, Zenon
  <2>6. PICK g, r : ChargedOn(c, v, XIO_write(hp, h, s).hp, g, r)
    BY <2>5
  <2>7. \A k \in Handle : k \in Range(c) => k \in Live(hp)
    BY <2>2, <2>3 DEF Range
  <2> HIDE DEF c, v
  <2> DEFINE obj == [k \in Handle |-> IF k \in Range(c)
                       THEN Charged(v.obj[k], g[k], r[k]) ELSE v.obj[k]]
             w == [v EXCEPT !.obj = obj]
  <2>8. Framed(v) /\ Live(v) = Live(hp)
    BY <1>1, <2>4, SameLive DEF SameShape
  <2>9. ASSUME NEW k \in Handle PROVE
          /\ {"type", "close", "target", "fp"} \subseteq DOMAIN obj[k] /\ SameObject(v.obj[k], obj[k])
          /\ obj[k].type = "unused" => obj[k] = Unused
    <3>1. CASE k \in Range(c)
      <4>1. {"type", "close", "target", "fp"} \subseteq DOMAIN v.obj[k] /\ v.obj[k].type # "unused"
        BY <2>7, <2>8, <3>1 DEF Framed, Live
      <4> DEFINE q == Charged(v.obj[k], g[k], r[k])
      <4>2. obj[k] = q
        BY <3>1
      <4>3. SameObject(v.obj[k], q) /\ DOMAIN q = DOMAIN v.obj[k]
        BY <4>1, ChargedShape
      <4> HIDE DEF q, obj
      <4>4. QED
        BY <4>1, <4>2, <4>3 DEF SameObject
    <3>2. CASE k \notin Range(c)
      BY <2>8, <3>2 DEF Framed, SameObject
    <3>3. QED
      BY <3>1, <3>2
  <2>10. DOMAIN obj = Handle
    OBVIOUS
  <2> HIDE DEF obj
  <2>11. {"obj", "file", "disk"} \subseteq DOMAIN w /\ w.obj = obj /\ w.file = v.file
    BY <2>8 DEF Framed
  <2> HIDE DEF w
  <2>12. Framed(w)
    BY <2>8, <2>9, <2>10, <2>11 DEF Framed, SameObject
  <2>13. SameShape(v, w)
    BY <2>9, <2>11, <2>12 DEF SameShape
  <2>14. SameShape(hp, w)
    BY <2>4, <2>13, ShapeTrans
  <2>15. QED
    BY <2>6, <2>14 DEF w, obj, ChargedOn
<1>4. QED
  BY <1>2, <1>3

LEMMA ReadShape ==
  ASSUME NEW hp, Base(hp), NEW h \in Live(hp) \cup {NULL}, NEW n
  PROVE  SameShape(hp, XIO_read(hp, h, n).hp)
<1>1. Framed(hp) /\ Chained(hp) /\ Live(hp) \subseteq Handle
  BY DEF Base, Live
<1>2. CASE h = NULL
  BY <1>1, <1>2, ShapeSelf DEF XIO_read
<1>3. CASE h # NULL
  <2> DEFINE c == Chain(hp, h)
             e == Last(c)
             o == hp.obj[e]
             f == Fread(hp, o.fp, n)
             w == XIO_read(hp, h, n).hp
             moved == [hp EXCEPT !.obj[e].readn = Moved(o, n)]
  <2>1. h \in Live(hp)
    BY <1>3
  <2>2. e \in Live(hp)
    <3>1. c \in Seq(Handle) /\ Len(c) > 0 /\ Len(c) \in Nat
      BY <1>1, <2>1, ChainSteps, LenProperties
    <3>2. \A i \in 1 .. Len(c) : c[i] \in Live(hp)
      BY <1>1, <2>1, ChainIn DEF Base
    <3> HIDE DEF c
    <3>3. QED
      BY <3>1, <3>2 DEF Last
  <2>3. w = hp \/ w = f.hp \/ (o.type = "MEMORY" /\ w = moved)
    BY <1>3, Zenon DEF XIO_read
  <2>4. SameShape(hp, f.hp)
    <3> DEFINE file(p) == [hp.file EXCEPT ![o.fp] = [hp.file[o.fp] EXCEPT !.pos = p]]
               v == f.hp
    <3>1. \E p : v = [hp EXCEPT !.file = file(p)]
      <4> HIDE DEF o
      <4>1. \E p : v = [hp EXCEPT !.file[o.fp].pos = p]
        BY Zenon DEF Fread
      <4>2. QED
        BY <4>1
    <3>2. PICK p : v = [hp EXCEPT !.file = file(p)]
      BY <3>1
    <3>3. Fp \subseteq DOMAIN file(p)
          /\ \A g \in Fp : "open" \in DOMAIN file(p)[g] /\ file(p)[g].open = hp.file[g].open
      BY <1>1 DEF Framed
    <3> HIDE DEF file
    <3>4. {"obj", "file", "disk"} \subseteq DOMAIN v /\ v.obj = hp.obj /\ v.file = file(p)
      BY <1>1, <3>2 DEF Framed
    <3> HIDE DEF v
    <3>5. SameShape(hp, v)
      BY <1>1, <3>3, <3>4 DEF SameShape, Framed, SameObject
    <3>6. QED
      BY <3>5 DEF v
  <2>5. ASSUME o.type = "MEMORY" PROVE SameShape(hp, moved)
    <3> DEFINE q == [hp.obj[e] EXCEPT !.readn = Moved(o, n)]
               obj == [hp.obj EXCEPT ![e] = q]
    <3> HIDE DEF e
    <3>1. moved = [hp EXCEPT !.obj = obj]
      OBVIOUS
    <3>2. {"type", "close", "target", "fp"} \subseteq DOMAIN q /\ SameObject(hp.obj[e], q)
      BY <1>1, <2>2 DEF Framed, SameObject, Live
    <3> HIDE DEF q
    <3>3. Handle \subseteq DOMAIN obj /\ \A k \in Handle : obj[k] = IF k = e THEN q ELSE hp.obj[k]
      BY <1>1 DEF Framed
    <3> HIDE DEF obj
    <3>4. {"obj", "file", "disk"} \subseteq DOMAIN moved /\ moved.obj = obj /\ moved.file = hp.file
      BY <1>1, <3>1 DEF Framed
    <3> HIDE DEF moved
    <3>5. hp.obj[e].type # "unused"
      BY <2>5
    <3>6. Framed(moved)
      BY <1>1, <3>2, <3>3, <3>4, <3>5 DEF Framed, SameObject
    <3>7. QED
      BY <3>2, <3>3, <3>4, <3>6 DEF SameShape, SameObject
  <2>6. SameShape(hp, hp)
    BY <1>1, ShapeSelf
  <2>7. QED
    BY <2>3, <2>4, <2>5, <2>6
<1>4. QED
  BY <1>2, <1>3

LEMMA FlushShape ==
  ASSUME NEW hp, Base(hp), NEW h \in Live(hp) \cup {NULL}
  PROVE  SameShape(hp, XIO_flush(hp, h))
<1> DEFINE w == XIO_flush(hp, h)
           hp2 == IF hp.obj[h].type = "FILE" THEN Fflush(hp, hp.obj[h].fp) ELSE hp
<1>1. Framed(hp) /\ Live(hp) \subseteq Handle
  BY DEF Base, Live
<1>2. CASE w = hp
  BY <1>1, <1>2, ShapeSelf
<1>3. CASE w # hp
  <2>1. h # NULL /\ w = [hp2 EXCEPT !.obj[h].dirty = FALSE]
    BY <1>3 DEF XIO_flush
  <2>2. SameFrame(hp, hp2)
    BY <1>1, FlushFrame DEF SameFrame, Framed
  <2> HIDE DEF hp2
  <2> DEFINE q == [hp.obj[h] EXCEPT !.dirty = FALSE]
             obj == [hp.obj EXCEPT ![h] = q]
  <2>3. h \in Live(hp) /\ h \in Handle /\ hp.obj[h].type # "unused"
    BY <1>1, <2>1 DEF Framed, Live
  <2>4. w = [hp2 EXCEPT !.obj = obj]
    BY <2>1, <2>2 DEF SameFrame
  <2>5. {"type", "close", "target", "fp"} \subseteq DOMAIN q /\ SameObject(hp.obj[h], q)
    BY <1>1, <2>3 DEF Framed, SameObject
  <2> HIDE DEF q
  <2>6. Handle \subseteq DOMAIN obj /\ \A k \in Handle : obj[k] = IF k = h THEN q ELSE hp.obj[k]
    BY <1>1 DEF Framed
  <2> HIDE DEF obj
  <2>7. {"obj", "file", "disk"} \subseteq DOMAIN w /\ w.obj = obj /\ w.file = hp2.file
    BY <2>2, <2>4 DEF SameFrame
  <2> HIDE DEF w
  <2>8. Framed(w)
    BY <1>1, <2>2, <2>3, <2>5, <2>6, <2>7 DEF Framed, SameObject, SameFrame
  <2>9. SameShape(hp, w)
    BY <2>2, <2>5, <2>6, <2>7, <2>8 DEF SameShape, SameObject, SameFrame
  <2>10. QED
    BY <2>9 DEF w
<1>4. QED
  BY <1>2, <1>3
-----------------------------------------------------------------------------
(* Closing a stream of the command closes its parts, and no more. *)
LEMMA GoneIsParts ==
  ASSUME NEW hp, Base(hp), NEW h, h # NULL, Mine(hp, h)
  PROVE  /\ ClosedWith(hp, h) = Parts(hp, h)
         /\ \A k \in Parts(hp, h) : Target(hp, k) = NULL => k = XIO_get_source(hp, h)
<1> DEFINE c == Chain(hp, h)
           n == Len(c)
           t == Target(hp, h)
           With(i) == \A j \in 1 .. i - 1 : hp.obj[c[j]].close
           gone == ClosedWith(hp, h)
<1>1. h \in Handle /\ Chained(hp) /\ t \in Handle \cup {NULL} /\ hp.obj[h].close \in BOOLEAN
  BY DEF Mine, Base, Chained, Framed
<1>2. hp.obj[h].close /\ t # NULL => (hp.obj[t].close => Target(hp, t) = NULL)
  BY DEF Mine
<1>3. /\ c \in Seq(Handle) /\ n > 0 /\ c[1] = h
      /\ \A i \in 1 .. n - 1 : c[i + 1] = Target(hp, c[i])
      /\ Target(hp, c[n]) = NULL
  BY <1>1, ChainLinks
<1>4. n \in Nat /\ DOMAIN c = 1 .. n /\ XIO_get_source(hp, h) = c[n]
      /\ \A i \in 1 .. n : c[i] \in Handle
  BY <1>3, LenProperties, ElementOfSeq DEF Last, XIO_get_source
<1>5. gone = {c[i] : i \in {i \in 1 .. n : With(i)}}
  BY <1>4 DEF ClosedWith
<1>6. Parts(hp, h) = IF hp.obj[h].close /\ t # NULL THEN {h, t} ELSE {h}
  BY <1>1, NullAssumption DEF Parts
<1> HIDE DEF c, n, t, gone
<1>7. n # 1 => c[2] = t /\ t # NULL
  <2>1. SUFFICES ASSUME n # 1 PROVE c[2] = t /\ t # NULL
    OBVIOUS
  <2>2. 1 \in 1 .. n - 1 /\ 1 + 1 = 2 /\ 2 \in 1 .. n
    BY <1>3, <1>4, <2>1
  <2>3. QED
    BY <1>3, <1>4, <2>2, NullAssumption DEF t
<1>8. n = 1 => t = NULL
  BY <1>3 DEF t
<1>9. ASSUME NEW i \in 1 .. n, With(i), i # 1 PROVE i = 2 /\ hp.obj[h].close
  <2>1. i >= 2 /\ 1 \in 1 .. i - 1 /\ hp.obj[h].close /\ n # 1
    BY <1>3, <1>4, <1>9
  <2>2. ASSUME i # 2 PROVE FALSE
    <3>1. 2 \in 1 .. i - 1 /\ 2 \in 1 .. n - 1 /\ 2 + 1 = 3 /\ 3 \in 1 .. n
      BY <1>4, <2>1, <2>2
    <3>2. hp.obj[t].close /\ t # NULL /\ c[3] = Target(hp, t) /\ c[3] # NULL
      <4>1. hp.obj[c[2]].close
        BY <1>9, <3>1
      <4>2. c[3] = Target(hp, c[2]) /\ c[3] # NULL
        BY <1>3, <1>4, <3>1, NullAssumption
      <4>3. QED
        BY <1>7, <2>1, <4>1, <4>2
    <3>3. QED
      BY <1>2, <2>1, <3>2
  <2>3. QED
    BY <2>1, <2>2
<1>10. ASSUME NEW k PROVE k \in gone <=> k \in Parts(hp, h)
  <2>1. k \in gone <=> \E i \in 1 .. n : With(i) /\ k = c[i]
    BY <1>5
  <2>2. 1 \in 1 .. n /\ With(1)
    BY <1>3, <1>4
  <2>3. ASSUME hp.obj[h].close, t # NULL PROVE 2 \in 1 .. n /\ With(2)
    <3>1. 2 \in 1 .. n
      BY <1>3, <1>4, <1>8, <2>3
    <3>2. With(2)
      <4>1. \A j \in 1 .. 2 - 1 : j = 1
        OBVIOUS
      <4>2. QED
        BY <1>3, <2>3, <4>1
    <3>3. QED
      BY <3>1, <3>2
  <2> HIDE DEF With
  <2>4. ASSUME NEW i \in 1 .. n, With(i), k = c[i] PROVE k \in Parts(hp, h)
    <3>1. CASE i = 1
      BY <1>3, <1>6, <2>4, <3>1
    <3>2. CASE i # 1
      <4>1. i = 2 /\ hp.obj[h].close
        BY <1>9, <2>4, <3>2
      <4>2. n # 1
        BY <2>4, <4>1
      <4>3. QED
        BY <1>6, <1>7, <2>4, <4>1, <4>2
    <3>3. QED
      BY <3>1, <3>2
  <2>5. ASSUME k \in Parts(hp, h) PROVE k \in gone
    <3>1. CASE k = h
      BY <1>3, <2>1, <2>2, <3>1
    <3>2. CASE k # h
      <4>1. hp.obj[h].close /\ t # NULL /\ k = t
        BY <1>6, <2>5, <3>2
      <4>2. 2 \in 1 .. n /\ With(2) /\ c[2] = t
        BY <1>4, <1>7, <2>3, <4>1
      <4>3. QED
        BY <2>1, <4>1, <4>2
    <3>3. QED
      BY <3>1, <3>2
  <2>6. QED
    BY <2>1, <2>4, <2>5
<1>11. ASSUME NEW k \in Parts(hp, h), Target(hp, k) = NULL PROVE k = c[n]
  <2>1. k \in gone
    BY <1>10
  <2>2. PICK i \in 1 .. n : k = c[i]
    BY <1>5, <2>1
  <2>3. ASSUME i # n PROVE FALSE
    <3>1. i \in 1 .. n - 1 /\ i + 1 \in 1 .. n
      BY <1>4, <2>3
    <3>2. c[i + 1] = NULL /\ c[i + 1] \in Handle
      BY <1>3, <1>4, <1>11, <2>2, <3>1
    <3>3. QED
      BY <3>2, NullAssumption
  <2>4. QED
    BY <2>2, <2>3
<1>12. QED
  BY <1>4, <1>10, <1>11 DEF gone

(* Of the FILEs, the one its source owns is closed. *)
LEMMA CloseFrame ==
  ASSUME NEW hp, Framed(hp), NEW f
  PROVE  LET w == Fclose(hp, f)
         IN  /\ {"obj", "file", "disk"} \subseteq DOMAIN w /\ w.obj = hp.obj
             /\ Fp \subseteq DOMAIN w.file
             /\ \A g \in Fp : /\ "open" \in DOMAIN w.file[g] /\ w.file[g].open \in BOOLEAN
                              /\ w.file[g].open <=> hp.file[g].open /\ g # f
<1> DEFINE v == Fflush(hp, f)
           w == [v EXCEPT !.file[f] = Closed]
<1>1. SameFrame(hp, v)
  BY FlushFrame
<1>2. Fclose(hp, f) = w
  BY DEF Fclose
<1> HIDE DEF v
<1> DEFINE file == [v.file EXCEPT ![f] = Closed]
<1>3. {"obj", "file", "disk"} \subseteq DOMAIN w /\ w.obj = hp.obj /\ w.file = file
  BY <1>1 DEF SameFrame
<1>4. Fp \subseteq DOMAIN file /\ \A g \in Fp : file[g] = IF g = f THEN Closed ELSE v.file[g]
  BY <1>1 DEF SameFrame
<1> HIDE DEF w, file
<1>5. "open" \in DOMAIN Closed /\ Closed.open = FALSE
  BY DEF Closed
<1>6. ASSUME NEW g \in Fp PROVE
        /\ "open" \in DOMAIN w.file[g] /\ w.file[g].open \in BOOLEAN
        /\ w.file[g].open <=> hp.file[g].open /\ g # f
  <2>1. CASE g = f
    BY <1>3, <1>4, <1>5, <2>1
  <2>2. CASE g # f
    <3>1. w.file[g] = v.file[g]
      BY <1>3, <1>4, <2>2
    <3>2. "open" \in DOMAIN v.file[g] /\ v.file[g].open = hp.file[g].open /\ hp.file[g].open \in BOOLEAN
      BY <1>1 DEF SameFrame, Framed
    <3>3. QED
      BY <2>2, <3>1, <3>2
  <2>3. QED
    BY <2>1, <2>2
<1>7. QED
  BY <1>2, <1>3, <1>4, <1>6

LEMMA CloseStream ==
  ASSUME NEW hp, Base(hp), NEW h, h # NULL, Mine(hp, h), NEW w, w = XIO_close(hp, h)
  PROVE  /\ Base(w) /\ Live(w) = Live(hp) \ Parts(hp, h)
         /\ \A k \in Handle \ Parts(hp, h) : w.obj[k] = hp.obj[k]
<1> DEFINE P == Parts(hp, h)
           e == XIO_get_source(hp, h)
           o == hp.obj[e]
           shut == e \in P /\ o.type = "FILE"
           hp2 == IF shut THEN Fclose(hp, o.fp) ELSE hp
           obj == [k \in Handle |-> IF k \in P THEN Unused ELSE hp2.obj[k]]
<1>1. /\ P \subseteq Own(hp) /\ Own(hp) \subseteq Live(hp) /\ Live(hp) \subseteq Handle
      /\ In \notin P /\ Out \notin P /\ h \in Handle
      /\ \A k \in Live(hp) \ P : Target(hp, k) \notin P
  BY DEF Mine, Own, Live
<1>2. /\ ClosedWith(hp, h) = P
      /\ \A k \in P : Target(hp, k) = NULL => k = e
  BY GoneIsParts
<1>3. shut => o.close /\ Target(hp, e) = NULL /\ o.fp \in Fp \ {Stdin, Stdout}
  BY <1>1 DEF Base
<1> HIDE DEF P
<1>4. w = [hp2 EXCEPT !.obj = obj]
  <2>1. w = [(IF e \notin P \/ o.type # "FILE" THEN hp
              ELSE IF o.close THEN Fclose(hp, o.fp) ELSE XIO_flush(hp, e))
               EXCEPT !.obj = [k \in Handle |-> IF k \in P THEN Unused ELSE @[k]]]
    BY <1>2, Zenon DEF XIO_close
  <2> HIDE DEF e, o
  <2>2. QED
    BY <1>3, <2>1
<1>5. /\ {"obj", "file", "disk"} \subseteq DOMAIN hp2 /\ hp2.obj = hp.obj
      /\ Fp \subseteq DOMAIN hp2.file
      /\ \A g \in Fp : /\ "open" \in DOMAIN hp2.file[g] /\ hp2.file[g].open \in BOOLEAN
                       /\ hp2.file[g].open <=> hp.file[g].open /\ ~(shut /\ g = o.fp)
  <2> HIDE DEF o, e
  <2>1. Framed(hp)
    BY DEF Base
  <2>2. CASE shut
    <3> DEFINE v == Fclose(hp, o.fp)
    <3>1. /\ {"obj", "file", "disk"} \subseteq DOMAIN v /\ v.obj = hp.obj
          /\ Fp \subseteq DOMAIN v.file
          /\ \A g \in Fp : /\ "open" \in DOMAIN v.file[g] /\ v.file[g].open \in BOOLEAN
                           /\ v.file[g].open <=> hp.file[g].open /\ g # o.fp
      BY <2>1, CloseFrame
    <3>2. hp2 = v
      BY <2>2
    <3> HIDE DEF v, hp2, shut
    <3>3. QED
      BY <2>2, <3>1, <3>2
  <2>3. CASE ~shut
    <3>1. hp2 = hp
      BY <2>3
    <3> HIDE DEF hp2, shut
    <3>2. QED
      BY <2>1, <2>3, <3>1 DEF Framed
  <2>4. QED
    BY <2>2, <2>3
<1> HIDE DEF hp2
<1>6. \A k \in Handle : obj[k] = IF k \in P THEN Unused ELSE hp.obj[k]
  BY <1>5
<1>7. DOMAIN obj = Handle
  OBVIOUS
<1> HIDE DEF obj
<1>8. {"obj", "file", "disk"} \subseteq DOMAIN w /\ w.obj = obj /\ w.file = hp2.file
  BY <1>4, <1>5
<1>9. {"type", "close", "target", "fp"} \subseteq DOMAIN Unused /\ Unused.close = FALSE
  BY DEF Unused
<1>10. Framed(w)
  <2>1. ASSUME NEW k \in Handle PROVE
          /\ {"type", "close", "target", "fp"} \subseteq DOMAIN w.obj[k]
          /\ w.obj[k].close \in BOOLEAN
          /\ w.obj[k].type = "unused" => w.obj[k] = Unused
    <3>1. CASE k \in P
      <4>1. w.obj[k] = Unused
        BY <1>6, <1>8, <3>1
      <4>2. QED
        BY <1>9, <4>1
    <3>2. CASE k \notin P
      <4>1. w.obj[k] = hp.obj[k]
        BY <1>6, <1>8, <3>2
      <4>2. QED
        BY <4>1 DEF Framed, Base
    <3>3. QED
      BY <3>1, <3>2
  <2>2. Handle \subseteq DOMAIN w.obj /\ Fp \subseteq DOMAIN w.file
    BY <1>5, <1>7, <1>8
  <2>3. \A f \in Fp : "open" \in DOMAIN w.file[f] /\ w.file[f].open \in BOOLEAN
    BY <1>5, <1>8
  <2>4. QED
    BY <1>8, <2>1, <2>2, <2>3 DEF Framed
<1>11. Live(w) = Live(hp) \ P /\ Own(w) = Own(hp) \ P
  BY <1>1, <1>6, <1>8 DEF Live, Own
<1>12. \A k \in Handle : /\ k \in P => Target(w, k) = NULL
                         /\ k \notin P => Target(w, k) = Target(hp, k) /\ w.obj[k] = hp.obj[k]
  BY <1>6, <1>8, UnusedType DEF Target
<1>13. ASSUME NEW k \in Handle \ P PROVE Target(hp, k) \notin P
  <2>1. CASE k \in Live(hp)
    BY <1>1, <2>1
  <2>2. CASE k \notin Live(hp)
    <3>1. Target(hp, k) = NULL
      BY <2>2, UnusedType DEF Live, Target
    <3>2. QED
      BY <1>1, <3>1, NullAssumption
  <2>3. QED
    BY <2>1, <2>2
<1>14. Chained(w)
  <2>1. P \subseteq Handle /\ Chained(hp) /\ \A k \in Handle : Target(hp, k) \in Handle \cup {NULL}
    BY <1>1 DEF Base, Chained
  <2>2. \A k \in P : Target(w, k) = NULL
    BY <1>1, <1>12
  <2>3. \A k \in Handle \ P : Target(w, k) = Target(hp, k) /\ Target(hp, k) \notin P
    BY <1>12, <1>13
  <2>4. QED
    BY <2>1, <2>2, <2>3, FreeChained
<1>15. \A k \in Live(w) : Target(w, k) \in Live(w) \cup {NULL}
  BY <1>1, <1>11, <1>12, <1>13 DEF Base
<1>16. \A k \in {In, Out} : k \in Live(w) /\ Target(w, k) = NULL
  BY <1>1, <1>11, <1>12 DEF Base
<1>17. w.file[Stdin].open /\ w.file[Stdout].open
  BY <1>3, <1>5, <1>8, CommandAssumption DEF Base
<1>18. \A k \in Own(w) : w.obj[k].type = "FILE" =>
         w.obj[k].close /\ Target(w, k) = NULL /\ w.obj[k].fp \in Fp \ {Stdin, Stdout}
  BY <1>1, <1>11, <1>12 DEF Base
<1>19. ASSUME NEW f \in Fp \ {Stdin, Stdout}, w.file[f].open
       PROVE  \E k \in Own(w) : w.obj[k].type = "FILE" /\ w.obj[k].fp = f
  <2>1. hp.file[f].open /\ ~(shut /\ f = o.fp)
    BY <1>5, <1>8, <1>19
  <2>2. PICK k \in Own(hp) : hp.obj[k].type = "FILE" /\ hp.obj[k].fp = f
    BY <2>1 DEF Base
  <2>3. k \notin P
    <3>1. SUFFICES ASSUME k \in P PROVE FALSE
      OBVIOUS
    <3>2. Target(hp, k) = NULL
      BY <2>2 DEF Base
    <3>3. k = e
      BY <1>2, <3>1, <3>2
    <3>4. QED
      BY <2>1, <2>2, <3>1, <3>3
  <2>4. QED
    BY <1>1, <1>11, <1>12, <2>2, <2>3
<1>20. Base(w)
  BY <1>10, <1>14, <1>15, <1>16, <1>17, <1>18, <1>19 DEF Base
<1>21. QED
  BY <1>11, <1>12, <1>20 DEF P
-----------------------------------------------------------------------------
(* What a constructor gives: one more object, and its FILE if it is a file. *)
Adds(hp, w, h, o) ==
  /\ {"obj", "file", "disk"} \subseteq DOMAIN w
  /\ Handle \subseteq DOMAIN w.obj /\ Fp \subseteq DOMAIN w.file
  /\ w.obj[h] = o /\ \A k \in Handle \ {h} : w.obj[k] = hp.obj[k]
  /\ \A f \in Fp : /\ "open" \in DOMAIN w.file[f] /\ w.file[f].open \in BOOLEAN
                   /\ w.file[f].open <=> hp.file[f].open \/ (o.type = "FILE" /\ f = o.fp)

IsObject(o) ==
  /\ {"type", "close", "target", "fp"} \subseteq DOMAIN o /\ o.close \in BOOLEAN
  /\ o.type # "unused"
  /\ o.type = "FILE" => o.close /\ o.target = NULL /\ o.fp \in Fp \ {Stdin, Stdout}

LEMMA AddBase ==
  ASSUME NEW hp, Base(hp), NEW h \in FreeObj(hp), NEW o, IsObject(o),
         o.target \in Live(hp) \cup {NULL}, NEW w, Adds(hp, w, h, o)
  PROVE  Base(w) /\ Live(w) = Live(hp) \cup {h}
<1>1. h \in Handle /\ h \notin Live(hp) /\ Live(hp) \subseteq Handle /\ h # In /\ h # Out
  BY CommandAssumption DEF FreeObj, Base, Live
<1>2. \A k \in Handle : w.obj[k] = IF k = h THEN o ELSE hp.obj[k]
  BY DEF Adds
<1>3. o # Unused /\ o.type # "unused"
  BY UnusedType DEF IsObject
<1>4. Live(w) = Live(hp) \cup {h} /\ Own(w) = Own(hp) \cup {h}
  BY <1>1, <1>2, <1>3 DEF Live, Own
<1>5. Framed(w)
  <2>1. ASSUME NEW k \in Handle PROVE
          /\ {"type", "close", "target", "fp"} \subseteq DOMAIN w.obj[k]
          /\ w.obj[k].close \in BOOLEAN
          /\ w.obj[k].type = "unused" => w.obj[k] = Unused
    <3>1. CASE k = h
      <4>1. w.obj[k] = o
        BY <1>2, <3>1
      <4>2. QED
        BY <4>1 DEF IsObject
    <3>2. CASE k # h
      <4>1. w.obj[k] = hp.obj[k]
        BY <1>2, <3>2
      <4>2. QED
        BY <4>1 DEF Framed, Base
    <3>3. QED
      BY <3>1, <3>2
  <2>2. QED
    BY <2>1 DEF Framed, Adds
<1>6. \A k \in Handle : Target(w, k) = IF k = h THEN o.target ELSE Target(hp, k)
  BY <1>2 DEF Target
<1>7. ASSUME NEW k \in Handle PROVE Target(hp, k) # h /\ Target(hp, k) \in Handle \cup {NULL}
  <2>1. CASE k \in Live(hp)
    BY <1>1, <2>1, NullAssumption DEF Base
  <2>2. CASE k \notin Live(hp)
    <3>1. Target(hp, k) = NULL
      BY <2>2, UnusedType DEF Live, Target
    <3>2. QED
      BY <1>1, <3>1, NullAssumption
  <2>3. QED
    BY <2>1, <2>2
<1>8. o.target # h /\ o.target \in Handle \cup {NULL}
  BY <1>1, NullAssumption
<1>9. Chained(w)
  <2>1. /\ \A k \in Handle \ {h} : Target(w, k) = Target(hp, k) /\ Target(w, k) # h
        /\ \A k \in Handle : Target(w, k) \in Handle \cup {NULL}
        /\ Target(w, h) # h /\ Chained(hp)
    BY <1>1, <1>6, <1>7, <1>8 DEF Base
  <2>2. QED
    BY <1>1, <2>1, AllocChained
<1>10. \A k \in Live(w) : Target(w, k) \in Live(w) \cup {NULL}
  BY <1>1, <1>4, <1>6 DEF Base
<1>11. \A k \in {In, Out} : k \in Live(w) /\ Target(w, k) = NULL
  BY <1>1, <1>4, <1>6 DEF Base
<1>12. w.file[Stdin].open /\ w.file[Stdout].open
  BY CommandAssumption DEF Base, Adds
<1>13. \A k \in Own(w) : w.obj[k].type = "FILE" =>
         w.obj[k].close /\ Target(w, k) = NULL /\ w.obj[k].fp \in Fp \ {Stdin, Stdout}
  BY <1>1, <1>2, <1>4, <1>6 DEF Base, IsObject, Own
<1>14. ASSUME NEW f \in Fp \ {Stdin, Stdout}, w.file[f].open
       PROVE  \E k \in Own(w) : w.obj[k].type = "FILE" /\ w.obj[k].fp = f
  <2>1. CASE o.type = "FILE" /\ f = o.fp
    BY <1>1, <1>2, <1>4, <2>1
  <2>2. CASE hp.file[f].open
    <3>1. PICK k \in Own(hp) : hp.obj[k].type = "FILE" /\ hp.obj[k].fp = f
      BY <2>2 DEF Base
    <3>2. k \in Handle /\ k # h /\ k \in Own(w)
      BY <1>1, <1>4 DEF Own
    <3>3. QED
      BY <1>2, <3>1, <3>2
  <2>3. QED
    BY <1>14, <2>1, <2>2 DEF Adds
<1>15. Base(w)
  BY <1>5, <1>9, <1>10, <1>11, <1>12, <1>13, <1>14 DEF Base
<1>16. QED
  BY <1>4, <1>15

(* A stream st made of hp: its parts are new, and rest on each other or on the *)
(* program's streams; a plain one has one part.                                *)
Made(hp, st) ==
  /\ Base(st.hp) /\ Mine(st.hp, st.h)
  /\ Live(st.hp) = Live(hp) \cup Parts(st.hp, st.h)
  /\ Parts(st.hp, st.h) \cap Live(hp) = {}
  /\ \A k \in Live(hp) : st.hp.obj[k] = hp.obj[k]
  /\ \A k \in Parts(st.hp, st.h) : Target(st.hp, k) \in Parts(st.hp, st.h) \cup {NULL, In, Out}
Plain(st) ==
  st.h # NULL /\ st.hp.obj[st.h].close => Target(st.hp, st.h) = NULL

LEMMA AddPlain ==
  ASSUME NEW hp, Base(hp), NEW h \in FreeObj(hp), NEW o, IsObject(o),
         o.target \in {NULL, In, Out}, o.close => o.target = NULL,
         NEW w, Adds(hp, w, h, o)
  PROVE  Made(hp, Stream(w, h)) /\ Plain(Stream(w, h))
<1>1. h \in Handle /\ h \notin Live(hp) /\ Live(hp) \subseteq Handle /\ h # NULL
  BY NullAssumption DEF FreeObj, Live
<1>2. In \in Live(hp) /\ Out \in Live(hp) /\ \A k \in Live(hp) : Target(hp, k) \in Live(hp) \cup {NULL}
  BY DEF Base
<1>3. Base(w) /\ Live(w) = Live(hp) \cup {h}
  <2>1. o.target \in Live(hp) \cup {NULL}
    BY <1>2
  <2>2. QED
    BY <2>1, AddBase
<1>4. /\ w.obj[h] = o /\ Target(w, h) = o.target
      /\ \A k \in Live(hp) : w.obj[k] = hp.obj[k] /\ Target(w, k) = Target(hp, k)
  BY <1>1 DEF Adds, Target
<1>5. Parts(w, h) = {h}
  BY <1>1, <1>4 DEF Parts
<1>6. Mine(w, h)
  <2>1. h \in Own(w)
    BY <1>1, <1>2, <1>3 DEF Own
  <2>2. \A k \in Live(w) \ {h} : Target(w, k) # h
    BY <1>1, <1>2, <1>3, <1>4
  <2>3. QED
    BY <1>1, <1>4, <1>5, <2>1, <2>2 DEF Mine
<1>7. Stream(w, h).hp = w /\ Stream(w, h).h = h
  BY DEF Stream
<1> DEFINE st == Stream(w, h)
<1> HIDE DEF st
<1>8. Made(hp, st)
  BY <1>1, <1>3, <1>4, <1>5, <1>6, <1>7 DEF Made, st
<1>9. Plain(st)
  BY <1>4, <1>7 DEF Plain, st
<1>10. QED
  BY <1>8, <1>9 DEF st

LEMMA AllocAdds ==
  ASSUME NEW hp, Base(hp), NEW h \in Handle, NEW o, o.type # "FILE"
  PROVE  Adds(hp, Alloc(hp, h, o), h, o)
<1> DEFINE obj == [hp.obj EXCEPT ![h] = o]
           w == Alloc(hp, h, o)
<1>1. w = [hp EXCEPT !.obj = obj]
  BY DEF Alloc
<1>2. Framed(hp)
  BY DEF Base
<1>3. Handle \subseteq DOMAIN obj /\ \A k \in Handle : obj[k] = IF k = h THEN o ELSE hp.obj[k]
  BY <1>2 DEF Framed
<1> HIDE DEF obj, w
<1>4. {"obj", "file", "disk"} \subseteq DOMAIN w /\ w.obj = obj /\ w.file = hp.file
  BY <1>1, <1>2 DEF Framed
<1>5. Adds(hp, w, h, o)
  BY <1>2, <1>3, <1>4 DEF Adds, Framed
<1>6. QED
  BY <1>5 DEF w

LEMMA FileAdds ==
  ASSUME NEW hp, Base(hp), NEW h \in Handle, NEW f \in Fp, NEW d, NEW mode,
         NEW o, o = [Unused EXCEPT !.type = "FILE", !.fp = f, !.close = TRUE]
  PROVE  Adds(hp, XIO_new_file(hp, h, f, d, mode), h, o)
<1> DEFINE new == [Closed EXCEPT !.open = TRUE, !.mode = mode, !.disk = d]
           file == [hp.file EXCEPT ![f] = new]
           disk == [hp.disk EXCEPT ![d].data = IF mode = "wb" THEN <<>> ELSE @]
           obj == [hp.obj EXCEPT ![h] = o]
           v == [hp EXCEPT !.file = file, !.disk = disk]
           w == [v EXCEPT !.obj = obj]
<1>1. XIO_new_file(hp, h, f, d, mode) = w
  <2>1. XIO_new_file(hp, h, f, d, mode) = [v EXCEPT !.obj[h] = o]
    BY DEF XIO_new_file, XIO_new_fp, Alloc, Fopen
  <2>2. v.obj = hp.obj
    BY DEF Base, Framed
  <2> HIDE DEF v
  <2>3. QED
    BY <2>1, <2>2
<1>2. Framed(hp)
  BY DEF Base
<1>3. "open" \in DOMAIN new /\ new.open = TRUE
  BY DEF Closed
<1>4. o.type = "FILE" /\ o.fp = f
  BY DEF Unused
<1> HIDE DEF new, disk
<1>5. Handle \subseteq DOMAIN obj /\ \A k \in Handle : obj[k] = IF k = h THEN o ELSE hp.obj[k]
  BY <1>2 DEF Framed
<1>6. Fp \subseteq DOMAIN file /\ \A g \in Fp : file[g] = IF g = f THEN new ELSE hp.file[g]
  BY <1>2 DEF Framed
<1> HIDE DEF obj, file
<1>7. {"obj", "file", "disk"} \subseteq DOMAIN w /\ w.obj = obj /\ w.file = file
  BY <1>2 DEF Framed
<1> HIDE DEF w
<1>8. Adds(hp, w, h, o)
  <2>1. w.obj[h] = o /\ \A k \in Handle \ {h} : w.obj[k] = hp.obj[k]
    BY <1>5, <1>7
  <2> HIDE DEF v
  <2>2. ASSUME NEW g \in Fp
        PROVE  /\ "open" \in DOMAIN w.file[g] /\ w.file[g].open \in BOOLEAN
               /\ w.file[g].open <=> hp.file[g].open \/ (o.type = "FILE" /\ g = o.fp)
    <3>1. w.file[g] = IF g = f THEN new ELSE hp.file[g]
      BY <1>6, <1>7
    <3>2. CASE g = f
      <4>1. w.file[g] = new
        BY <3>1, <3>2
      <4>2. QED
        BY <1>3, <1>4, <3>2, <4>1
    <3>3. CASE g # f
      <4>1. w.file[g] = hp.file[g]
        BY <3>1, <3>3
      <4>2. "open" \in DOMAIN hp.file[g] /\ hp.file[g].open \in BOOLEAN
        BY <1>2 DEF Framed
      <4>3. QED
        BY <1>4, <3>3, <4>1, <4>2
    <3>4. QED
      BY <3>2, <3>3
  <2>3. Handle \subseteq DOMAIN w.obj /\ Fp \subseteq DOMAIN w.file
    BY <1>5, <1>6, <1>7
  <2>4. QED
    BY <1>7, <2>1, <2>2, <2>3 DEF Adds
<1>9. QED
  BY <1>1, <1>8
-----------------------------------------------------------------------------
(* There is room: Live is what counts, and each open FILE belongs to one of it. *)
LEMMA LiveFinite ==
  ASSUME NEW hp
  PROVE  IsFiniteSet(Live(hp)) /\ Cardinality(Live(hp)) \in Nat /\ Live(hp) \in SUBSET Handle
<1>1. Live(hp) \in SUBSET Handle
  BY DEF Live
<1>2. IsFiniteSet(Live(hp))
  BY <1>1, FS_Subset, RoomAssumption
<1>3. QED
  BY <1>1, <1>2, FS_CardinalityType

LEMMA FreshFree ==
  ASSUME NEW hp, Cardinality(Live(hp)) < Cardinality(Handle)
  PROVE  Fresh(hp) \in FreeObj(hp)
<1>1. Live(hp) # Handle /\ Live(hp) \subseteq Handle
  <2>1. Live(hp) \subseteq Handle
    BY DEF Live
  <2>2. ASSUME Live(hp) = Handle PROVE FALSE
    <3>1. Cardinality(Handle) < Cardinality(Handle) /\ Cardinality(Handle) \in Nat
      BY <2>2, RoomAssumption, FS_CardinalityType
    <3>2. QED
      BY <3>1
  <2>3. QED
    BY <2>1, <2>2
<1>2. \E h : h \in FreeObj(hp)
  BY <1>1 DEF FreeObj
<1>3. QED
  BY <1>2, Zenon DEF Fresh

LEMMA FreshFpFree ==
  ASSUME NEW hp, Base(hp), Cardinality(Live(hp)) < Cardinality(Fp)
  PROVE  FreshFp(hp) \in Fp \ {Stdin, Stdout} /\ ~hp.file[FreshFp(hp)].open
<1> DEFINE used == {f \in Fp : hp.file[f].open}
           owner == [f \in used |-> IF f = Stdin THEN In ELSE IF f = Stdout THEN Out
                       ELSE CHOOSE k \in Own(hp) : hp.obj[k].fp = f]
<1>1. ASSUME NEW f \in used, f # Stdin, f # Stdout
      PROVE  owner[f] \in Own(hp) /\ hp.obj[owner[f]].fp = f
  <2>1. \E k \in Own(hp) : hp.obj[k].fp = f
    BY <1>1 DEF Base
  <2>2. owner[f] = CHOOSE k \in Own(hp) : hp.obj[k].fp = f
    BY <1>1
  <2> HIDE DEF owner
  <2>3. QED
    BY <2>1, <2>2
<1>2. (Stdin \in used => owner[Stdin] = In) /\ (Stdout \in used => owner[Stdout] = Out)
  BY CommandAssumption
<1>3. owner = [f \in used |-> owner[f]]
  OBVIOUS
<1> HIDE DEF owner, used
<1>4. In \in Live(hp) /\ Out \in Live(hp) /\ In # Out
      /\ Own(hp) \subseteq Live(hp) /\ In \notin Own(hp) /\ Out \notin Own(hp)
  BY CommandAssumption DEF Base, Own
<1>5. owner \in [used -> Live(hp)]
  <2>1. \A f \in used : owner[f] \in Live(hp)
    BY <1>1, <1>2, <1>4
  <2>2. QED
    BY <1>3, <2>1
<1>6. ASSUME NEW f \in used, NEW g \in used, owner[f] = owner[g] PROVE f = g
  <2>1. CASE f = Stdin \/ f = Stdout
    BY <1>1, <1>2, <1>4, <1>6, <2>1
  <2>2. CASE f # Stdin /\ f # Stdout
    BY <1>1, <1>2, <1>4, <1>6, <2>2
  <2>3. QED
    BY <2>1, <2>2
<1>7. owner \in Injection(used, Live(hp))
  BY <1>5, <1>6 DEF Injection, IsInjective
<1>8. Cardinality(used) <= Cardinality(Live(hp))
  BY <1>7, FS_Injection, LiveFinite
<1>9. \E f : f \in FreeFp(hp)
  <2>1. SUFFICES ASSUME FreeFp(hp) = {} PROVE FALSE
    OBVIOUS
  <2>2. used = Fp
    BY <2>1 DEF FreeFp, used
  <2>3. Cardinality(Live(hp)) \in Nat /\ Cardinality(Fp) \in Nat
    BY LiveFinite, FS_CardinalityType, RoomAssumption
  <2>4. QED
    BY <1>8, <2>2, <2>3
<1>10. FreshFp(hp) \in FreeFp(hp)
  BY <1>9, Zenon DEF FreshFp
<1>11. QED
  BY <1>10 DEF FreeFp, Base

-----------------------------------------------------------------------------
(* The streams of a command. *)
LEMMA MadeFile ==
  ASSUME NEW hp, Base(hp), NEW h, h = Fresh(hp), NEW f, f = FreshFp(hp), NEW d, NEW mode,
         Cardinality(Live(hp)) < Cardinality(Handle), Cardinality(Live(hp)) < Cardinality(Fp),
         NEW w, w = XIO_new_file(hp, h, f, d, mode)
  PROVE  /\ Made(hp, Stream(w, h)) /\ Plain(Stream(w, h)) /\ Target(w, h) = NULL /\ h # NULL
<1> DEFINE o == [Unused EXCEPT !.type = "FILE", !.fp = f, !.close = TRUE]
<1>1. h \in FreeObj(hp) /\ h \in Handle /\ h # NULL
  BY FreshFree, NullAssumption DEF FreeObj
<1>2. f \in Fp \ {Stdin, Stdout}
  BY FreshFpFree
<1>3. IsObject(o) /\ o.target = NULL
  BY <1>2 DEF IsObject, Unused
<1>4. Adds(hp, w, h, o)
  BY <1>1, <1>2, FileAdds
<1> HIDE DEF o
<1>5. Target(w, h) = NULL
  BY <1>3, <1>4 DEF Adds, Target
<1>6. Made(hp, Stream(w, h)) /\ Plain(Stream(w, h))
  BY <1>1, <1>3, <1>4, AddPlain
<1>7. QED
  BY <1>1, <1>5, <1>6

(* A memory, nothing, or a PASS over a stream of the program. *)
LEMMA MadeOther ==
  ASSUME NEW hp, Base(hp), NEW h, h = Fresh(hp), Cardinality(Live(hp)) < Cardinality(Handle),
         NEW o, IsObject(o), o.type # "FILE", o.target \in {NULL, In, Out}, o.close => o.target = NULL,
         NEW w, w = Alloc(hp, h, o)
  PROVE  /\ Made(hp, Stream(w, h)) /\ Plain(Stream(w, h)) /\ h # NULL
         /\ Target(w, h) = o.target /\ w.obj[h].close = o.close
<1>1. h \in FreeObj(hp) /\ h \in Handle /\ h # NULL
  BY FreshFree, NullAssumption DEF FreeObj
<1>2. Adds(hp, w, h, o)
  BY <1>1, AllocAdds
<1>3. Made(hp, Stream(w, h)) /\ Plain(Stream(w, h))
  BY <1>1, <1>2, AddPlain
<1>4. QED
  BY <1>1, <1>2, <1>3 DEF Adds, Target

LEMMA MadeNone ==
  ASSUME NEW hp, Base(hp) PROVE Made(hp, Stream(hp, NULL)) /\ Plain(Stream(hp, NULL))
BY DEF Made, Plain, Stream, Mine, Parts

LEMMA InStream ==
  ASSUME NEW hp, Base(hp), NEW kind \in AnyIn \cup {"none"},
         Cardinality(Live(hp)) < Cardinality(Handle), Cardinality(Live(hp)) < Cardinality(Fp)
  PROVE  LET st == cmd_get_instream(hp, kind)
         IN  Made(hp, st) /\ Plain(st) /\ (kind = "none" => st = Stream(hp, NULL))
<1> DEFINE st == cmd_get_instream(hp, kind)
           h == Fresh(hp)
<1>1. CASE kind = "text"
  <2> DEFINE o == [Unused EXCEPT !.type = "MEMORY", !.data = hp.disk[InDisk].data]
             w == Alloc(hp, h, o)
  <2>1. st = Stream(w, h)
    BY <1>1, Zenon DEF cmd_get_instream, XIO_new_memory
  <2>2. IsObject(o) /\ o.type # "FILE" /\ o.target = NULL
    BY DEF IsObject, Unused
  <2> HIDE DEF o, w, st, h
  <2>3. Made(hp, Stream(w, h)) /\ Plain(Stream(w, h))
    BY <2>2, MadeOther DEF w, h
  <2>4. QED
    BY <1>1, <2>1, <2>3 DEF st
<1>2. CASE kind = "file"
  <2> DEFINE w == XIO_new_file(hp, h, FreshFp(hp), InDisk, "rb")
  <2>1. st = Stream(w, h)
    BY <1>2, Zenon DEF cmd_get_instream
  <2>2. Made(hp, Stream(w, h)) /\ Plain(Stream(w, h))
    BY MadeFile
  <2> HIDE DEF w, st, h
  <2>3. QED
    BY <1>2, <2>1, <2>2 DEF st
<1>3. CASE kind = "missing" \/ kind = "none"
  <2>1. st = Stream(hp, NULL)
    BY <1>3, Zenon DEF cmd_get_instream
  <2> HIDE DEF st
  <2>2. QED
    BY <2>1, MadeNone DEF st
<1>4. CASE kind = "stdin"
  <2> DEFINE o == [Unused EXCEPT !.type = "PASS", !.close = FALSE, !.target = In]
             w == Alloc(hp, h, o)
  <2>1. st = Stream(w, h)
    BY <1>4, Zenon DEF cmd_get_instream, XIO_newf_pass, NewFilter
  <2>2. IsObject(o) /\ o.type # "FILE" /\ o.target = In /\ o.close = FALSE
    BY DEF IsObject, Unused
  <2> HIDE DEF o, w, st, h
  <2>3. Made(hp, Stream(w, h)) /\ Plain(Stream(w, h))
    BY <2>2, MadeOther DEF w, h
  <2>4. QED
    BY <1>4, <2>1, <2>3 DEF st
<1>5. QED
  BY <1>1, <1>2, <1>3, <1>4 DEF AnyIn

(* An output is a stream without a target, or a PASS over stdout. *)
OverOut(st) == st.h # NULL /\ ~st.hp.obj[st.h].close /\ Target(st.hp, st.h) = Out

LEMMA OutStream ==
  ASSUME NEW hp, Base(hp), NEW kind \in ToFile \cup {"noout"},
         Cardinality(Live(hp)) < Cardinality(Handle), Cardinality(Live(hp)) < Cardinality(Fp)
  PROVE  LET st == cmd_get_outstream(hp, kind)
         IN  /\ Made(hp, st) /\ Plain(st)
             /\ IF kind \in {"stdout", "noout"} THEN OverOut(st)
                ELSE st.h # NULL => Target(st.hp, st.h) = NULL
<1> DEFINE st == cmd_get_outstream(hp, kind)
           h == Fresh(hp)
<1>0. \A w : Stream(w, h).hp = w /\ Stream(w, h).h = h
  BY DEF Stream
<1>1. CASE kind = "file"
  <2> DEFINE w == XIO_new_file(hp, h, FreshFp(hp), OutDisk, "wb")
  <2>1. st = Stream(w, h)
    BY <1>1, Zenon DEF cmd_get_outstream
  <2>2. Made(hp, Stream(w, h)) /\ Plain(Stream(w, h)) /\ Target(w, h) = NULL
    BY MadeFile
  <2> HIDE DEF w, st, h
  <2>3. QED
    BY <1>0, <1>1, <2>1, <2>2 DEF st
<1>2. CASE kind = "unwritable"
  <2>1. st = Stream(hp, NULL)
    BY <1>2, Zenon DEF cmd_get_outstream
  <2>2. Stream(hp, NULL).h = NULL
    BY DEF Stream
  <2> HIDE DEF st
  <2>3. QED
    BY <1>2, <2>1, <2>2, MadeNone DEF st
<1>3. CASE kind \in {"stdout", "noout"}
  <2> DEFINE o == [Unused EXCEPT !.type = "PASS", !.close = FALSE, !.target = Out]
             w == Alloc(hp, h, o)
  <2>1. st = Stream(w, h)
    BY <1>3, Zenon DEF cmd_get_outstream, XIO_newf_pass, NewFilter
  <2>2. IsObject(o) /\ o.type # "FILE" /\ o.target = Out /\ o.close = FALSE
    BY DEF IsObject, Unused
  <2> HIDE DEF o, w, st, h
  <2>3. /\ Made(hp, Stream(w, h)) /\ Plain(Stream(w, h)) /\ h # NULL
        /\ Target(w, h) = Out /\ w.obj[h].close = FALSE
    BY <2>2, MadeOther DEF w, h
  <2>4. OverOut(st)
    BY <1>0, <2>1, <2>3 DEF OverOut
  <2>5. QED
    BY <1>3, <2>1, <2>3, <2>4 DEF st
<1>4. QED
  BY <1>1, <1>2, <1>3 DEF ToFile
-----------------------------------------------------------------------------
(* --inform and --outform put a HEX stream on top, which closes what is below. *)
LEMMA WrapMade ==
  ASSUME NEW hp, Base(hp), NEW st, Made(hp, st), Plain(st), NEW form,
         Cardinality(Live(st.hp)) < Cardinality(Handle)
  PROVE  /\ Made(hp, cmd_wrap_stream(st, form))
         /\ form = "HEX" => cmd_wrap_stream(st, form).h # NULL
         /\ form # "HEX" => cmd_wrap_stream(st, form) = st
<1> DEFINE h == Fresh(st.hp)
           o == [Unused EXCEPT !.type = "HEX", !.close = TRUE, !.target = st.h]
           w == Alloc(st.hp, h, o)
<1>1. CASE form # "HEX"
  BY <1>1 DEF cmd_wrap_stream
<1>2. CASE form = "HEX"
  <2>1. cmd_wrap_stream(st, form) = Stream(w, h)
    BY <1>2, Zenon DEF cmd_wrap_stream, XIO_newf_hex, NewFilter
  <2>2. /\ Base(st.hp) /\ Mine(st.hp, st.h)
        /\ Live(st.hp) = Live(hp) \cup Parts(st.hp, st.h)
        /\ Parts(st.hp, st.h) \cap Live(hp) = {}
        /\ \A k \in Live(hp) : st.hp.obj[k] = hp.obj[k]
        /\ \A k \in Parts(st.hp, st.h) :
             Target(st.hp, k) \in Parts(st.hp, st.h) \cup {NULL, In, Out}
    BY DEF Made
  <2>3. h \in FreeObj(st.hp) /\ h \in Handle /\ h \notin Live(st.hp) /\ h # NULL
    BY FreshFree, NullAssumption DEF FreeObj
  <2>4. IsObject(o) /\ o.type # "FILE" /\ o.target = st.h /\ o.close = TRUE
    BY DEF IsObject, Unused
  <2> HIDE DEF o, h
  <2>5. Adds(st.hp, w, h, o)
    BY <2>2, <2>3, <2>4, AllocAdds
  <2> HIDE DEF w
  <2>6. Parts(st.hp, st.h) = IF st.h = NULL THEN {} ELSE {st.h}
    BY DEF Parts, Plain
  <2>7. st.h # NULL => st.h \in Own(st.hp) /\ st.h \in Live(st.hp) /\ st.h \in Handle
    BY <2>2, <2>6 DEF Mine, Own, Live
  <2>8. Base(w) /\ Live(w) = Live(st.hp) \cup {h}
    <3>1. o.target \in Live(st.hp) \cup {NULL}
      BY <2>4, <2>7
    <3>2. QED
      BY <2>2, <2>3, <2>4, <2>5, <3>1, AddBase
  <2>9. /\ w.obj[h] = o /\ Target(w, h) = st.h /\ w.obj[h].close = TRUE
        /\ \A k \in Live(st.hp) : w.obj[k] = st.hp.obj[k] /\ Target(w, k) = Target(st.hp, k)
    BY <2>3, <2>4, <2>5 DEF Adds, Target, Live
  <2>10. Parts(w, h) = Parts(st.hp, st.h) \cup {h}
    BY <2>3, <2>6, <2>9 DEF Parts
  <2>11. /\ In \in Live(st.hp) /\ Out \in Live(st.hp)
         /\ \A k \in Live(st.hp) : Target(st.hp, k) \in Live(st.hp) \cup {NULL}
    BY <2>2 DEF Base
  <2>12. Mine(w, h)
    <3>1. Parts(w, h) \subseteq Own(w)
      BY <2>2, <2>3, <2>6, <2>7, <2>8, <2>10, <2>11 DEF Own
    <3>2. ASSUME NEW k \in Live(w) \ Parts(w, h) PROVE Target(w, k) \notin Parts(w, h)
      <4>1. k \in Live(st.hp) /\ k \notin Parts(st.hp, st.h) /\ Target(w, k) = Target(st.hp, k)
        BY <2>8, <2>9, <2>10
      <4>2. Target(st.hp, k) # h
        BY <2>3, <2>11, <4>1
      <4>3. Target(st.hp, k) \notin Parts(st.hp, st.h)
        BY <2>2, <2>6, <4>1 DEF Mine
      <4>4. QED
        BY <2>10, <4>1, <4>2, <4>3
    <3>3. st.h # NULL /\ w.obj[st.h].close => Target(w, st.h) = NULL
      BY <2>7, <2>9 DEF Plain
    <3>4. QED
      BY <2>3, <2>9, <3>1, <3>2, <3>3 DEF Mine
  <2>13. Stream(w, h).hp = w /\ Stream(w, h).h = h
    BY DEF Stream
  <2> DEFINE new == Stream(w, h)
  <2> HIDE DEF new
  <2>14. Live(w) = Live(hp) \cup Parts(w, h) /\ Parts(w, h) \cap Live(hp) = {}
    BY <2>2, <2>3, <2>8, <2>10
  <2>15. \A k \in Live(hp) : w.obj[k] = hp.obj[k]
    BY <2>2, <2>9
  <2>16. \A k \in Parts(w, h) : Target(w, k) \in Parts(w, h) \cup {NULL, In, Out}
    BY <2>2, <2>6, <2>7, <2>9, <2>10
  <2>17. Made(hp, new)
    BY <2>8, <2>12, <2>13, <2>14, <2>15, <2>16 DEF Made, new
  <2>18. QED
    BY <1>2, <2>1, <2>3, <2>13, <2>17 DEF new
<1>3. QED
  BY <1>1, <1>2

(* rand --noout gives its stream back for one that keeps nothing. *)
LEMMA MutedMade ==
  ASSUME NEW hp, Base(hp), NEW st, Made(hp, st), st.h # NULL,
         Cardinality(Live(hp)) < Cardinality(Handle)
  PROVE  Made(hp, Muted(st))
<1> DEFINE v == XIO_close(st.hp, st.h)
           h == Fresh(v)
           o == [Unused EXCEPT !.type = "NULL", !.close = TRUE]
           w == Alloc(v, h, o)
<1>1. Muted(st) = Stream(w, h)
  BY Zenon DEF Muted, XIO_new_null
<1> HIDE DEF v
<1>2. /\ Base(st.hp) /\ Mine(st.hp, st.h)
      /\ Live(st.hp) = Live(hp) \cup Parts(st.hp, st.h)
      /\ Parts(st.hp, st.h) \cap Live(hp) = {}
      /\ \A k \in Live(hp) : st.hp.obj[k] = hp.obj[k]
  BY DEF Made
<1>3. /\ Base(v) /\ Live(v) = Live(st.hp) \ Parts(st.hp, st.h)
      /\ \A k \in Handle \ Parts(st.hp, st.h) : v.obj[k] = st.hp.obj[k]
  BY <1>2, CloseStream DEF v
<1>4. Live(v) = Live(hp) /\ \A k \in Live(hp) : v.obj[k] = hp.obj[k]
  <2>1. Live(hp) \subseteq Handle
    BY DEF Live
  <2>2. QED
    BY <1>2, <1>3, <2>1
<1>5. IsObject(o) /\ o.type # "FILE" /\ o.target = NULL
  BY DEF IsObject, Unused
<1> HIDE DEF o, h, w
<1>6. Made(v, Stream(w, h))
  BY <1>3, <1>4, <1>5, MadeOther DEF w, h
<1> DEFINE new == Stream(w, h)
<1> HIDE DEF new
<1>7. Made(v, new)
  BY <1>6 DEF new
<1>8. Made(hp, new)
  BY <1>4, <1>7 DEF Made
<1>9. QED
  BY <1>1, <1>8 DEF new

(* A stream has at most two parts, and a plain one at most one. *)
LEMMA PartsCount ==
  ASSUME NEW hp, NEW h
  PROVE  /\ IsFiniteSet(Parts(hp, h)) /\ Cardinality(Parts(hp, h)) \in 0 .. 2
         /\ ~(hp.obj[h].close /\ Target(hp, h) # NULL) => Cardinality(Parts(hp, h)) \in 0 .. 1
<1>1. CASE Parts(hp, h) = {}
  BY <1>1, FS_EmptySet
<1>2. CASE Parts(hp, h) = {h}
  <2>1. IsFiniteSet({h}) /\ Cardinality({h}) = 1
    BY FS_Singleton
  <2>2. QED
    BY <1>2, <2>1
<1>3. CASE /\ hp.obj[h].close /\ Target(hp, h) # NULL
           /\ Parts(hp, h) = {h} \cup {Target(hp, h)}
  <2>1. IsFiniteSet({h}) /\ Cardinality({h}) = 1
    BY FS_Singleton
  <2> DEFINE S == {h} \cup {Target(hp, h)}
  <2>2. IsFiniteSet(S) /\ Cardinality(S) = IF Target(hp, h) \in {h} THEN 1 ELSE 2
    BY <2>1, FS_AddElement
  <2> HIDE DEF S
  <2>3. Parts(hp, h) = S
    BY <1>3 DEF S
  <2>4. QED
    BY <1>3, <2>2, <2>3
<1>4. QED
  BY <1>1, <1>2, <1>3 DEF Parts

LEMMA MadeCount ==
  ASSUME NEW hp, NEW st, Made(hp, st)
  PROVE  /\ Cardinality(Live(st.hp)) = Cardinality(Live(hp)) + Cardinality(Parts(st.hp, st.h))
         /\ Cardinality(Parts(st.hp, st.h)) \in 0 .. 2
         /\ Plain(st) => Cardinality(Parts(st.hp, st.h)) \in 0 .. 1
<1> DEFINE L == Live(hp)
           P == Parts(st.hp, st.h)
<1>1. Live(st.hp) = L \cup P /\ P \cap L = {}
  BY DEF Made
<1>2. IsFiniteSet(P) /\ Cardinality(P) \in 0 .. 2
      /\ (~(st.hp.obj[st.h].close /\ Target(st.hp, st.h) # NULL) => Cardinality(P) \in 0 .. 1)
  BY PartsCount
<1>3. IsFiniteSet(L) /\ Cardinality(L) \in Nat
  BY LiveFinite
<1>4. st.h = NULL => Cardinality(P) \in 0 .. 1
  <2>1. st.h = NULL => P = {}
    BY DEF Parts
  <2>2. QED
    BY <2>1, FS_EmptySet
<1> HIDE DEF L, P
<1>5. Cardinality(L \cup P) = Cardinality(L) + Cardinality(P) - Cardinality(L \cap P)
  BY <1>2, <1>3, FS_Union
<1>6. L \cap P = {} /\ Cardinality({}) = 0
  BY <1>1, FS_EmptySet
<1>7. Cardinality(Live(st.hp)) = Cardinality(L) + Cardinality(P)
  BY <1>1, <1>2, <1>3, <1>5, <1>6
<1>8. QED
  BY <1>2, <1>4, <1>7 DEF Plain, L, P

(* A new stream leaves the others alone, and so does one that goes. *)
LEMMA MineStays ==
  ASSUME NEW hp, Base(hp), NEW g, Mine(hp, g), NEW st, Made(hp, st)
  PROVE  /\ Mine(st.hp, g) /\ Parts(st.hp, g) = Parts(hp, g)
         /\ Parts(st.hp, g) \cap Parts(st.hp, st.h) = {}
<1> DEFINE P == Parts(st.hp, st.h)
           w == st.hp
<1>1. /\ Live(w) = Live(hp) \cup P /\ P \cap Live(hp) = {}
      /\ \A k \in Live(hp) : w.obj[k] = hp.obj[k] /\ Target(w, k) = Target(hp, k)
      /\ \A k \in P : Target(w, k) \in P \cup {NULL, In, Out}
  BY DEF Made, Target
<1> HIDE DEF P
<1>2. CASE g = NULL
  BY <1>2 DEF Mine, Parts
<1>3. CASE g # NULL
  <2>1. /\ g \in Handle /\ Parts(hp, g) \subseteq Own(hp)
        /\ \A k \in Live(hp) \ Parts(hp, g) : Target(hp, k) \notin Parts(hp, g)
        /\ hp.obj[g].close /\ Target(hp, g) # NULL =>
             (hp.obj[Target(hp, g)].close => Target(hp, Target(hp, g)) = NULL)
    BY <1>3 DEF Mine
  <2>2. g \in Live(hp) /\ Own(hp) \subseteq Live(hp) /\ In \notin Own(hp) /\ Out \notin Own(hp)
        /\ Own(hp) \subseteq Own(w) /\ NULL \notin Live(hp)
    <3>1. g \in Parts(hp, g)
      BY <1>3 DEF Parts
    <3>2. QED
      BY <1>1, <2>1, <3>1, NullAssumption DEF Own, Live
  <2>3. Parts(w, g) = Parts(hp, g)
    BY <1>1, <2>2 DEF Parts
  <2>4. Target(hp, g) \in Live(hp) \cup {NULL}
    BY <2>2 DEF Base
  <2>5. ASSUME NEW k \in Live(w) \ Parts(w, g) PROVE Target(w, k) \notin Parts(w, g)
    <3>1. CASE k \in Live(hp)
      BY <1>1, <2>1, <2>3, <3>1
    <3>2. CASE k \in P
      BY <1>1, <2>1, <2>2, <2>3, <3>2
    <3>3. QED
      BY <1>1, <3>1, <3>2
  <2>6. Mine(w, g)
    BY <1>1, <2>1, <2>2, <2>3, <2>4, <2>5 DEF Mine
  <2>7. Parts(w, g) \cap P = {}
    BY <1>1, <2>1, <2>2, <2>3
  <2>8. QED
    BY <2>3, <2>6, <2>7 DEF P
<1>4. QED
  BY <1>2, <1>3

LEMMA MineRemains ==
  ASSUME NEW hp, Base(hp), NEW h, h # NULL, Mine(hp, h), NEW g, Mine(hp, g),
         Parts(hp, h) \cap Parts(hp, g) = {}, NEW w, w = XIO_close(hp, h)
  PROVE  Mine(w, g) /\ Parts(w, g) = Parts(hp, g)
<1> DEFINE P == Parts(hp, h)
<1>1. /\ Live(w) = Live(hp) \ P
      /\ \A k \in Handle \ P : w.obj[k] = hp.obj[k] /\ Target(w, k) = Target(hp, k)
  BY CloseStream DEF Target
<1> HIDE DEF P
<1>2. CASE g = NULL
  BY <1>2 DEF Mine, Parts
<1>3. CASE g # NULL
  <2>1. /\ g \in Handle /\ Parts(hp, g) \subseteq Own(hp)
        /\ \A k \in Live(hp) \ Parts(hp, g) : Target(hp, k) \notin Parts(hp, g)
        /\ hp.obj[g].close /\ Target(hp, g) # NULL =>
             (hp.obj[Target(hp, g)].close => Target(hp, Target(hp, g)) = NULL)
        /\ P \cap Parts(hp, g) = {}
    BY <1>3 DEF Mine, P
  <2>2. Own(hp) \subseteq Live(hp) /\ Live(hp) \subseteq Handle
    BY DEF Own, Live
  <2>3. g \in Parts(hp, g) /\ (hp.obj[g].close /\ Target(hp, g) # NULL =>
                               Target(hp, g) \in Parts(hp, g))
    BY <1>3 DEF Parts
  <2>4. Parts(w, g) = Parts(hp, g)
    BY <1>1, <2>1, <2>3 DEF Parts
  <2>5. Parts(w, g) \subseteq Own(w)
    BY <1>1, <2>1, <2>4 DEF Own
  <2>6. \A k \in Live(w) \ Parts(w, g) : Target(w, k) \notin Parts(w, g)
    BY <1>1, <2>1, <2>2, <2>4
  <2>7. w.obj[g].close /\ Target(w, g) # NULL =>
          (w.obj[Target(w, g)].close => Target(w, Target(w, g)) = NULL)
    BY <1>1, <2>1, <2>2, <2>3
  <2>8. QED
    BY <2>1, <2>4, <2>5, <2>6, <2>7 DEF Mine
<1>4. QED
  BY <1>2, <1>3
-----------------------------------------------------------------------------
(* What a command opens its streams on, and where it goes on. *)
Fits(c) ==
  c.ins \subseteq AnyIn \cup {"none"} /\ c.outs \subseteq ToFile \cup {"noout"} /\ c.entry \subseteq Running

LEMMA CommandFits ==
  ASSUME NEW ins, NEW outs, NEW entry, ins \subseteq AnyIn \cup {"none"},
         outs \subseteq ToFile \cup {"noout"}, entry \subseteq Running
  PROVE  /\ Fits(Command(ins, outs, entry))
         /\ \A f : Fits([Command(ins, outs, entry) EXCEPT !.informs = f])
         /\ \A f : Fits([Command(ins, outs, entry) EXCEPT !.outforms = f])
         /\ \A f : Fits([Command(ins, outs, entry) EXCEPT !.items = f])
         /\ \A f, g : Fits([Command(ins, outs, entry) EXCEPT !.informs = f, !.outforms = g])
         /\ \A f, g : Fits([[Command(ins, outs, entry) EXCEPT !.items = f] EXCEPT !.outforms = g])
BY DEF Fits, Command

LEMMA Table ==
  ASSUME NEW cmd \in Cmd
  PROVE  /\ Fits(Commands[cmd])
         /\ cmd = "keygen" => Commands[cmd].ins = {"none"} /\ Commands[cmd].outs = ToFile
                              /\ Commands[cmd].informs = {"BIN"} /\ Commands[cmd].outforms = {"BIN"}
<1>1. /\ {"drain"} \subseteq Running /\ {"readall"} \subseteq Running /\ {"close"} \subseteq Running
      /\ {"update"} \subseteq Running /\ {"update", "close"} \subseteq Running /\ {"emit"} \subseteq Running
      /\ AnyIn \subseteq AnyIn \cup {"none"} /\ {"none"} \subseteq AnyIn \cup {"none"}
      /\ ToFile \subseteq ToFile \cup {"noout"} /\ ToFile \cup {"noout"} \subseteq ToFile \cup {"noout"}
      /\ {"stdout"} \subseteq ToFile \cup {"noout"}
  BY DEF Running, ToFile
<1>2. Fits(sc_hex) /\ Fits(sc_hex_d) /\ Fits(sc_base64) /\ Fits(sc_base64_d) /\ Fits(sc_data)
  BY <1>1, CommandFits DEF sc_hex, sc_hex_d, sc_base64, sc_base64_d, sc_data
<1>3. Fits(sc_hash) /\ Fits(sc_sm4) /\ Fits(sc_sm2_sign) /\ Fits(sc_sm2_verify)
  BY <1>1, CommandFits DEF sc_hash, sc_sm4, sc_sm2_sign, sc_sm2_verify
<1>4. Fits(sc_rand) /\ Fits(sc_gen) /\ Fits(sc_pbkdf2) /\ Fits(sc_sm2_keygen) /\ Fits(sc_pwd)
  <2>1. ASSUME NEW outs, outs \subseteq ToFile \cup {"noout"}, NEW f
        PROVE  Fits(Writer(outs, f)) /\ \A g : Fits([Writer(outs, f) EXCEPT !.outforms = g])
    <3>1. /\ \A x : Fits([Command({"none"}, outs, {"emit"}) EXCEPT !.items = x])
          /\ \A x, g : Fits([[Command({"none"}, outs, {"emit"}) EXCEPT !.items = x] EXCEPT !.outforms = g])
      BY <1>1, <2>1, CommandFits
    <3>2. QED
      BY <3>1, Zenon DEF Writer
  <2>2. Fits(sc_rand)
    BY <1>1, <2>1, Zenon DEF sc_rand
  <2>3. Fits(sc_gen) /\ Fits(sc_sm2_keygen)
    BY <1>1, <2>1, Zenon DEF sc_gen, sc_sm2_keygen
  <2>4. Fits(sc_pbkdf2) /\ Fits(sc_pwd)
    BY <1>1, <2>1, Zenon DEF sc_pbkdf2, sc_pwd
  <2>5. QED
    BY <2>2, <2>3, <2>4
<1>5. cmd \in {"hex", "unhex", "base64", "unbase64", "data", "hash", "encrypt", "decrypt", "sign",
               "verify", "rand", "gen", "pbkdf2", "keygen", "pwd"}
  BY CommandAssumption DEF Drainer, ReadAll, Updater, Gatherer, Cipher, Emitter, Unread
<1>6. Fits(Commands[cmd])
  BY <1>2, <1>3, <1>4, <1>5 DEF Commands
<1>7. cmd = "keygen" => Commands[cmd] = sc_sm2_keygen
  BY DEF Commands
<1>8. /\ sc_sm2_keygen.ins = {"none"} /\ sc_sm2_keygen.outs = ToFile
      /\ sc_sm2_keygen.informs = {"BIN"} /\ sc_sm2_keygen.outforms = {"BIN"}
  BY DEF sc_sm2_keygen, Writer, Command
<1>9. QED
  BY <1>6, <1>7, <1>8

(* The streams a command starts with. *)
StartedOn(hp, ik, ok, inf, outf, i, o1, o) ==
  /\ i = cmd_wrap_stream(cmd_get_instream(hp, ik), inf)
  /\ o1 = cmd_wrap_stream(cmd_get_outstream(i.hp, ok), outf)
  /\ o = IF ok = "noout" THEN Muted(o1) ELSE o1

LEMMA StartStreams ==
  ASSUME NEW hp, Base(hp), Cardinality(Live(hp)) <= MaxRuns + 1,
         NEW ik \in AnyIn \cup {"none"}, NEW ok \in ToFile \cup {"noout"}, NEW inf, NEW outf,
         NEW i, NEW o1, NEW o, StartedOn(hp, ik, ok, inf, outf, i, o1, o)
  PROVE  /\ Base(o.hp) /\ Mine(o.hp, i.h) /\ Mine(o.hp, o.h)
         /\ Parts(o.hp, i.h) \cap Parts(o.hp, o.h) = {}
         /\ Cardinality(Live(o.hp)) = Cardinality(Live(hp)) + Cardinality(Parts(o.hp, i.h))
                                        + Cardinality(Parts(o.hp, o.h))
         /\ inf # "HEX" /\ ik = "none" => i.h = NULL
         /\ outf # "HEX" /\ ok # "noout" =>
              IF ok = "stdout" THEN OverOut(o) ELSE o.h # NULL => Target(o.hp, o.h) = NULL
<1> DEFINE a == cmd_get_instream(hp, ik)
           b == cmd_get_outstream(i.hp, ok)
<1>1. /\ MaxRuns \in Nat /\ Cardinality(Handle) \in Nat /\ Cardinality(Fp) \in Nat
      /\ Cardinality(Handle) >= MaxRuns + 5 /\ Cardinality(Fp) >= MaxRuns + 4
  BY RoomAssumption, FS_CardinalityType
<1>2. Cardinality(Live(hp)) \in Nat
  BY LiveFinite
<1>3. Made(hp, a) /\ Plain(a) /\ (ik = "none" => a = Stream(hp, NULL))
  <2>1. Cardinality(Live(hp)) < Cardinality(Handle) /\ Cardinality(Live(hp)) < Cardinality(Fp)
    BY <1>1, <1>2
  <2>2. QED
    BY <2>1, InStream
<1>4. i = cmd_wrap_stream(a, inf)
  BY DEF StartedOn
<1> HIDE DEF a
<1>5. /\ Made(hp, i) /\ (inf # "HEX" => i = a)
  <2>1. Cardinality(Live(a.hp)) < Cardinality(Handle)
    BY <1>1, <1>2, <1>3, MadeCount
  <2>2. QED
    BY <1>3, <1>4, <2>1, WrapMade
<1>6. inf # "HEX" /\ ik = "none" => i.h = NULL
  BY <1>3, <1>5 DEF Stream
<1>7. /\ Base(i.hp) /\ Mine(i.hp, i.h) /\ Cardinality(Live(i.hp)) \in Nat
      /\ Cardinality(Live(i.hp)) = Cardinality(Live(hp)) + Cardinality(Parts(i.hp, i.h))
      /\ Cardinality(Live(i.hp)) <= MaxRuns + 3
  <2>1. Cardinality(Live(i.hp)) = Cardinality(Live(hp)) + Cardinality(Parts(i.hp, i.h))
        /\ Cardinality(Parts(i.hp, i.h)) \in 0 .. 2
    BY <1>5, MadeCount
  <2>2. Base(i.hp) /\ Mine(i.hp, i.h)
    BY <1>5 DEF Made
  <2>3. QED
    BY <1>1, <1>2, <2>1, <2>2
<1>8. /\ Made(i.hp, b) /\ Plain(b)
      /\ IF ok \in {"stdout", "noout"} THEN OverOut(b) ELSE b.h # NULL => Target(b.hp, b.h) = NULL
  <2>1. Cardinality(Live(i.hp)) < Cardinality(Handle) /\ Cardinality(Live(i.hp)) < Cardinality(Fp)
    BY <1>1, <1>7
  <2>2. QED
    BY <1>7, <2>1, OutStream
<1>9. o1 = cmd_wrap_stream(b, outf) /\ o = IF ok = "noout" THEN Muted(o1) ELSE o1
  BY DEF StartedOn
<1> HIDE DEF b
<1>10. /\ Made(i.hp, o1) /\ (outf # "HEX" => o1 = b) /\ (outf = "HEX" => o1.h # NULL)
  <2>1. Cardinality(Live(b.hp)) = Cardinality(Live(i.hp)) + Cardinality(Parts(b.hp, b.h))
        /\ Cardinality(Parts(b.hp, b.h)) \in 0 .. 1
    BY <1>8, MadeCount
  <2>2. Cardinality(Live(b.hp)) < Cardinality(Handle)
    BY <1>1, <1>7, <2>1
  <2>3. QED
    BY <1>7, <1>8, <1>9, <2>2, WrapMade
<1>11. Made(i.hp, o)
  <2>1. CASE ok = "noout"
    <3>1. o1.h # NULL
      BY <1>8, <1>10, <2>1 DEF OverOut
    <3>2. Cardinality(Live(i.hp)) < Cardinality(Handle)
      BY <1>1, <1>7
    <3>3. o = Muted(o1)
      BY <1>9, <2>1
    <3>4. QED
      BY <1>7, <1>10, <3>1, <3>2, <3>3, MutedMade
  <2>2. CASE ok # "noout"
    <3>1. o = o1
      BY <1>9, <2>2
    <3>2. QED
      BY <1>10, <3>1
  <2>3. QED
    BY <2>1, <2>2
<1>12. Base(o.hp) /\ Mine(o.hp, o.h)
  BY <1>11 DEF Made
<1>13. Mine(o.hp, i.h) /\ Parts(o.hp, i.h) = Parts(i.hp, i.h)
       /\ Parts(o.hp, i.h) \cap Parts(o.hp, o.h) = {}
  BY <1>7, <1>11, MineStays
<1>14. Cardinality(Live(o.hp)) = Cardinality(Live(i.hp)) + Cardinality(Parts(o.hp, o.h))
  BY <1>11, MadeCount
<1>15. outf # "HEX" /\ ok # "noout" =>
         IF ok = "stdout" THEN OverOut(o) ELSE o.h # NULL => Target(o.hp, o.h) = NULL
  <2>1. SUFFICES ASSUME outf # "HEX", ok # "noout"
                 PROVE  IF ok = "stdout" THEN OverOut(o) ELSE o.h # NULL => Target(o.hp, o.h) = NULL
    OBVIOUS
  <2>2. o = b
    BY <1>9, <1>10, <2>1
  <2>3. QED
    BY <1>8, <2>1, <2>2
<1>16. QED
  BY <1>6, <1>7, <1>12, <1>13, <1>14, <1>15
-----------------------------------------------------------------------------
(* Whatever a command does with its streams leaves their shape.               *)
LEMMA LiveStream ==
  ASSUME NEW hp, NEW h, Mine(hp, h)
  PROVE  h \in Live(hp) \cup {NULL}
<1>1. CASE h # NULL
  <2>1. h \in Parts(hp, h) /\ Parts(hp, h) \subseteq Own(hp)
    BY <1>1 DEF Parts, Mine
  <2>2. QED
    BY <2>1 DEF Own
<1>2. QED
  BY <1>1

LEMMA ReadThenWrite ==
  ASSUME NEW hp, Base(hp), NEW i \in Live(hp) \cup {NULL}, NEW o \in Live(hp) \cup {NULL},
         NEW n, NEW v, v = XIO_read(hp, i, n).hp
  PROVE  SameShape(hp, v) /\ \A s : SameShape(hp, XIO_write(v, o, s).hp)
<1>1. SameShape(hp, v)
  BY ReadShape
<1>2. Base(v) /\ Live(v) = Live(hp)
  BY <1>1, SameBase, SameLive DEF Base
<1>3. ASSUME NEW s PROVE SameShape(hp, XIO_write(v, o, s).hp)
  <2> DEFINE w == XIO_write(v, o, s).hp
  <2>1. SameShape(v, w)
    BY <1>2, WriteShape
  <2> HIDE DEF w
  <2>2. SameShape(hp, w)
    BY <1>1, <2>1, ShapeTrans
  <2>3. QED
    BY <2>2 DEF w
<1>4. QED
  BY <1>1, <1>3

LEMMA WriteThenFlush ==
  ASSUME NEW hp, Base(hp), NEW o \in Live(hp) \cup {NULL}, NEW s, NEW w, w = XIO_write(hp, o, s).hp
  PROVE  SameShape(hp, w) /\ SameShape(hp, XIO_flush(w, o))
<1>1. SameShape(hp, w)
  BY WriteShape
<1>2. Base(w) /\ Live(w) = Live(hp)
  BY <1>1, SameBase, SameLive DEF Base
<1> DEFINE v == XIO_flush(w, o)
<1>3. SameShape(w, v)
  BY <1>2, FlushShape
<1> HIDE DEF v
<1>4. SameShape(hp, v)
  BY <1>1, <1>3, ShapeTrans
<1>5. QED
  BY <1>1, <1>4 DEF v

(* A step that opens and closes nothing, and stays inside the command or      *)
(* outside of one.                                                            *)
LEMMA StepQuiet ==
  ASSUME IInv, pc \notin Stopped, SameShape(heap, heap'), runs' = runs,
         {"cmd", "out", "i", "o"} \subseteq DOMAIN job',
         pc' \notin Stopped, pc' \in Running <=> pc \in Running,
         pc \in Running => /\ job'.cmd = job.cmd /\ job'.out = job.out
                           /\ job'.i = job.i /\ job'.o = job.o,
         pc' = "start" => runs.n < MaxRuns
  PROVE  IInv'
<1>1. Base(heap) /\ Base(heap') /\ Live(heap') = Live(heap)
  <2>1. Base(heap)
    BY DEF IInv
  <2>2. QED
    BY <2>1, SameBase, SameLive DEF Base
<1>2. CountsOK'
  BY DEF IInv, CountsOK
<1>3. ASSUME pc \in Running PROVE StreamsOK'
  <2>1. StreamsOK /\ /\ job'.cmd = job.cmd /\ job'.out = job.out
                     /\ job'.i = job.i /\ job'.o = job.o
    BY <1>3 DEF IInv
  <2>2. /\ Mine(heap', job.i) /\ Parts(heap', job.i) = Parts(heap, job.i)
        /\ Mine(heap', job.o) /\ Parts(heap', job.o) = Parts(heap, job.o)
    BY <1>1, <2>1, SameMine DEF StreamsOK
  <2>3. KeygenOK'
    <3>1. job.o # NULL => heap'.obj[job.o].close = heap.obj[job.o].close
                          /\ Target(heap', job.o) = Target(heap, job.o)
      BY <2>1 DEF StreamsOK, Mine, SameShape, SameObject, Target
    <3>2. QED
      BY <2>1, <3>1 DEF StreamsOK, KeygenOK
  <2>4. QED
    BY <1>1, <2>1, <2>2, <2>3 DEF StreamsOK
<1>4. (pc \notin Running \cup Stopped => Cardinality(Live(heap)) = 2 + runs.lost)'
  BY <1>1 DEF IInv
<1>5. QED
  BY <1>1, <1>2, <1>3, <1>4 DEF IInv

LEMMA CloseOne ==
  ASSUME NEW hp, Base(hp), NEW h, Mine(hp, h), NEW g, Mine(hp, g),
         Parts(hp, h) \cap Parts(hp, g) = {}, NEW w, w = XIO_close(hp, h)
  PROVE  /\ Base(w) /\ Mine(w, g) /\ Parts(w, g) = Parts(hp, g)
         /\ Cardinality(Live(w)) = Cardinality(Live(hp)) - Cardinality(Parts(hp, h))
<1> DEFINE L == Live(hp)
           P == Parts(hp, h)
<1>1. IsFiniteSet(L) /\ Cardinality(L) \in Nat
  BY LiveFinite
<1>2. CASE h = NULL
  <2>1. w = hp /\ P = {}
    BY <1>2 DEF XIO_close, Parts
  <2>2. Cardinality({}) = 0
    BY FS_EmptySet
  <2>3. QED
    BY <1>1, <2>1, <2>2
<1>3. CASE h # NULL
  <2>1. Base(w) /\ Live(w) = L \ P
    BY <1>3, CloseStream
  <2>2. Mine(w, g) /\ Parts(w, g) = Parts(hp, g)
    BY <1>3, MineRemains
  <2>3. P \subseteq L
    BY <1>3 DEF Mine, Own
  <2> HIDE DEF L, P
  <2>4. L \cap P = P
    BY <2>3
  <2>5. Cardinality(L \ P) = Cardinality(L) - Cardinality(P)
    <3>1. IsFiniteSet(P)
      BY <1>1, <2>3, FS_Subset
    <3>2. Cardinality(L \ P) = Cardinality(L) - Cardinality(L \cap P)
      BY <1>1, <3>1, FS_Difference
    <3>3. QED
      BY <2>4, <3>2
  <2>6. QED
    BY <2>1, <2>2, <2>5 DEF L, P
<1>4. QED
  BY <1>2, <1>3
-----------------------------------------------------------------------------
(* One lemma per action. *)
LEMMA Streams ==
  ASSUME IInv, pc \in Running
  PROVE  /\ pc \notin Stopped /\ Base(heap) /\ StreamsOK
         /\ job.i \in Live(heap) \cup {NULL} /\ job.o \in Live(heap) \cup {NULL}
<1>1. pc \notin Stopped
  BY DEF Running, Stopped
<1>2. QED
  BY <1>1, LiveStream DEF IInv, StreamsOK

LEMMA DrainStep == ASSUME IInv, Drain PROVE IInv'
<1> DEFINE r == XIO_read(heap, job.i, 1)
           v == r.hp
           s == r.data
<1>1. pc = "drain" /\ pc \in Running
  BY DEF Drain, Running
<1>2. \/ heap' = v /\ pc' = "close" /\ job' = [job EXCEPT !.ret = "OK"]
      \/ heap' = XIO_write(v, job.o, s).hp /\ pc' = pc /\ job' = job
  BY DEF Drain
<1>3. runs' = runs
  BY DEF Drain, Rest
<1>4. SameShape(heap, v) /\ \A x : SameShape(heap, XIO_write(v, job.o, x).hp)
  BY <1>1, Streams, ReadThenWrite
<1> HIDE DEF r, v, s
<1>5. SameShape(heap, heap')
  BY <1>2, <1>4
<1>6. {"cmd", "out", "i", "o"} \subseteq DOMAIN job' /\ job'.cmd = job.cmd /\ job'.out = job.out
      /\ job'.i = job.i /\ job'.o = job.o
  BY <1>2 DEF IInv
<1>7. pc \notin Stopped /\ pc' \in Running /\ pc' \notin Stopped /\ pc' # "start"
  BY <1>1, <1>2 DEF Running, Stopped
<1>8. QED
  BY <1>1, <1>3, <1>5, <1>6, <1>7, StepQuiet

LEMMA CollectStep == ASSUME IInv, Collect PROVE IInv'
<1> DEFINE r == XIO_read(heap, job.i, InBuf)
           v == r.hp
           all == ConvertOut(job.cmd, job.acc)
           text == CHOOSE x \in all : TRUE
           more == job.acc \o r.data
<1>1. pc = "readall" /\ pc \in Running
  BY DEF Collect, Running
<1>2. \/ heap' = v /\ pc' = pc /\ job' = [job EXCEPT !.acc = @ \o r.data]
      \/ /\ heap' = IF all = {} THEN v ELSE XIO_write(v, job.o, text).hp
         /\ pc' = "close" /\ job' = [job EXCEPT !.ret = "OK"]
  BY DEF Collect
<1>3. runs' = runs
  BY DEF Collect, Rest
<1>4. SameShape(heap, v) /\ \A x : SameShape(heap, XIO_write(v, job.o, x).hp)
  BY <1>1, Streams, ReadThenWrite
<1>5. {"cmd", "out", "i", "o"} \subseteq DOMAIN job' /\ job'.cmd = job.cmd /\ job'.out = job.out
      /\ job'.i = job.i /\ job'.o = job.o
  <2>1. job' = [job EXCEPT !.acc = more] \/ job' = [job EXCEPT !.ret = "OK"]
    BY <1>2
  <2> HIDE DEF more
  <2>2. QED
    BY <2>1 DEF IInv
<1> HIDE DEF r, v, all, text
<1>6. SameShape(heap, heap')
  BY <1>2, <1>4
<1>7. pc \notin Stopped /\ pc' \in Running /\ pc' \notin Stopped /\ pc' # "start"
  BY <1>1, <1>2 DEF Running, Stopped
<1>8. QED
  BY <1>1, <1>3, <1>5, <1>6, <1>7, StepQuiet

LEMMA UpdateStep == ASSUME IInv, Update PROVE IInv'
<1> DEFINE r == XIO_read(heap, job.i, InBuf)
           v == r.hp
           u == UpdateOut(job.cmd, job.acc, r.data)
           w == XIO_write(v, job.o, u.out)
           held == u.held
           text == u.out
<1>1. pc = "update" /\ pc \in Running
  BY DEF Update, Running
<1>2. \/ heap' = v /\ pc' = "finish" /\ job' = job
      \/ heap' = v /\ pc' = pc /\ job' = [job EXCEPT !.acc = held]
      \/ heap' = w.hp /\ pc' \in {pc, "close"} /\ job' = [job EXCEPT !.acc = held]
  BY DEF Update
<1>3. runs' = runs
  BY DEF Update, Rest
<1>4. SameShape(heap, v) /\ \A x : SameShape(heap, XIO_write(v, job.o, x).hp)
  BY <1>1, Streams, ReadThenWrite
<1>5. w.hp = XIO_write(v, job.o, text).hp
  OBVIOUS
<1> HIDE DEF r, v, u, w, held, text
<1>6. SameShape(heap, heap')
  BY <1>2, <1>4, <1>5
<1>7. {"cmd", "out", "i", "o"} \subseteq DOMAIN job' /\ job'.cmd = job.cmd /\ job'.out = job.out
      /\ job'.i = job.i /\ job'.o = job.o
  BY <1>2 DEF IInv
<1>8. pc \notin Stopped /\ pc' \in Running /\ pc' \notin Stopped /\ pc' # "start"
  BY <1>1, <1>2 DEF Running, Stopped
<1>9. QED
  BY <1>1, <1>3, <1>6, <1>7, <1>8, StepQuiet

LEMMA FinishStep == ASSUME IInv, Finish PROVE IInv'
<1> DEFINE outs == FinishOut(job.cmd, job.acc, job.todo)
           P(s) == Printed(job.cmd, job.outform, s)
           W(s) == XIO_write(heap, job.o, P(s))
           R(s, c) == IF Failure(job.cmd, s, W(s), c) THEN "FAIL" ELSE "OK"
<1>1. pc = "finish" /\ pc \in Running /\ pc' = "close"
  BY DEF Finish, Running
<1>2. \/ heap' = heap /\ job' = job
      \/ heap' = heap /\ job' = [job EXCEPT !.broke = TRUE]
      \/ \E s, c : heap' = W(s).hp /\ job' = [job EXCEPT !.ret = R(s, c)]
  BY Zenon DEF Finish
<1>3. runs' = runs
  BY DEF Finish, Rest
<1>4. Framed(heap) /\ \A x : SameShape(heap, XIO_write(heap, job.o, x).hp)
  BY <1>1, Streams, WriteShape DEF Base
<1>5. \A s : W(s).hp = XIO_write(heap, job.o, P(s)).hp
  OBVIOUS
<1> HIDE DEF outs, P, W, R
<1>6. SameShape(heap, heap')
  BY <1>2, <1>4, <1>5, ShapeSelf
<1>7. {"cmd", "out", "i", "o"} \subseteq DOMAIN job' /\ job'.cmd = job.cmd /\ job'.out = job.out
      /\ job'.i = job.i /\ job'.o = job.o
  BY <1>2 DEF IInv
<1>8. pc \notin Stopped /\ pc' \in Running /\ pc' \notin Stopped /\ pc' # "start"
  BY <1>1 DEF Running, Stopped
<1>9. QED
  BY <1>1, <1>3, <1>6, <1>7, <1>8, StepQuiet

LEMMA EmitStep == ASSUME IInv, Emit PROVE IInv'
<1> DEFINE x == Head(job.todo)
           w == XIO_write(heap, job.o, x).hp
           v == XIO_flush(w, job.o)
           todo == Tail(job.todo)
           acc == job.acc \o x
<1>1. pc = "emit" /\ pc \in Running
  BY DEF Emit, Running
<1>2. \/ heap' = heap /\ pc' = "close" /\ job' = [job EXCEPT !.ret = "OK"]
      \/ heap' = (IF job.cmd = "gen" THEN v ELSE w) /\ pc' = pc
         /\ job' = [job EXCEPT !.todo = Tail(@), !.acc = @ \o x]
      \/ heap' = heap /\ pc' = "close" /\ job' = [job EXCEPT !.broke = TRUE]
  BY DEF Emit
<1>3. runs' = runs
  BY DEF Emit, Rest
<1>4. Framed(heap) /\ SameShape(heap, w) /\ SameShape(heap, v)
  BY <1>1, Streams, WriteThenFlush DEF Base
<1>5. {"cmd", "out", "i", "o"} \subseteq DOMAIN job' /\ job'.cmd = job.cmd /\ job'.out = job.out
      /\ job'.i = job.i /\ job'.o = job.o
  <2>1. \/ job' = [job EXCEPT !.ret = "OK"] \/ job' = [job EXCEPT !.todo = todo, !.acc = acc]
        \/ job' = [job EXCEPT !.broke = TRUE]
    BY <1>2
  <2> HIDE DEF todo, acc
  <2>2. QED
    BY <2>1 DEF IInv
<1> HIDE DEF x, w, v
<1>6. SameShape(heap, heap')
  BY <1>2, <1>4, ShapeSelf
<1>7. pc \notin Stopped /\ pc' \in Running /\ pc' \notin Stopped /\ pc' # "start"
  BY <1>1, <1>2 DEF Running, Stopped
<1>8. QED
  BY <1>1, <1>3, <1>5, <1>6, <1>7, StepQuiet
LEMMA EolStep == ASSUME IInv, Eol PROVE IInv'
<1> DEFINE w == XIO_write(heap, Out, <<LF>>).hp
           v == XIO_flush(w, Out)
<1>1. pc = "eol" /\ pc \notin Running /\ pc \notin Stopped
  BY DEF Eol, Running, Stopped
<1>2. heap' = v \/ heap' = heap
  BY DEF Eol
<1>3. runs' = runs /\ job' = job /\ pc' \in {"newline", "end"}
  BY DEF Eol
<1>4. Framed(heap) /\ SameShape(heap, v)
  <2>1. Base(heap) /\ Out \in Live(heap) \cup {NULL}
    BY <1>1 DEF IInv, Base
  <2>2. QED
    BY <2>1, WriteThenFlush DEF Base
<1> HIDE DEF w, v
<1>5. SameShape(heap, heap')
  BY <1>2, <1>4, ShapeSelf
<1>6. {"cmd", "out", "i", "o"} \subseteq DOMAIN job'
  BY <1>3 DEF IInv
<1>7. pc' \notin Running /\ pc' \notin Stopped /\ pc' # "start"
  BY <1>3 DEF Running, Stopped
<1>8. QED
  BY <1>1, <1>3, <1>5, <1>6, <1>7, StepQuiet

LEMMA NewlineStep == ASSUME IInv, Newline PROVE IInv'
<1>1. pc = "newline" /\ pc' = "prompt" /\ pc \notin Running /\ pc \notin Stopped
      /\ pc' \notin Running /\ pc' \notin Stopped /\ pc' # "start"
  BY DEF Newline, Running, Stopped
<1>2. runs' = runs /\ job' = NoJob
  BY DEF Newline
<1>3. {"cmd", "out", "i", "o"} \subseteq DOMAIN job'
  BY <1>2 DEF NoJob
<1>4. SameShape(heap, heap')
  <2>1. Base(heap) /\ Out \in Live(heap) \cup {NULL}
    BY <1>1 DEF IInv, Base
  <2>2. heap' = XIO_write(heap, Out, <<LF>>).hp
    BY DEF Newline
  <2>3. QED
    BY <2>1, <2>2, WriteShape
<1>5. QED
  BY <1>1, <1>2, <1>3, <1>4, StepQuiet

LEMMA PosShape ==
  ASSUME NEW hp, Framed(hp), NEW f \in Fp, NEW p, NEW w, w = [hp EXCEPT !.file[f].pos = p]
  PROVE  SameShape(hp, w)
<1> DEFINE new == [hp.file[f] EXCEPT !.pos = p]
           file == [hp.file EXCEPT ![f] = new]
<1>1. w = [hp EXCEPT !.file = file]
  OBVIOUS
<1>2. "open" \in DOMAIN new /\ new.open = hp.file[f].open
  BY DEF Framed
<1> HIDE DEF new
<1>3. Fp \subseteq DOMAIN file /\ \A g \in Fp : file[g] = IF g = f THEN new ELSE hp.file[g]
  BY DEF Framed
<1> HIDE DEF file
<1>4. {"obj", "file", "disk"} \subseteq DOMAIN w /\ w.obj = hp.obj /\ w.file = file
  BY <1>1 DEF Framed
<1>5. Framed(w)
  BY <1>2, <1>3, <1>4 DEF Framed
<1>6. QED
  BY <1>2, <1>3, <1>4, <1>5 DEF SameShape, SameObject

LEMMA PromptStep == ASSUME IInv, Prompt PROVE IInv'
<1> DEFINE data == heap.disk[Kbd].data
           p == heap.file[Stdin].pos
           line == LineEnd(data, p)
<1>1. pc = "prompt" /\ pc \notin Running /\ pc \notin Stopped
  BY DEF Prompt, Running, Stopped
<1>2. /\ heap' = [heap EXCEPT !.file[Stdin].pos = line]
      /\ pc' = IF line - p > 1 /\ runs.n < MaxRuns THEN "start" ELSE "prompt"
      /\ job' = job /\ runs' = runs
  BY DEF Prompt
<1> HIDE DEF line, p
<1>3. SameShape(heap, heap')
  <2>1. Framed(heap) /\ Stdin \in Fp
    BY <1>1, CommandAssumption DEF IInv, Base
  <2>2. QED
    BY <1>2, <2>1, PosShape
<1>4. pc' \notin Running /\ pc' \notin Stopped /\ (pc' = "start" => runs.n < MaxRuns)
  BY <1>2 DEF Running, Stopped
<1>5. {"cmd", "out", "i", "o"} \subseteq DOMAIN job'
  BY <1>2 DEF IInv
<1>6. QED
  BY <1>1, <1>2, <1>3, <1>4, <1>5, StepQuiet

LEMMA DeviceFailsStep == ASSUME IInv, NEW d \in Fallible, DeviceFails(d) PROVE IInv'
<1> DEFINE disk == [heap.disk EXCEPT ![d] = [heap.disk[d] EXCEPT !.broken = TRUE]]
<1>1. heap' = [heap EXCEPT !.disk = disk] /\ pc' = pc /\ job' = job /\ runs' = runs
  BY DEF DeviceFails
<1> HIDE DEF disk
<1>2. CASE pc \in Stopped
  <2>1. pc \notin Running
    BY <1>2 DEF Running, Stopped
  <2>2. CountsOK' /\ {"cmd", "out", "i", "o"} \subseteq DOMAIN job'
    BY <1>1 DEF IInv, CountsOK
  <2>3. QED
    BY <1>1, <1>2, <2>1, <2>2 DEF IInv
<1>3. CASE pc \notin Stopped
  <2>1. Framed(heap)
    BY <1>3 DEF IInv, Base
  <2>2. {"obj", "file", "disk"} \subseteq DOMAIN heap' /\ heap'.obj = heap.obj /\ heap'.file = heap.file
    BY <1>1, <2>1 DEF Framed
  <2>3. SameShape(heap, heap')
    BY <2>1, <2>2 DEF Framed, SameShape, SameObject
  <2>4. pc' = "start" => runs.n < MaxRuns
    BY <1>1 DEF IInv, CountsOK
  <2>5. {"cmd", "out", "i", "o"} \subseteq DOMAIN job'
    BY <1>1 DEF IInv
  <2>6. QED
    BY <1>1, <1>3, <2>3, <2>4, <2>5, StepQuiet
<1>4. QED
  BY <1>2, <1>3

(* exit, in both of its forms, asks nothing of the heap any more. *)
LEMMA LastStep ==
  ASSUME IInv, pc' \in Stopped, job' = job, runs' = runs PROVE IInv'
<1>1. pc' \notin Running /\ pc' # "start"
  BY DEF Running, Stopped
<1>2. CountsOK' /\ {"cmd", "out", "i", "o"} \subseteq DOMAIN job'
  BY <1>1 DEF IInv, CountsOK
<1>3. QED
  BY <1>1, <1>2 DEF IInv

(* What sm2 keygen leaves behind is what lost counts: a stream without a target *)
(* is one object, and of a PASS over stdout only the PASS was made.             *)
LEMMA KeygenLeft ==
  ASSUME NEW hp, Base(hp), NEW o, Mine(hp, o)
  PROVE  /\ (o # NULL => Target(hp, o) = NULL) =>
              Len(Chain(hp, o)) = Cardinality(Parts(hp, o)) /\ Cardinality(Parts(hp, o)) \in 0 .. 1
         /\ o # NULL /\ ~hp.obj[o].close /\ Target(hp, o) = Out =>
              Len(Chain(hp, o)) = 2 /\ Cardinality(Parts(hp, o)) = 1
<1>1. /\ \A k \in Handle : Chain(hp, k) \in Seq(Handle) /\ Chain(hp, k) = <<k>> \o Chain(hp, Target(hp, k))
      /\ Chain(hp, NULL) = <<>>
  BY ChainSteps DEF Base
<1>2. Cardinality({}) = 0 /\ Len(<<>>) = 0
  BY FS_EmptySet
<1>3. ASSUME NEW k \in Handle PROVE Cardinality({k}) = 1 /\ Len(<<k>>) = 1 /\ <<k>> \in Seq(Handle)
  <2>1. Cardinality({k}) = 1
    BY FS_Singleton
  <2>2. Len(<<k>>) = 1 /\ <<k>> \in Seq(Handle)
    OBVIOUS
  <2>3. QED
    BY <2>1, <2>2
<1>4. ASSUME NEW k \in Handle, Target(hp, k) = NULL PROVE Len(Chain(hp, k)) = 1
  <2>1. Chain(hp, k) = <<k>> \o <<>>
    BY <1>1, <1>4
  <2>2. <<k>> \o <<>> = <<k>>
    BY <1>3, ConcatEmptySeq
  <2>3. QED
    BY <1>3, <2>1, <2>2
<1>5. CASE o = NULL
  BY <1>1, <1>2, <1>5 DEF Parts
<1>6. CASE o # NULL /\ Target(hp, o) = NULL
  <2>1. o \in Handle /\ Parts(hp, o) = {o}
    BY <1>6 DEF Mine, Parts
  <2>2. Len(Chain(hp, o)) = 1 /\ Cardinality(Parts(hp, o)) = 1
    BY <1>3, <1>4, <1>6, <2>1
  <2>3. Target(hp, o) # Out
    BY <1>6, CommandAssumption, NullAssumption
  <2>4. QED
    BY <1>6, <2>2, <2>3
<1>7. CASE o # NULL /\ ~hp.obj[o].close /\ Target(hp, o) = Out
  <2>1. o \in Handle /\ Parts(hp, o) = {o}
    BY <1>7 DEF Mine, Parts
  <2>2. Out \in Handle /\ Target(hp, Out) = NULL /\ Out # NULL
    BY CommandAssumption, NullAssumption DEF Base
  <2> DEFINE c == Chain(hp, Out)
             one == <<o>>
  <2>3. Len(c) = 1 /\ c \in Seq(Handle)
    BY <1>1, <1>4, <2>2
  <2>4. Chain(hp, o) = one \o c
    BY <1>1, <1>7, <2>1
  <2>5. Len(one) = 1 /\ one \in Seq(Handle)
    BY <1>3, <2>1
  <2> HIDE DEF c, one
  <2>6. Len(one \o c) = 2
    <3>1. Len(one \o c) = Len(one) + Len(c)
      BY <2>3, <2>5, ConcatProperties
    <3>2. QED
      BY <2>3, <2>5, <3>1
  <2>7. Len(Chain(hp, o)) = 2 /\ Cardinality(Parts(hp, o)) = 1
    BY <1>3, <2>1, <2>4, <2>6
  <2>8. QED
    BY <1>7, <2>2, <2>7
<1>8. QED
  BY <1>5, <1>6, <1>7

LEMMA CloseStep == ASSUME IInv, Close PROVE IInv'
<1>1. pc = "close" /\ pc \in Running /\ pc' = "eol" /\ pc' \notin Running /\ pc' \notin Stopped
  BY DEF Close, Running, Stopped
<1>2. /\ Base(heap) /\ StreamsOK /\ CountsOK /\ {"cmd", "out", "i", "o"} \subseteq DOMAIN job
      /\ job' = job
  BY <1>1, Streams DEF IInv, Close
<1>3. runs.n \in Nat /\ runs.lost \in Nat /\ runs.lost < runs.n /\ {"n", "lost"} \subseteq DOMAIN runs
  BY <1>1, <1>2 DEF CountsOK
<1>4. IsFiniteSet(Live(heap)) /\ Cardinality(Live(heap)) \in Nat
  BY LiveFinite
<1>5. Cardinality(Parts(heap, job.i)) \in 0 .. 2 /\ Cardinality(Parts(heap, job.o)) \in 0 .. 2
  BY PartsCount
<1>6. Cardinality(Live(heap)) =
        2 + runs.lost + Cardinality(Parts(heap, job.i)) + Cardinality(Parts(heap, job.o))
  BY <1>2 DEF StreamsOK
<1>7. CASE job.cmd = "keygen"
  <2> DEFINE n == Cardinality(Parts(heap, job.o))
             more == runs.lost + Len(Chain(heap, job.o)) - IF job.out = "stdout" THEN 1 ELSE 0
  <2>1. /\ job.i = NULL
        /\ IF job.out = "stdout" THEN job.o # NULL /\ ~heap.obj[job.o].close /\ Target(heap, job.o) = Out
           ELSE job.o # NULL => Target(heap, job.o) = NULL
    BY <1>2, <1>7 DEF StreamsOK, KeygenOK
  <2>2. Mine(heap, job.o)
    BY <1>2 DEF StreamsOK
  <2>3. Len(Chain(heap, job.o)) = n + (IF job.out = "stdout" THEN 1 ELSE 0) /\ n \in 0 .. 1
    <3>1. /\ (job.o # NULL => Target(heap, job.o) = NULL) => Len(Chain(heap, job.o)) = n /\ n \in 0 .. 1
          /\ job.o # NULL /\ ~heap.obj[job.o].close /\ Target(heap, job.o) = Out =>
               Len(Chain(heap, job.o)) = 2 /\ n = 1
      BY <1>2, <2>2, KeygenLeft
    <3> HIDE DEF n
    <3>2. CASE job.out = "stdout"
      <4>1. Len(Chain(heap, job.o)) = 2 /\ n = 1
        BY <2>1, <3>1, <3>2
      <4>2. QED
        BY <3>2, <4>1
    <3>3. CASE job.out # "stdout"
      <4>1. Len(Chain(heap, job.o)) = n /\ n \in 0 .. 1
        BY <2>1, <3>1, <3>3
      <4>2. QED
        BY <3>3, <4>1
    <3>4. QED
      BY <3>2, <3>3
  <2>4. Len(Chain(heap, job.o)) \in Nat
    <3>1. job.o \in Handle \cup {NULL}
      BY <2>2 DEF Mine
    <3>2. Chain(heap, NULL) = <<>> /\ \A k \in Handle : Chain(heap, k) \in Seq(Handle)
      BY <1>2, ChainSteps DEF Base
    <3>3. QED
      BY <3>1, <3>2, LenProperties
  <2>5. more = runs.lost + n
    BY <1>3, <2>3, <2>4
  <2>6. runs' = [runs EXCEPT !.lost = more] /\ heap' = heap
    BY <1>7 DEF Close
  <2>7. Cardinality(Parts(heap, job.i)) = 0
    BY <2>1, FS_EmptySet DEF Parts
  <2>8. Cardinality(Live(heap)) = 2 + more
    BY <1>3, <1>6, <2>3, <2>5, <2>7
  <2>9. more \in Nat /\ more <= runs.n
    BY <1>3, <2>3, <2>5
  <2> HIDE DEF more
  <2>10. runs'.n = runs.n /\ runs'.lost = more /\ {"n", "lost"} \subseteq DOMAIN runs'
    BY <1>3, <2>6
  <2>11. CountsOK'
    BY <1>1, <1>3, <2>9, <2>10 DEF CountsOK
  <2>12. QED
    BY <1>1, <1>2, <2>6, <2>8, <2>10, <2>11 DEF IInv
<1>8. CASE job.cmd # "keygen"
  <2> DEFINE v == XIO_close(heap, job.i)
             w == XIO_close(v, job.o)
  <2>1. heap' = w /\ runs' = runs
    BY <1>8 DEF Close
  <2>2. /\ Mine(heap, job.i) /\ Mine(heap, job.o)
        /\ Parts(heap, job.i) \cap Parts(heap, job.o) = {}
    BY <1>2 DEF StreamsOK
  <2>3. /\ Base(v) /\ Mine(v, job.o) /\ Parts(v, job.o) = Parts(heap, job.o)
        /\ Cardinality(Live(v)) = Cardinality(Live(heap)) - Cardinality(Parts(heap, job.i))
    BY <1>2, <2>2, CloseOne
  <2> HIDE DEF v
  <2>4. Mine(v, NULL) /\ Parts(v, job.o) \cap Parts(v, NULL) = {}
    BY DEF Mine, Parts
  <2>5. Base(w) /\ Cardinality(Live(w)) = Cardinality(Live(v)) - Cardinality(Parts(v, job.o))
    BY <2>3, <2>4, CloseOne
  <2>6. Cardinality(Live(w)) = 2 + runs.lost
    BY <1>3, <1>4, <1>5, <1>6, <2>3, <2>5
  <2>7. CountsOK'
    BY <1>1, <1>2, <2>1 DEF CountsOK
  <2> HIDE DEF w
  <2>8. QED
    BY <1>1, <1>2, <2>1, <2>5, <2>6, <2>7 DEF IInv
<1>9. QED
  BY <1>7, <1>8
LEMMA StartStep == ASSUME IInv, NEW cmd \in Cmd, Start(cmd) PROVE IInv'
<1>1. pc = "start" /\ pc \notin Running /\ pc \notin Stopped
  BY DEF Start, Running, Stopped
<1>2. /\ runs.n \in Nat /\ runs.lost \in Nat /\ runs.lost <= runs.n /\ runs.n < MaxRuns
      /\ {"n", "lost"} \subseteq DOMAIN runs
      /\ Base(heap) /\ Cardinality(Live(heap)) = 2 + runs.lost
  BY <1>1 DEF IInv, CountsOK
<1>3. PICK ik \in Commands[cmd].ins, ok \in Commands[cmd].outs, inf \in Commands[cmd].informs,
           outf \in Commands[cmd].outforms, plan \in Plans(cmd), argc \in ArgCount :
        Begin(cmd, ik, ok, inf, outf, plan, argc)
  BY Zenon DEF Start
<1> DEFINE j == NewJob(cmd, ik, ok, inf, outf, plan)
           refused == [j EXCEPT !.broke = TRUE]
           counted == [runs EXCEPT !.n = @ + 1]
           opened == [runs EXCEPT !.n = @ + 1, !.aside = IF ok = "file" THEN PushedAside ELSE @]
<1>4. PICK i, o1, o :
        /\ i = cmd_wrap_stream(cmd_get_instream(heap, ik), inf)
        /\ o1 = cmd_wrap_stream(cmd_get_outstream(i.hp, ok), Wrapped(cmd, outf))
        /\ o = IF ok = "noout" THEN Muted(o1) ELSE o1
        /\ \/ pc' = "eol" /\ job' = refused /\ heap' = heap /\ runs' = counted
           \/ /\ job' = Entered(j, i.h, o.h, pc') /\ heap' = o.hp
              /\ pc' \in Entries(cmd, i.h, o.h) /\ runs' = opened
  <2>1. PICK i \in {cmd_wrap_stream(cmd_get_instream(heap, ik), inf)} :
        \E o1 \in {cmd_wrap_stream(cmd_get_outstream(i.hp, ok), Wrapped(cmd, outf))} :
        \E o \in {IF ok = "noout" THEN Muted(o1) ELSE o1} :
          IF Refuses(cmd, argc)
          THEN /\ pc' = "eol" /\ job' = refused
               /\ runs' = counted /\ UNCHANGED <<heap, due>>
          ELSE /\ pc' \in Entries(cmd, i.h, o.h)
               /\ job' = Entered(j, i.h, o.h, pc') /\ heap' = o.hp
               /\ due' = IF ok = "file" THEN [due EXCEPT ![OutDisk] = <<>>] ELSE due
               /\ runs' = opened
    BY <1>3, Zenon DEF Begin
  <2> HIDE DEF j, refused, counted, opened
  <2>2. PICK o1 \in {cmd_wrap_stream(cmd_get_outstream(i.hp, ok), Wrapped(cmd, outf))} :
        \E o \in {IF ok = "noout" THEN Muted(o1) ELSE o1} :
          \/ pc' = "eol" /\ job' = refused /\ heap' = heap /\ runs' = counted
          \/ /\ job' = Entered(j, i.h, o.h, pc') /\ heap' = o.hp
             /\ pc' \in Entries(cmd, i.h, o.h) /\ runs' = opened
    BY <2>1, Zenon
  <2>3. QED
    BY <2>2, Zenon
<1>5. {"cmd", "out", "i", "o"} \subseteq DOMAIN j /\ j.cmd = cmd /\ j.out = ok
  BY DEF NewJob, NoJob
<1>6. ASSUME NEW i0, NEW o0, NEW e
       PROVE  /\ {"cmd", "out", "i", "o"} \subseteq DOMAIN Entered(j, i0, o0, e)
              /\ Entered(j, i0, o0, e).cmd = cmd /\ Entered(j, i0, o0, e).out = ok
              /\ Entered(j, i0, o0, e).i = i0 /\ Entered(j, i0, o0, e).o = o0
  <2>1. {"cmd", "out", "i", "o", "broke", "ret"} \subseteq DOMAIN j
    BY DEF NewJob, NoJob
  <2> HIDE DEF j
  <2>2. QED
    BY <1>5, <2>1, SMTT(20) DEF Entered
<1>7. {"cmd", "out", "i", "o"} \subseteq DOMAIN refused /\ refused.cmd = cmd /\ refused.out = ok
  BY <1>5
<1>8. \A k \in {counted, opened} : k.n = runs.n + 1 /\ k.lost = runs.lost /\ {"n", "lost"} \subseteq DOMAIN k
  BY <1>2
<1> HIDE DEF j, refused, counted, opened
<1>9. runs'.n = runs.n + 1 /\ runs'.lost = runs.lost /\ {"n", "lost"} \subseteq DOMAIN runs'
  BY <1>4, <1>8
<1>10. CASE pc' = "eol" /\ job' = refused /\ heap' = heap
  <2>1. pc' \notin Running /\ pc' # "start"
    BY <1>10 DEF Running
  <2>2. CountsOK'
    BY <1>2, <1>9, <2>1 DEF CountsOK
  <2>3. QED
    BY <1>2, <1>9, <1>10, <1>7, <2>1, <2>2 DEF IInv
<1>11. CASE /\ job' = Entered(j, i.h, o.h, pc') /\ heap' = o.hp
           /\ pc' \in Entries(cmd, i.h, o.h)
  <2>1. /\ Fits(Commands[cmd])
        /\ cmd = "keygen" => Commands[cmd].ins = {"none"} /\ Commands[cmd].outs = ToFile
                             /\ Commands[cmd].informs = {"BIN"} /\ Commands[cmd].outforms = {"BIN"}
    BY Table
  <2>2. ik \in AnyIn \cup {"none"} /\ ok \in ToFile \cup {"noout"}
    BY <2>1 DEF Fits
  <2>3. pc' \in Running /\ pc' \notin Stopped /\ pc' # "start"
    <3>1. Entries(cmd, i.h, o.h) \subseteq Running
      BY <2>1 DEF Fits, Entries, Running
    <3>2. pc' \in Running
      BY <1>11, <3>1
    <3>3. QED
      BY <3>2 DEF Running, Stopped
  <2>4. Cardinality(Live(heap)) <= MaxRuns + 1
    BY <1>2, RoomAssumption
  <2> DEFINE wf == Wrapped(cmd, outf)
  <2>5. cmd = "keygen" => /\ ik = "none" /\ ok \in ToFile /\ ok # "noout" /\ inf # "HEX" /\ wf # "HEX"
    BY <2>1 DEF Wrapped, ToFile
  <2>6. o1 = cmd_wrap_stream(cmd_get_outstream(i.hp, ok), wf)
    BY <1>4
  <2> HIDE DEF wf
  <2>7. /\ Base(o.hp) /\ Mine(o.hp, i.h) /\ Mine(o.hp, o.h)
        /\ Parts(o.hp, i.h) \cap Parts(o.hp, o.h) = {}
        /\ Cardinality(Live(o.hp)) = Cardinality(Live(heap)) + Cardinality(Parts(o.hp, i.h))
                                       + Cardinality(Parts(o.hp, o.h))
        /\ inf # "HEX" /\ ik = "none" => i.h = NULL
        /\ wf # "HEX" /\ ok # "noout" =>
             IF ok = "stdout" THEN OverOut(o) ELSE o.h # NULL => Target(o.hp, o.h) = NULL
    <3>1. Base(heap) /\ Cardinality(Live(heap)) <= MaxRuns + 1
          /\ StartedOn(heap, ik, ok, inf, wf, i, o1, o)
      BY <1>2, <1>4, <2>4, <2>6 DEF StartedOn
    <3>2. QED
      BY <2>2, <2>6, <3>1, StartStreams
  <2>8. /\ job'.cmd = cmd /\ job'.out = ok /\ job'.i = i.h /\ job'.o = o.h
        /\ {"cmd", "out", "i", "o"} \subseteq DOMAIN job'
    BY <1>11, <1>6
  <2>9. KeygenOK'
    <3>1. SUFFICES ASSUME cmd = "keygen"
                   PROVE  /\ i.h = NULL
                          /\ IF ok = "stdout"
                             THEN o.h # NULL /\ ~o.hp.obj[o.h].close /\ Target(o.hp, o.h) = Out
                             ELSE o.h # NULL => Target(o.hp, o.h) = NULL
      BY <1>11, <2>8 DEF KeygenOK
    <3>2. QED
      BY <2>5, <2>7, <3>1 DEF OverOut
  <2>10. Cardinality(Live(o.hp)) = 2 + runs.lost + Cardinality(Parts(o.hp, i.h))
                                     + Cardinality(Parts(o.hp, o.h))
    BY <1>2, <2>7
  <2>11. StreamsOK'
    BY <1>9, <1>11, <2>7, <2>8, <2>9, <2>10 DEF StreamsOK
  <2>12. CountsOK'
    BY <1>2, <1>9, <2>3 DEF CountsOK
  <2>13. QED
    BY <1>11, <2>3, <2>7, <2>8, <2>11, <2>12 DEF IInv
<1>12. QED
  BY <1>4, <1>10, <1>11
-----------------------------------------------------------------------------
LEMMA Pair ==
  ASSUME NEW a, NEW b, a # b PROVE IsFiniteSet({a, b}) /\ Cardinality({a, b}) = 2
<1>1. IsFiniteSet({a}) /\ Cardinality({a}) = 1
  BY FS_Singleton
<1> DEFINE S == {a} \cup {b}
<1>2. IsFiniteSet(S) /\ Cardinality(S) = IF b \in {a} THEN 1 ELSE 2
  BY <1>1, FS_AddElement
<1>3. S = {a, b}
  OBVIOUS
<1> HIDE DEF S
<1>4. QED
  BY <1>2, <1>3

(* The program begins with its own two streams. *)
LEMMA InitBase ==
  ASSUME NEW hp, Framed(hp),
         \A k \in Handle : hp.obj[k] # Unused <=> k \in {In, Out},
         \A k \in Handle : Target(hp, k) = NULL,
         \A f \in Fp : hp.file[f].open <=> f \in {Stdin, Stdout}
  PROVE  Base(hp) /\ Cardinality(Live(hp)) = 2
<1>1. Live(hp) = {In, Out} /\ Own(hp) = {}
  BY CommandAssumption DEF Live, Own
<1>2. Chained(hp)
  <2> DEFINE c == [k \in Handle \cup {NULL} |-> IF k = NULL THEN <<>> ELSE <<k>>]
  <2>1. c \in [Handle \cup {NULL} -> Seq(Handle)]
    OBVIOUS
  <2>2. c[NULL] = <<>> /\ \A k \in Handle : c[k] = <<k>>
    BY NullAssumption
  <2> HIDE DEF c
  <2>3. ASSUME NEW k \in Handle PROVE c[k] = <<k>> \o c[Target(hp, k)]
    <3>1. <<k>> \o <<>> = <<k>>
      <4>1. <<k>> \in Seq(Handle)
        OBVIOUS
      <4>2. QED
        BY <4>1, ConcatEmptySeq
    <3>2. QED
      BY <2>2, <3>1
  <2>4. QED
    BY <2>1, <2>2, <2>3 DEF Chained
<1>3. Base(hp)
  BY <1>1, <1>2, CommandAssumption DEF Base
<1>4. Cardinality({In, Out}) = 2
  BY Pair, CommandAssumption
<1>5. QED
  BY <1>1, <1>3, <1>4
LEMMA InitIInv == Init => IInv
<1> SUFFICES ASSUME Init PROVE IInv
  OBVIOUS
<1> DEFINE stdin == [Closed EXCEPT !.open = TRUE, !.disk = Kbd]
           stdout == [Closed EXCEPT !.open = TRUE, !.disk = Tty, !.mode = "wb"]
           file == [f \in Fp |-> CASE f = Stdin -> stdin [] f = Stdout -> stdout [] OTHER -> Closed]
           obj == [h \in Handle |-> Unused]
           in == [Unused EXCEPT !.type = "FILE", !.fp = Stdin, !.close = FALSE]
           out == [Unused EXCEPT !.type = "FILE", !.fp = Stdout, !.close = FALSE]
           Now(disk) == [obj |-> [[obj EXCEPT ![In] = in] EXCEPT ![Out] = out],
                         file |-> file, disk |-> disk]
<1>1. \E disk : heap = Now(disk)
  BY DEF Init, XIO_new_fp, Alloc
<1>2. \A f \in Fp : file[f] = IF f = Stdin THEN stdin ELSE IF f = Stdout THEN stdout ELSE Closed
  <2> HIDE DEF stdin, stdout
  <2>1. QED
    BY CommandAssumption
<1>3. \A f \in Fp : /\ "open" \in DOMAIN file[f] /\ file[f].open \in BOOLEAN
                    /\ file[f].open <=> f \in {Stdin, Stdout}
  BY <1>2 DEF Closed
<1>4. \A o \in {in, out} :
        /\ {"type", "close", "target", "fp"} \subseteq DOMAIN o /\ o.close \in BOOLEAN
        /\ o.type # "unused" /\ o.target = NULL
  BY DEF Unused
<1>5. /\ Unused.target = NULL /\ Unused.type = "unused" /\ Unused.close \in BOOLEAN
      /\ {"type", "close", "target", "fp"} \subseteq DOMAIN Unused
  BY DEF Unused
<1>6. DOMAIN file = Fp
  OBVIOUS
<1> HIDE DEF stdin, stdout, file, in, out
<1>7. /\ {"obj", "file", "disk"} \subseteq DOMAIN heap /\ heap.file = file
      /\ DOMAIN heap.obj = Handle
      /\ \A k \in Handle : heap.obj[k] = IF k = Out THEN out ELSE IF k = In THEN in ELSE Unused
  BY <1>1
<1> HIDE DEF Now, obj
<1>8. \A k \in Handle : heap.obj[k] # Unused <=> k \in {In, Out}
  BY <1>4, <1>5, <1>7
<1>9. \A k \in Handle : Target(heap, k) = NULL
  BY <1>4, <1>5, <1>7 DEF Target
<1>10. \A k \in Handle :
         /\ {"type", "close", "target", "fp"} \subseteq DOMAIN heap.obj[k]
         /\ heap.obj[k].close \in BOOLEAN
         /\ heap.obj[k].type = "unused" => heap.obj[k] = Unused
  BY <1>4, <1>5, <1>7
<1>11. Framed(heap)
  BY <1>3, <1>6, <1>7, <1>10 DEF Framed
<1>12. Base(heap) /\ Cardinality(Live(heap)) = 2
  BY <1>3, <1>7, <1>8, <1>9, <1>11, InitBase
<1>13. pc = "start" /\ job = NoJob /\ runs = [n |-> 0, lost |-> 0, aside |-> {}]
  BY DEF Init
<1>14. pc \notin Running
  BY <1>13 DEF Running
<1>15. CountsOK
  BY <1>13, <1>14, RoomAssumption DEF CountsOK
<1>16. {"cmd", "out", "i", "o"} \subseteq DOMAIN job
  BY <1>13 DEF NoJob
<1>17. QED
  BY <1>12, <1>13, <1>14, <1>15, <1>16 DEF IInv

LEMMA NextIInv == IInv /\ [Next]_vars => IInv'
<1> SUFFICES ASSUME IInv, [Next]_vars PROVE IInv'
  OBVIOUS
<1>1. ASSUME NEW cmd \in Cmd, Start(cmd) PROVE IInv'
  BY <1>1, StartStep
<1>2. CASE Drain
  BY <1>2, DrainStep
<1>3. CASE Collect
  BY <1>3, CollectStep
<1>4. CASE Update
  BY <1>4, UpdateStep
<1>5. CASE Finish
  BY <1>5, FinishStep
<1>6. CASE Emit
  BY <1>6, EmitStep
<1>7. CASE Close
  BY <1>7, CloseStep
<1>8. CASE Eol
  BY <1>8, EolStep
<1>9. CASE Newline
  BY <1>9, NewlineStep
<1>10. CASE End
  BY <1>10, LastStep DEF End, Stopped
<1>11. CASE Prompt
  BY <1>11, PromptStep
<1>12. CASE signal_handler
  BY <1>12, LastStep DEF signal_handler, Stopped
<1>13. ASSUME NEW d \in Fallible, DeviceFails(d) PROVE IInv'
  BY <1>13, DeviceFailsStep
<1>14. CASE UNCHANGED vars
  BY <1>14 DEF vars, IInv, CountsOK, StreamsOK, KeygenOK
<1>15. QED
  BY <1>1, <1>2, <1>3, <1>4, <1>5, <1>6, <1>7, <1>8, <1>9, <1>10, <1>11, <1>12, <1>13, <1>14
  DEF Next, Step

LEMMA NothingHeld ==
  ASSUME NEW hp, Base(hp), Cardinality(Live(hp)) = 2
  PROVE  \A f \in Fp \ {Stdin, Stdout} : ~hp.file[f].open
<1>1. IsFiniteSet(Live(hp)) /\ In \in Live(hp) /\ Out \in Live(hp)
  BY LiveFinite DEF Base
<1>2. Live(hp) = {In, Out}
  <2>1. IsFiniteSet({In, Out}) /\ Cardinality({In, Out}) = 2
    BY Pair, CommandAssumption
  <2> DEFINE L == Live(hp)
             S == {In, Out}
  <2>2. S \subseteq L
    BY <1>1
  <2> HIDE DEF L, S
  <2>3. IsFiniteSet(L) /\ Cardinality(L) = 2 /\ IsFiniteSet(S) /\ Cardinality(S) = 2
    BY <1>1, <2>1 DEF L, S
  <2>4. L = S
    BY <2>2, <2>3, FS_Subset
  <2>5. QED
    BY <2>4 DEF L, S
<1>3. Own(hp) = {}
  BY <1>2 DEF Own
<1>4. QED
  BY <1>3 DEF Base

(* In every reachable state, whatever the commands, their options and their   *)
(* input: the program's streams and their FILEs are there until it stops, a    *)
(* running command has its own streams and no other, and outside of a command  *)
(* nothing is left but what sm2 keygen did not close.                          *)
THEOREM Invariant == Spec => []IInv
BY InitIInv, NextIInv, PTL DEF Spec

(* run_command, the REPL and every command leave the objects on stdin and      *)
(* stdout alone, whatever they closed on top of them.                          *)
THEOREM GlobalStreamsAlways == Spec => []GlobalStreams
<1>1. IInv => GlobalStreams
  BY DEF IInv, Base, GlobalStreams
<1>2. QED
  BY <1>1, Invariant, PTL

(* A command that is over has given back every object and FILE it took, on     *)
(* every path through it; the count of what sm2 keygen left is exact.          *)
THEOREM ReleasedAlways == Spec => []Released
<1>1. IInv => Released
  <2> SUFFICES ASSUME IInv, pc \in {"eol", "newline", "prompt", "end"}
               PROVE  /\ Cardinality(Live(heap)) = 2 + runs.lost
                      /\ runs.lost = 0 => \A f \in Fp \ {Stdin, Stdout} : ~heap.file[f].open
    BY DEF Released
  <2>1. pc \notin Running /\ pc \notin Stopped
    BY DEF Running, Stopped
  <2>2. Base(heap) /\ Cardinality(Live(heap)) = 2 + runs.lost
    BY <2>1 DEF IInv
  <2>3. QED
    BY <2>2, NothingHeld
<1>2. QED
  BY <1>1, Invariant, PTL
=============================================================================
