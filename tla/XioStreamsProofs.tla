--------------------------- MODULE XioStreamsProofs ---------------------------
(* The properties of XioStreams hold for any number of objects, FILEs and devices, *)
(* for any texts, and for buffers of any size.                                     *)
EXTENDS XioStreams, XioProofs

(* No two streams are stacked on one, and the client holds none that a closing *)
(* filter has taken.                                                            *)
Stacks ==
  /\ \A j, k \in Live(heap) : Target(heap, j) = Target(heap, k) => j = k \/ Target(heap, j) = NULL
  /\ \A k \in Live(heap) : heap.obj[k].close => Target(heap, k) \notin held

(* No two objects share a FILE, and all own theirs but the one on stdout. *)
Owners ==
  /\ \A h \in Files : heap.obj[h].close <=> heap.obj[h].fp # Stdout
  /\ \A h, k \in Files : heap.obj[h].fp = heap.obj[k].fp => h = k

(* What does not depend on what is written. *)
Shape ==
  /\ Sound(heap) /\ NoDangling /\ NoLeak /\ Stacks /\ Owners /\ FileOwnership
  /\ heap.file[Stdout].disk = Tty

(* Two FILEs are open on one device only if it is exempt... *)
OneFile ==
  \A f, g \in Fp :
    heap.file[f].open /\ heap.file[g].open /\ heap.file[f].disk = heap.file[g].disk
      => f = g \/ heap.file[f].disk \in exempt

(* ...and one on which none is open has what was written. *)
Idle ==
  \A d \in Disk \ exempt :
    ~heap.disk[d].broken /\ (\A f \in Fp : heap.file[f].open => heap.file[f].disk # d)
      => heap.disk[d].data = wanted[d]

Content ==
  /\ wanted \in [Disk -> Seq(Byte)] /\ exempt \subseteq Disk
  /\ OneFile /\ Idle /\ NothingLeftBehind /\ Delivered

IInv == Shape /\ Content

(* What the invariant says of the client's handles and of FILEs. *)
LEMMA ShapeFacts ==
  ASSUME Shape
  PROVE  /\ heap \in Heap /\ GoodHeap(heap) /\ Live(heap) \subseteq Handle
         /\ held \subseteq Live(heap)
         /\ \A k \in Handle : GoodObject(heap.obj[k])
         /\ \A k \in Live(heap) : Target(heap, k) \in Live(heap) \cup {NULL}
         /\ \A k \in Files : /\ k \in Live(heap) /\ heap.obj[k].fp \in Fp
                             /\ heap.file[heap.obj[k].fp].open
                             /\ heap.file[heap.obj[k].fp].disk \in Disk
                             /\ Target(heap, k) = NULL
         /\ \A f \in Fp : heap.file[f].open => heap.file[f].disk \in Disk
         /\ \A f \in Fp : ~heap.file[f].open => heap.file[f] = Closed
<1>1. heap \in Heap /\ GoodHeap(heap) /\ Sound(heap) /\ Live(heap) \subseteq Handle /\ held \subseteq Live(heap)
  BY DEF Shape, Sound, GoodHeap, Live, NoDangling
<1>2. /\ \A k \in Handle : GoodObject(heap.obj[k])
      /\ \A k \in Live(heap) : Target(heap, k) \in Live(heap) \cup {NULL}
      /\ \A f \in Fp : GoodFile(heap.file[f])
  BY <1>1 DEF Sound, GoodHeap
<1>3. \A f \in Fp : /\ heap.file[f].open => heap.file[f].disk \in Disk
                    /\ ~heap.file[f].open => heap.file[f] = Closed
  BY <1>2 DEF GoodFile
<1>4. ASSUME NEW k \in Files
      PROVE  /\ k \in Live(heap) /\ heap.obj[k].fp \in Fp /\ heap.file[heap.obj[k].fp].open
             /\ heap.file[heap.obj[k].fp].disk \in Disk /\ Target(heap, k) = NULL
  <2>1. k \in Live(heap) /\ k \in Handle /\ heap.obj[k].type = "FILE"
    BY <1>1 DEF Files
  <2>2. heap.obj[k].fp \in Fp /\ heap.file[heap.obj[k].fp].open
    BY <1>1, <1>2, <2>1 DEF GoodObject, Sound
  <2>3. Target(heap, k) = NULL
    BY <1>2, <2>1 DEF GoodObject, Filter, Target
  <2>4. QED
    BY <1>3, <2>1, <2>2, <2>3
<1>5. QED
  BY <1>1, <1>2, <1>3, <1>4

-----------------------------------------------------------------------------
(* Calls that make and free nothing. *)
LEMMA QuietShape ==
  ASSUME Shape, Sound(heap'), Live(heap') = Live(heap), held' = held,
         \A k \in Handle : SameObject(heap.obj[k], heap'.obj[k]),
         \A g \in Fp : heap'.file[g].open = heap.file[g].open /\ heap'.file[g].disk = heap.file[g].disk
  PROVE  Shape'
<1>1. \A k \in Handle : /\ heap'.obj[k].type = heap.obj[k].type
                        /\ heap'.obj[k].close = heap.obj[k].close
                        /\ heap'.obj[k].fp = heap.obj[k].fp
                        /\ Target(heap', k) = Target(heap, k)
  BY DEF SameObject, Target
<1>2. \A g \in Fp : /\ heap'.file[g].open = heap.file[g].open
                    /\ heap'.file[g].disk = heap.file[g].disk
  OBVIOUS
<1>3. Live(heap) \subseteq Handle
  BY ShapeFacts
<1>4. Files' = Files
  BY <1>1, <1>3 DEF Files
<1>5. Files \subseteq Live(heap) /\ \A k \in Files : heap.obj[k].fp \in Fp
  BY ShapeFacts
<1>6. \A h : StackedOn(h)' = StackedOn(h)
  BY <1>1, <1>3 DEF StackedOn, Target
<1>7. NoDangling'
  <2>1. \A h \in Live(heap) : heap.obj[h].type \in Filter => Target(heap, h) \in Live(heap)
    BY DEF Shape, NoDangling, Target
  <2>2. \A h \in Live(heap') : heap'.obj[h].type \in Filter => Target(heap', h) \in Live(heap')
    BY <1>1, <1>3, <2>1
  <2>3. QED
    BY <2>2 DEF Shape, NoDangling, Sound, Target
<1>8. NoLeak'
  <2>1. \A h \in Live(heap) : h \in held \/ \E k \in StackedOn(h) : heap.obj[k].close
    BY DEF Shape, NoLeak
  <2>2. \A h \in Live(heap) : \A k \in StackedOn(h) : k \in Handle
    BY <1>3 DEF StackedOn
  <2>3. \A h \in Live(heap) : h \in held' \/ \E k \in StackedOn(h)' : heap'.obj[k].close
    BY <1>1, <1>6, <2>1, <2>2
  <2>4. QED
    BY <2>3 DEF NoLeak
<1>9. Stacks'
  BY <1>1, <1>3 DEF Shape, Stacks
<1>10. Owners'
  BY <1>1, <1>3, <1>4, <1>5 DEF Shape, Owners
<1>11. FileOwnership'
  <2>1. /\ heap.file[Stdout].open
        /\ \A f \in Fp \ {Stdout} :
             heap.file[f].open <=> \E h \in Files : heap.obj[h].fp = f /\ heap.obj[h].close
    BY DEF Shape, FileOwnership
  <2>2. \A h \in Files : heap'.obj[h].fp = heap.obj[h].fp /\ heap'.obj[h].close = heap.obj[h].close
    BY <1>1, <1>3, <1>5
  <2>3. QED
    BY <1>2, <1>4, <2>1, <2>2, ClientAssumption DEF FileOwnership
<1>12. heap'.file[Stdout].disk = Tty
  BY <1>2, ClientAssumption DEF Shape
<1>13. QED
  BY <1>7, <1>8, <1>9, <1>10, <1>11, <1>12 DEF Shape

(* Calls that make one object, on nothing or on a handle of the client that is *)
(* given up if the object closes it; a FILE it opens is nobody else's.          *)
Made1(h, o) ==
  /\ h \in FreeObj(heap) /\ NewObject(heap, heap', h, o) /\ Sound(heap')
  /\ IsNew(o, o.type, o.close, o.target, o.fp)
  /\ o.target # NULL => o.target \in held /\ StackedOn(o.target) = {}
  /\ o.type \in Filter => o.target # NULL
  /\ held' = (held \ (IF o.close THEN {o.target} ELSE {})) \cup {h}
  /\ IF o.type = "FILE"
     THEN /\ o.fp \in Fp /\ \A k \in Files : heap.obj[k].fp # o.fp
          /\ o.close <=> o.fp # Stdout
          /\ heap'.file[o.fp].open
          /\ \A g \in Fp \ {o.fp} : heap'.file[g] = heap.file[g]
     ELSE heap'.file = heap.file
  /\ heap'.file[Stdout] = heap.file[Stdout]

(* Such a call keeps the shape. *)
LEMMA NewShape ==
  ASSUME Shape, NEW h, NEW o, Made1(h, o)
  PROVE  Shape'
<1>1. /\ h \in Handle /\ h \notin Live(heap) /\ Live(heap') = Live(heap) \cup {h}
      /\ heap'.obj[h] = o /\ \A k \in Handle \ {h} : heap'.obj[k] = heap.obj[k]
      /\ Live(heap) \subseteq Handle /\ held \subseteq Live(heap)
      /\ Target(heap', h) = o.target /\ Sound(heap')
  BY ShapeFacts DEF Made1, FreeObj, NewObject, Target
<1>2. \A k \in Live(heap) : /\ heap'.obj[k] = heap.obj[k] /\ Target(heap', k) = Target(heap, k)
                            /\ k # h
  BY <1>1 DEF Target
<1>3. Files' = Files \cup (IF o.type = "FILE" THEN {h} ELSE {})
  BY <1>1, <1>2 DEF Files
<1>4. \A k \in Files : /\ k \in Live(heap) /\ heap.obj[k].fp \in Fp
                       /\ heap'.obj[k] = heap.obj[k]
  BY <1>2, ShapeFacts
<1>5. held' \subseteq Live(heap')
  BY <1>1 DEF Made1
<1>6. NoDangling'
  <2>1. ASSUME NEW k \in Live(heap') PROVE heap'.obj[k].type \in Filter => Target(heap', k) \in Live(heap')
    <3>1. CASE k = h
      BY <1>1, <3>1 DEF Made1
    <3>2. CASE k # h
      <4>1. k \in Live(heap)
        BY <1>1, <3>2
      <4>2. heap.obj[k].type \in Filter => Target(heap, k) \in Live(heap)
        BY <4>1 DEF Shape, NoDangling, Target
      <4>3. QED
        BY <1>1, <1>2, <4>1, <4>2
    <3>3. QED
      BY <3>1, <3>2
  <2>2. QED
    BY <1>1, <1>5, <2>1 DEF NoDangling, Sound, Target
<1>7. NoLeak'
  <2>1. ASSUME NEW k \in Live(heap'), k \notin held'
        PROVE  \E j \in Live(heap') : Target(heap', j) = k /\ heap'.obj[j].close
    <3>1. k # h /\ k \in Live(heap)
      BY <1>1, <2>1 DEF Made1
    <3>2. CASE k \in held
      BY <1>1, <2>1, <3>1, <3>2 DEF Made1
    <3>3. CASE k \notin held
      <4>1. PICK j \in StackedOn(k) : heap.obj[j].close
        BY <3>1, <3>3 DEF Shape, NoLeak
      <4>2. j \in Live(heap) /\ Target(heap, j) = k
        BY DEF StackedOn, Target
      <4>3. QED
        BY <1>1, <1>2, <4>1, <4>2
    <3>4. QED
      BY <3>2, <3>3
  <2>2. QED
    BY <2>1 DEF NoLeak, StackedOn, Target
<1>8. Stacks'
  <2>1. \A j \in Live(heap) : Target(heap, j) # NULL => Target(heap, j) # o.target
    <3>1. o.target = NULL \/ \A j \in Live(heap) : Target(heap, j) # o.target
      BY DEF Made1, StackedOn, Target
    <3>2. QED
      BY <3>1
  <2>2. ASSUME NEW j \in Live(heap'), NEW k \in Live(heap'), Target(heap', j) = Target(heap', k)
        PROVE  j = k \/ Target(heap', j) = NULL
    <3>1. CASE j # h /\ k # h
      BY <1>1, <1>2, <2>2, <3>1 DEF Shape, Stacks
    <3>2. CASE j = h \/ k = h
      BY <1>1, <1>2, <2>1, <2>2, <3>2
    <3>3. QED
      BY <3>1, <3>2
  <2>3. ASSUME NEW k \in Live(heap'), heap'.obj[k].close PROVE Target(heap', k) \notin held'
    <3>1. CASE k = h
      <4>1. Target(heap', k) \notin held'
        <5>1. o.target # h
          BY <1>1, NullAssumption DEF Made1
        <5>2. QED
          BY <1>1, <2>3, <3>1, <5>1 DEF Made1
      <4>2. QED
        BY <4>1
    <3>2. CASE k # h
      <4>1. k \in Live(heap) /\ Target(heap, k) \notin held /\ Target(heap, k) # h
        BY <1>1, <1>2, <2>3, <3>2, ShapeFacts, NullAssumption DEF Shape, Stacks
      <4>2. QED
        BY <1>2, <4>1 DEF Made1
    <3>3. QED
      BY <3>1, <3>2
  <2>4. QED
    BY <2>2, <2>3 DEF Stacks
<1>9. Owners'
  <2>1. ASSUME NEW k \in Files' PROVE heap'.obj[k].close <=> heap'.obj[k].fp # Stdout
    <3>1. CASE k = h /\ o.type = "FILE"
      BY <1>1, <3>1 DEF Made1
    <3>2. CASE k \in Files
      BY <1>4, <3>2 DEF Shape, Owners
    <3>3. QED
      BY <1>3, <3>1, <3>2
  <2>2. ASSUME NEW j \in Files', NEW k \in Files', heap'.obj[j].fp = heap'.obj[k].fp PROVE j = k
    <3>1. CASE j \in Files /\ k \in Files
      BY <1>4, <2>2, <3>1 DEF Shape, Owners
    <3>2. CASE j \notin Files \/ k \notin Files
      <4>1. o.type = "FILE" /\ \A i \in Files : heap'.obj[i].fp # o.fp
        BY <1>3, <1>4, <3>2 DEF Made1
      <4>2. (j \in Files \/ j = h) /\ (k \in Files \/ k = h)
        BY <1>3
      <4>3. QED
        BY <1>1, <2>2, <3>2, <4>1, <4>2
    <3>3. QED
      BY <3>1, <3>2
  <2>3. QED
    BY <2>1, <2>2 DEF Owners
<1>10. FileOwnership'
  <2>1. /\ heap.file[Stdout].open
        /\ \A f \in Fp \ {Stdout} :
             heap.file[f].open <=> \E k \in Files : heap.obj[k].fp = f /\ heap.obj[k].close
    BY DEF Shape, FileOwnership
  <2>2. heap'.file[Stdout].open
    BY <2>1 DEF Made1
  <2>3. ASSUME NEW f \in Fp \ {Stdout}
        PROVE  heap'.file[f].open <=> \E k \in Files' : heap'.obj[k].fp = f /\ heap'.obj[k].close
    <3>1. CASE o.type = "FILE" /\ f = o.fp
      BY <1>1, <1>3, <3>1 DEF Made1
    <3>2. CASE ~(o.type = "FILE" /\ f = o.fp)
      <4>1. heap'.file[f] = heap.file[f]
        BY <3>2 DEF Made1
      <4>2. (\E k \in Files' : heap'.obj[k].fp = f /\ heap'.obj[k].close)
              <=> \E k \in Files : heap.obj[k].fp = f /\ heap.obj[k].close
        BY <1>1, <1>3, <1>4, <3>2
      <4>3. QED
        BY <2>1, <4>1, <4>2
    <3>3. QED
      BY <3>1, <3>2
  <2>4. QED
    BY <2>2, <2>3 DEF FileOwnership
<1>11. heap'.file[Stdout].disk = Tty
  BY DEF Made1, Shape
<1>12. QED
  BY <1>1, <1>6, <1>7, <1>8, <1>9, <1>10, <1>11 DEF Shape

(* Closing a handle on which nothing is stacked frees what only it needed. *)
LEMMA CloseFacts ==
  ASSUME Shape, NEW h, Close(h), NEW gone, gone = ClosedWith(heap, h),
         NEW e, e = XIO_get_source(heap, h)
  PROVE  /\ h \in held /\ h \in gone /\ gone \subseteq Live(heap) /\ e \in Live(heap)
         /\ gone \cap held = {h}
         /\ \A z \in gone : heap.obj[z].close => Target(heap, z) \in gone \cup {NULL}
         /\ \A k \in Live(heap) \ gone : Target(heap, k) \notin gone
         /\ \A k \in Files \cap gone : k = e
         /\ e \in gone => \A k \in Live(heap) \ gone :
                            heap.obj[k].type = "FILE" => heap.obj[k].fp # heap.obj[e].fp
<1>1. h \in Live(heap) /\ h \in held /\ StackedOn(h) = {} /\ Sound(heap)
  BY ShapeFacts DEF Close, Shape
<1>2. /\ h \in gone /\ gone \subseteq Live(heap) /\ e \in Live(heap)
      /\ \A z \in gone : heap.obj[z].close => Target(heap, z) \in gone \cup {NULL}
      /\ \A k \in gone : k = h \/ \E z \in gone : heap.obj[z].close /\ Target(heap, z) = k
      /\ \A k \in gone : Target(heap, k) = NULL => k = e
  BY <1>1, Gone
<1>3. Live(heap) \subseteq Handle
  BY ShapeFacts
<1>4. ASSUME NEW k \in gone, k # h PROVE k \notin held
  BY <1>2, <1>4 DEF Shape, Stacks
<1>5. ASSUME NEW k \in Live(heap) \ gone PROVE Target(heap, k) \notin gone
  <2>1. SUFFICES ASSUME Target(heap, k) \in gone PROVE FALSE
    OBVIOUS
  <2>2. Target(heap, k) # h
    BY <1>1 DEF StackedOn, Target
  <2>3. PICK z \in gone : Target(heap, z) = Target(heap, k)
    BY <1>2, <2>1, <2>2
  <2>4. Target(heap, k) # NULL
    BY <1>2, <1>3, <2>1, NullAssumption
  <2>5. z = k
    BY <1>2, <2>3, <2>4 DEF Shape, Stacks
  <2>6. QED
    BY <2>5
<1>6. \A k \in Files \cap gone : k = e
  BY <1>2, ShapeFacts
<1>7. ASSUME e \in gone, NEW k \in Live(heap) \ gone, heap.obj[k].type = "FILE",
             heap.obj[k].fp = heap.obj[e].fp
      PROVE  FALSE
  <2>1. k \in Files
    BY <1>7 DEF Files
  <2>2. heap.obj[e].type = "FILE"
    BY <1>2, <1>3, <1>7, <2>1, ShapeFacts DEF GoodObject
  <2>3. e \in Files
    BY <1>2, <2>2 DEF Files
  <2>4. k = e
    BY <1>7, <2>1, <2>3 DEF Shape, Owners
  <2>5. QED
    BY <1>7, <2>4
<1>8. QED
  BY <1>1, <1>2, <1>4, <1>5, <1>6, <1>7

(* What Close does. *)
LEMMA CloseEffect ==
  ASSUME Shape, NEW h, Close(h), NEW gone, gone = ClosedWith(heap, h),
         NEW e, e = XIO_get_source(heap, h), NEW o, o = heap.obj[e]
  PROVE  /\ Sound(heap') /\ Live(heap') = Live(heap) \ gone /\ held' = held \ {h}
         /\ \A k \in Handle \ gone : heap'.obj[k] = heap.obj[k]
         /\ \A d \in Disk : heap'.disk[d].broken = heap.disk[d].broken
         /\ IF e \in gone /\ o.type = "FILE" /\ o.close
            THEN ClosedFileIs(heap, heap', o.fp, heap.file[o.fp].disk)
            ELSE IF e \in gone /\ o.type = "FILE" /\ o.dirty
            THEN FileIs(heap, heap', o.fp, heap.file[o.fp].disk, <<>>, AfterFlush(heap, o.fp))
            ELSE heap'.file = heap.file /\ heap'.disk = heap.disk
<1> DEFINE w == heap'
<1>1. /\ h \in gone /\ h \in Live(heap)
      /\ \A k \in Live(heap) \ gone : Target(heap, k) \notin gone
      /\ e \in gone => \A k \in Live(heap) \ gone : heap.obj[k].type = "FILE" => heap.obj[k].fp # o.fp
  BY CloseFacts
<1>2. Sound(heap) /\ heap' = XIO_close(heap, h) /\ held' = held \ {h}
  BY DEF Shape, Close
<1>3. QED
  BY <1>1, <1>2, Closes

(* Close keeps the shape. *)
LEMMA CloseShape ==
  ASSUME Shape, NEW h, Close(h)
  PROVE  Shape'
<1> DEFINE gone == ClosedWith(heap, h)
           e == XIO_get_source(heap, h)
           o == heap.obj[e]
           f == o.fp
           shut == e \in gone /\ o.type = "FILE" /\ o.close
<1>1. /\ h \in held /\ h \in gone /\ gone \subseteq Live(heap) /\ e \in Live(heap)
      /\ gone \cap held = {h}
      /\ \A z \in gone : heap.obj[z].close => Target(heap, z) \in gone \cup {NULL}
      /\ \A k \in Live(heap) \ gone : Target(heap, k) \notin gone
      /\ \A k \in Files \cap gone : k = e
  BY CloseFacts
<1>2. /\ Sound(heap') /\ Live(heap') = Live(heap) \ gone /\ held' = held \ {h}
      /\ \A k \in Handle \ gone : heap'.obj[k] = heap.obj[k]
      /\ IF shut THEN ClosedFileIs(heap, heap', f, heap.file[f].disk)
         ELSE IF e \in gone /\ o.type = "FILE" /\ o.dirty
         THEN FileIs(heap, heap', f, heap.file[f].disk, <<>>, AfterFlush(heap, f))
         ELSE heap'.file = heap.file /\ heap'.disk = heap.disk
  BY CloseEffect
<1> HIDE DEF gone, e
<1>3. /\ Live(heap) \subseteq Handle /\ held \subseteq Live(heap)
      /\ \A k \in Live(heap) : Target(heap, k) \in Live(heap) \cup {NULL}
      /\ \A k \in Files : k \in Live(heap) /\ heap.obj[k].fp \in Fp
  BY ShapeFacts
<1>4. \A k \in Live(heap') : /\ k \in Live(heap) /\ k \notin gone /\ heap'.obj[k] = heap.obj[k]
                             /\ Target(heap', k) = Target(heap, k)
  BY <1>2, <1>3 DEF Target
<1>5. Files' = Files \ gone
  BY <1>2, <1>3, <1>4 DEF Files
<1>6. NoDangling'
  <2>1. held' \subseteq Live(heap')
    BY <1>1, <1>2, <1>3
  <2>2. ASSUME NEW k \in Live(heap'), heap'.obj[k].type \in Filter
        PROVE  Target(heap', k) \in Live(heap')
    BY <1>1, <1>2, <1>4, <2>2 DEF Shape, NoDangling, Target
  <2>3. QED
    BY <1>2, <2>1, <2>2 DEF NoDangling, Sound, Target
<1>7. NoLeak'
  <2>1. ASSUME NEW k \in Live(heap'), k \notin held'
        PROVE  \E j \in Live(heap') : Target(heap', j) = k /\ heap'.obj[j].close
    <3>1. k \in Live(heap) /\ k \notin gone /\ k \notin held
      BY <1>1, <1>2, <1>4, <2>1
    <3>2. PICK j \in Live(heap) : Target(heap, j) = k /\ heap.obj[j].close
      BY <3>1 DEF Shape, NoLeak, StackedOn, Target
    <3>3. j \notin gone
      BY <1>1, <1>3, <3>1, <3>2, NullAssumption
    <3>4. j \in Live(heap')
      BY <1>2, <3>2, <3>3
    <3>5. QED
      BY <1>4, <3>2, <3>4
  <2>2. QED
    BY <2>1 DEF NoLeak, StackedOn, Target
<1>8. Stacks'
  <2>1. ASSUME NEW j \in Live(heap'), NEW k \in Live(heap'), Target(heap', j) = Target(heap', k)
        PROVE  j = k \/ Target(heap', j) = NULL
    BY <1>4, <2>1 DEF Shape, Stacks
  <2>2. ASSUME NEW k \in Live(heap'), heap'.obj[k].close PROVE Target(heap', k) \notin held'
    BY <1>2, <1>4, <2>2 DEF Shape, Stacks
  <2>3. QED
    BY <2>1, <2>2 DEF Stacks
<1>9. \A k \in Files' : k \in Files /\ heap'.obj[k] = heap.obj[k]
  BY <1>2, <1>3, <1>5
<1>10. Owners'
  BY <1>9 DEF Shape, Owners
<1>11. e \in gone /\ o.type = "FILE" => e \in Files /\ f \in Fp /\ (o.close <=> f # Stdout)
  <2>1. ASSUME o.type = "FILE" PROVE e \in Files
    BY <1>1, <2>1 DEF Files
  <2>2. QED
    BY <1>3, <2>1 DEF Shape, Owners
<1>12. ASSUME NEW g \in Fp, shut => g # f
       PROVE  heap'.file[g].open = heap.file[g].open /\ heap'.file[g].disk = heap.file[g].disk
  <2>1. CASE shut
    BY <1>2, <1>12, <2>1 DEF ClosedFileIs
  <2>2. CASE ~shut /\ e \in gone /\ o.type = "FILE" /\ o.dirty
    <3>1. FileIs(heap, heap', f, heap.file[f].disk, <<>>, AfterFlush(heap, f))
      BY <1>2, <2>2
    <3>2. CASE g = f
      <4>1. heap.file[f] \in File
        BY <3>2, ShapeFacts DEF Heap
      <4>2. QED
        BY <3>1, <3>2, <4>1 DEF FileIs, File
    <3>3. CASE g # f
      BY <3>1, <3>3 DEF FileIs
    <3>4. QED
      BY <3>2, <3>3
  <2>3. CASE ~shut /\ ~(e \in gone /\ o.type = "FILE" /\ o.dirty)
    BY <1>2, <2>3
  <2>4. QED
    BY <2>1, <2>2, <2>3
<1>13. shut => ~heap'.file[f].open
  BY <1>2, ClosedGood DEF ClosedFileIs
<1>14. shut => f # Stdout
  BY <1>11
<1>15. FileOwnership'
  <2>1. /\ heap.file[Stdout].open
        /\ \A g \in Fp \ {Stdout} :
             heap.file[g].open <=> \E k \in Files : heap.obj[k].fp = g /\ heap.obj[k].close
    BY DEF Shape, FileOwnership
  <2>2. heap'.file[Stdout].open
    BY <1>12, <1>14, <2>1, ClientAssumption
  <2>3. ASSUME NEW g \in Fp \ {Stdout}
        PROVE  heap'.file[g].open <=> \E k \in Files' : heap'.obj[k].fp = g /\ heap'.obj[k].close
    <3>1. CASE shut /\ g = f
      <4>1. \A k \in Files' : heap'.obj[k].fp # f
        <5>1. ASSUME NEW k \in Files', heap'.obj[k].fp = f PROVE FALSE
          <6>1. k = e
            BY <1>9, <1>11, <3>1, <5>1 DEF Shape, Owners
          <6>2. QED
            BY <1>5, <3>1, <6>1
        <5>2. QED
          BY <5>1
      <4>2. QED
        BY <1>13, <3>1, <4>1
    <3>2. CASE ~(shut /\ g = f)
      <4>1. heap'.file[g].open = heap.file[g].open
        BY <1>12, <3>2
      <4>2. ASSUME NEW k \in Files, heap.obj[k].fp = g, heap.obj[k].close
            PROVE  k \in Files'
        <5>1. SUFFICES ASSUME k \in gone PROVE FALSE
          BY <1>5
        <5>2. k = e /\ o.type = "FILE"
          BY <1>1, <5>1 DEF Files
        <5>3. QED
          BY <3>2, <4>2, <5>1, <5>2
      <4>3. QED
        BY <1>9, <2>1, <4>1, <4>2
    <3>3. QED
      BY <3>1, <3>2
  <2>4. QED
    BY <2>2, <2>3 DEF FileOwnership
<1>16. heap'.file[Stdout].disk = Tty
  BY <1>12, <1>14, ClientAssumption DEF Shape
<1>17. QED
  BY <1>2, <1>6, <1>7, <1>8, <1>10, <1>15, <1>16 DEF Shape

-----------------------------------------------------------------------------
(* What reaches the devices. *)
LEMMA Assoc ==
  ASSUME NEW r \in Seq(Byte), NEW s \in Seq(Byte), NEW t \in Seq(Byte)
  PROVE  (r \o s) \o t = r \o (s \o t)
BY ConcatAssociative

(* A string written reaches the buffer or the device, and the object that must flush it. *)
LEMMA WriteKeeps ==
  ASSUME IInv, NEW h \in Handle, NEW s \in Text, Write(h, s)
  PROVE  IInv'
<1> DEFINE e == Last(Chain(heap, h))
           x == FlattenSeq(Last(Handed(heap, Chain(heap, h), s)))
           o == heap.obj[e]
           f == o.fp
           d == heap.file[f].disk
           b == heap.file[f].buf \o x
           file == o.type = "FILE" /\ heap.file[f].mode # "rb"
<1>1. /\ Shape /\ Content /\ Sound(heap) /\ h \in Live(heap) /\ s \in Seq(Byte)
      /\ heap' = XIO_write(heap, h, s).hp /\ held' = held /\ exempt' = exempt
      /\ wanted' = IF file THEN [wanted EXCEPT ![d] = @ \o x] ELSE wanted
  BY ShapeFacts, ClientAssumption DEF IInv, Shape, Write, Encoded, DiskOf, Byte
<1>2. /\ Sound(heap') /\ Live(heap') = Live(heap) /\ SameFiles(heap, heap')
      /\ \A k \in Handle : /\ SameObject(heap.obj[k], heap'.obj[k])
                           /\ heap.obj[k].dirty => heap'.obj[k].dirty
      /\ e \in Live(heap) /\ x \in Seq(Byte)
      /\ IF o.type = "FILE" THEN Fwritten(heap, heap', f, x) /\ (x # <<>> => heap'.obj[e].dirty)
         ELSE heap'.file = heap.file /\ heap'.disk = heap.disk
  <2> HIDE DEF e, x, file
  <2>1. e = Last(Chain(heap, h)) /\ x = FlattenSeq(Last(Handed(heap, Chain(heap, h), s)))
    BY DEF e, x
  <2>2. /\ Sound(heap') /\ Live(heap') = Live(heap) /\ SameFiles(heap, heap')
        /\ \A k \in Handle : /\ SameObject(heap.obj[k], heap'.obj[k])
                             /\ heap.obj[k].dirty => heap'.obj[k].dirty
        /\ e \in Live(heap) /\ x \in Seq(Byte) /\ Target(heap, e) = NULL
        /\ IF heap.obj[e].type = "FILE"
           THEN Fwritten(heap, heap', heap.obj[e].fp, x) /\ (x # <<>> => heap'.obj[e].dirty)
           ELSE heap'.file = heap.file /\ heap'.disk = heap.disk
    <3>1. /\ Sound(heap) /\ h \in Live(heap) /\ s \in Seq(Byte)
          /\ heap' = XIO_write(heap, h, s).hp
      BY <1>1
    <3>2. QED
      BY <2>1, <3>1, Writes
  <2>3. QED
    BY <2>2
<1>3. Shape'
  BY <1>1, <1>2, QuietShape DEF SameFiles
<1> HIDE DEF e, x
<1>4. /\ Live(heap) \subseteq Handle /\ heap \in Heap
      /\ \A g \in Fp : heap.file[g].open => heap.file[g].disk \in Disk
      /\ \A k \in Files : k \in Live(heap) /\ heap.obj[k].fp \in Fp /\ heap.file[heap.obj[k].fp].open
  BY <1>1, ShapeFacts
<1>5. \A g \in Fp : heap'.file[g].open = heap.file[g].open /\ heap'.file[g].disk = heap.file[g].disk
  BY <1>2 DEF SameFiles
<1>6. \A a \in Disk : heap'.disk[a].broken = heap.disk[a].broken
  BY <1>2 DEF SameFiles
<1>7. Files' = Files /\ \A k \in Files : heap'.obj[k].fp = heap.obj[k].fp
  BY <1>2, <1>4 DEF Files, SameObject
<1>8. CASE ~file
  <2>1. heap'.file = heap.file /\ heap'.disk = heap.disk /\ wanted' = wanted
    BY <1>1, <1>2, <1>8 DEF Fwritten
  <2>2. Content'
    <3>1. NothingLeftBehind'
      <4>1. \A k \in Files : heap.obj[k].dirty => heap'.obj[k].dirty
        BY <1>2, <1>4
      <4>2. QED
        BY <1>1, <1>7, <2>1, <4>1, ZenonT(40) DEF NothingLeftBehind, Content
    <3>2. QED
      BY <1>1, <2>1, <3>1, ZenonT(40) DEF Content, OneFile, Idle, Delivered
  <2>3. QED
    BY <1>3, <2>2 DEF IInv
<1>9. CASE file
  <2>1. e \in Files /\ f \in Fp /\ heap.file[f].open /\ d \in Disk
    BY <1>2, <1>4, <1>9 DEF Files
  <2>2. heap.file[f].buf \in Seq(Byte) /\ heap.disk[d].data \in Seq(Byte) /\ wanted[d] \in Seq(Byte)
        /\ wanted \in [Disk -> Seq(Byte)] /\ heap.file[f] \in File /\ heap.disk[d] \in Device
    BY <1>1, <1>4, <2>1 DEF Heap, File, Device, Content
  <2>3. b \in Seq(Byte) /\ wanted[d] \o x \in Seq(Byte)
    BY <1>2, <2>2, ConcatProperties
  <2>4. /\ wanted' \in [Disk -> Seq(Byte)] /\ wanted'[d] = wanted[d] \o x
        /\ \A a \in Disk \ {d} : wanted'[a] = wanted[a]
    BY <1>1, <1>9, <2>1, <2>2, <2>3
  <2>5. \/ FileIs(heap, heap', f, d, b, heap.disk[d].data)
        \/ heap.disk[d].broken /\ FileIs(heap, heap', f, d, <<>>, heap.disk[d].data)
        \/ FileIs(heap, heap', f, d, <<>>, heap.disk[d].data \o b)
    BY <1>2, <1>9, Zenon DEF Fwritten
  <2> HIDE DEF d, f, o, b
  <2>6. PICK buf, data : /\ FileIs(heap, heap', f, d, buf, data)
                         /\ \/ buf = b /\ data = heap.disk[d].data
                            \/ buf = <<>> /\ (heap.disk[d].broken \/ data = heap.disk[d].data \o b)
    BY <2>5
  <2>7. /\ heap'.file[f].buf = buf /\ \A g \in Fp \ {f} : heap'.file[g].buf = heap.file[g].buf
        /\ heap'.disk[d].data = data /\ \A a \in Disk \ {d} : heap'.disk[a].data = heap.disk[a].data
    BY <2>2, <2>6 DEF FileIs, File, Device
  <2>8. NothingLeftBehind'
    <3>1. ASSUME NEW g \in Fp, heap'.file[g].buf # <<>>
          PROVE  \E k \in Files : heap.obj[k].fp = g /\ heap'.obj[k].dirty
      <4>1. CASE heap.file[g].buf # <<>>
        <5>1. PICK k \in Files : heap.obj[k].fp = g /\ heap.obj[k].dirty
          BY <1>1, <4>1 DEF Content, NothingLeftBehind
        <5>2. QED
          BY <1>2, <1>4, <5>1
      <4>2. CASE heap.file[g].buf = <<>>
        <5>1. g = f /\ buf = b
          BY <2>6, <2>7, <3>1, <4>2
        <5>2. b = <<>> \o x
          BY <4>2, <5>1 DEF b
        <5>3. b = x
          BY <1>2, <5>2, ConcatEmptySeq
        <5>4. x # <<>>
          BY <2>7, <3>1, <5>1, <5>3
        <5>5. heap'.obj[e].dirty
          BY <1>2, <1>9, <5>4 DEF o
        <5>6. QED
          BY <2>1, <5>1, <5>5 DEF f, o
      <4>3. QED
        BY <4>1, <4>2
    <3>2. QED
      BY <1>7, <3>1 DEF NothingLeftBehind
  <2>9. OneFile'
    BY <1>1, <1>5 DEF Content, OneFile
  <2>10. ASSUME NEW g \in Fp, heap.file[g].open, heap.file[g].disk = d, d \notin exempt PROVE g = f
    BY <1>1, <2>1, <2>10 DEF Content, OneFile, d
  <2>11. Idle'
    <3>1. ASSUME NEW a \in Disk \ exempt, ~heap.disk[a].broken,
                 \A g \in Fp : heap.file[g].open => heap.file[g].disk # a
          PROVE  heap'.disk[a].data = wanted'[a]
      <4>1. a # d
        BY <2>1, <3>1 DEF d
      <4>2. heap.disk[a].data = wanted[a]
        BY <1>1, <3>1 DEF Content, Idle
      <4>3. QED
        BY <2>4, <2>7, <4>1, <4>2
    <3>2. QED
      BY <1>1, <1>5, <1>6, <3>1 DEF Idle
  <2>12. Delivered'
    <3>1. ASSUME NEW g \in Fp, NEW a, a = heap.file[g].disk, heap.file[g].open, a \notin exempt,
                 ~heap.disk[a].broken
          PROVE  heap'.disk[a].data \o heap'.file[g].buf = wanted'[a]
      <4>1. a \in Disk /\ heap.disk[a].data \o heap.file[g].buf = wanted[a]
        BY <1>1, <1>4, <3>1 DEF Content, Delivered
      <4>2. CASE a = d
        <5>1. g = f
          BY <2>10, <3>1, <4>2
        <5>2. heap.disk[d].data \o b = wanted'[d]
          <6>1. heap.disk[d].data \o b = (heap.disk[d].data \o heap.file[f].buf) \o x
            BY <1>2, <2>2, Assoc DEF b
          <6>2. QED
            BY <2>4, <4>1, <4>2, <5>1, <6>1
        <5>3. CASE buf = b /\ data = heap.disk[d].data
          BY <2>7, <4>2, <5>1, <5>2, <5>3
        <5>4. CASE buf = <<>> /\ data = heap.disk[d].data \o b
          <6>1. wanted'[d] \o <<>> = wanted'[d]
            BY <2>3, <2>4, ConcatEmptySeq
          <6>2. QED
            BY <2>7, <4>2, <5>1, <5>2, <5>4, <6>1
        <5>5. QED
          BY <2>6, <3>1, <4>2, <5>3, <5>4
      <4>3. CASE a # d
        <5>1. g # f
          BY <3>1, <4>3 DEF d
        <5>2. QED
          BY <2>4, <2>7, <4>1, <4>3, <5>1
      <4>4. QED
        BY <4>2, <4>3
    <3>2. QED
      BY <1>1, <1>4, <1>5, <1>6, <3>1 DEF Delivered
  <2>13. Content'
    BY <1>1, <2>4, <2>8, <2>9, <2>11, <2>12 DEF Content
  <2>14. QED
    BY <1>3, <2>13 DEF IInv
<1>10. QED
  BY <1>8, <1>9

(* A FILE that is flushed, and then closed or not, has given its device everything. *)
LEMMA Drained ==
  ASSUME IInv, wanted' = wanted, exempt' = exempt,
         \A a \in Disk : heap'.disk[a].broken = heap.disk[a].broken,
         NEW f \in Fp, heap.file[f].open, NEW d, d = heap.file[f].disk,
         \A g \in Fp \ {f} : heap'.file[g] = heap.file[g],
         \A a \in Disk \ {d} : heap'.disk[a] = heap.disk[a],
         heap'.disk[d].data = AfterFlush(heap, f), heap'.file[f].buf = <<>>,
         heap'.file[f].open => heap'.file[f].disk = d
  PROVE  OneFile' /\ Idle' /\ Delivered'
<1>1. /\ wanted \in [Disk -> Seq(Byte)] /\ heap \in Heap /\ d \in Disk
      /\ \A g \in Fp : heap.file[g].open => heap.file[g].disk \in Disk
      /\ OneFile /\ Idle /\ Delivered
  BY ShapeFacts DEF IInv, Content
<1>2. \A g \in Fp : heap'.file[g].open => heap.file[g].open /\ heap'.file[g].disk = heap.file[g].disk
  <2>1. ASSUME NEW g \in Fp, heap'.file[g].open
        PROVE  heap.file[g].open /\ heap'.file[g].disk = heap.file[g].disk
    <3>1. CASE g = f
      BY <2>1, <3>1
    <3>2. CASE g # f
      BY <2>1, <3>2
    <3>3. QED
      BY <3>1, <3>2
  <2>2. QED
    BY <2>1
<1>3. d \notin exempt /\ ~heap.disk[d].broken => heap'.disk[d].data = wanted[d]
  BY <1>1 DEF Delivered, AfterFlush
<1>4. OneFile'
  BY <1>1, <1>2 DEF OneFile
<1>5. Idle'
  <2>1. ASSUME NEW a \in Disk \ exempt, ~heap.disk[a].broken,
               \A g \in Fp : heap'.file[g].open => heap'.file[g].disk # a
        PROVE  heap'.disk[a].data = wanted[a]
    <3>1. CASE a = d
      BY <1>3, <2>1, <3>1
    <3>2. CASE a # d
      <4>1. \A g \in Fp : heap.file[g].open => heap.file[g].disk # a
        BY <2>1, <3>2
      <4>2. QED
        BY <1>1, <2>1, <3>2, <4>1 DEF Idle
    <3>3. QED
      BY <3>1, <3>2
  <2>2. QED
    BY <2>1 DEF Idle
<1>6. Delivered'
  <2>1. ASSUME NEW g \in Fp, NEW a, a = heap'.file[g].disk, heap'.file[g].open, a \notin exempt,
               ~heap'.disk[a].broken
        PROVE  heap'.disk[a].data \o heap'.file[g].buf = wanted[a]
    <3>1. a \in Disk /\ heap.file[g].open /\ heap.file[g].disk = a /\ ~heap.disk[a].broken
      BY <1>1, <1>2, <2>1
    <3>2. CASE a = d
      <4>1. g = f
        BY <1>1, <2>1, <3>1, <3>2 DEF OneFile
      <4>2. wanted[d] \in Seq(Byte)
        BY <1>1
      <4>3. wanted[d] \o <<>> = wanted[d]
        BY <4>2, ConcatEmptySeq
      <4>4. QED
        BY <1>3, <2>1, <3>1, <3>2, <4>1, <4>3
    <3>3. CASE a # d
      <4>1. g # f
        BY <3>1, <3>3
      <4>2. heap'.file[g] = heap.file[g] /\ heap'.disk[a] = heap.disk[a]
        BY <3>1, <3>3, <4>1
      <4>3. heap.disk[a].data \o heap.file[g].buf = wanted[a]
        BY <1>1, <2>1, <3>1 DEF Delivered
      <4>4. QED
        BY <4>2, <4>3
    <3>4. QED
      BY <3>2, <3>3
  <2>2. QED
    BY <2>1 DEF Delivered
<1>7. QED
  BY <1>4, <1>5, <1>6

(* A flush empties one buffer into its device, and forgets only that one. *)
LEMMA FlushKeeps ==
  ASSUME IInv, NEW h \in Handle, Flush(h)
  PROVE  IInv'
<1> DEFINE o == heap.obj[h]
           f == o.fp
           d == heap.file[f].disk
<1>1. /\ Shape /\ Content /\ Sound(heap) /\ h \in Live(heap) /\ heap' = XIO_flush(heap, h)
      /\ held' = held /\ exempt' = exempt /\ wanted' = wanted
  BY ShapeFacts DEF IInv, Shape, Flush
<1>2. /\ Sound(heap') /\ Live(heap') = Live(heap) /\ SameFiles(heap, heap')
      /\ \A k \in Handle : /\ SameObject(heap.obj[k], heap'.obj[k])
                           /\ k # h => heap'.obj[k] = heap.obj[k]
      /\ IF o.dirty /\ o.type = "FILE" THEN FileIs(heap, heap', f, d, <<>>, AfterFlush(heap, f))
         ELSE heap'.file = heap.file /\ heap'.disk = heap.disk
  BY <1>1, Flushes
<1>3. Shape'
  BY <1>1, <1>2, QuietShape DEF SameFiles
<1>4. /\ Live(heap) \subseteq Handle /\ heap \in Heap
      /\ \A k \in Files : k \in Live(heap) /\ heap.obj[k].fp \in Fp /\ heap.file[heap.obj[k].fp].open
      /\ \A g \in Fp : heap.file[g].open => heap.file[g].disk \in Disk
  BY <1>1, ShapeFacts
<1>5. Files' = Files /\ \A k \in Files : heap'.obj[k].fp = heap.obj[k].fp
  BY <1>2, <1>4 DEF Files, SameObject
<1>6. \A g \in Fp : heap.file[g].buf # <<>> =>
        \E k \in Files : heap.obj[k].fp = g /\ heap.obj[k].dirty
  BY <1>1 DEF Content, NothingLeftBehind
<1>7. CASE ~(o.dirty /\ o.type = "FILE")
  <2>1. heap'.file = heap.file /\ heap'.disk = heap.disk
    BY <1>2, <1>7
  <2>2. \A k \in Files : heap.obj[k].dirty => heap'.obj[k].dirty
    <3>1. \A k \in Files : heap.obj[k].dirty => k # h
      BY <1>7 DEF Files
    <3>2. QED
      BY <1>2, <1>4, <3>1
  <2>3. NothingLeftBehind'
    BY <1>5, <1>6, <2>1, <2>2 DEF NothingLeftBehind
  <2>4. OneFile' /\ Idle'
    BY <1>1, <2>1 DEF Content, OneFile, Idle
  <2>5. Delivered'
    BY <1>1, <2>1 DEF Content, Delivered
  <2>6. Content'
    BY <1>1, <2>3, <2>4, <2>5 DEF Content
  <2>7. QED
    BY <1>3, <2>6 DEF IInv
<1>8. CASE o.dirty /\ o.type = "FILE"
  <2>1. h \in Files /\ f \in Fp /\ heap.file[f].open /\ d \in Disk
    BY <1>1, <1>4, <1>8 DEF Files
  <2>2. heap.file[f] \in File /\ heap.disk[d] \in Device
    BY <1>4, <2>1 DEF Heap
  <2>3. FileIs(heap, heap', f, d, <<>>, AfterFlush(heap, f))
    BY <1>2, <1>8
  <2> HIDE DEF o, f, d
  <2>4. /\ heap'.file[f].buf = <<>> /\ heap'.file[f].disk = heap.file[f].disk
        /\ heap'.disk[d].data = AfterFlush(heap, f)
        /\ \A g \in Fp \ {f} : heap'.file[g] = heap.file[g]
        /\ \A a \in Disk \ {d} : heap'.disk[a] = heap.disk[a]
    BY <2>2, <2>3 DEF FileIs, File, Device
  <2>5. OneFile' /\ Idle' /\ Delivered'
    <3>1. \A a \in Disk : heap'.disk[a].broken = heap.disk[a].broken
      BY <1>2 DEF SameFiles
    <3>2. d = heap.file[f].disk
      BY DEF d
    <3>3. QED
      BY <1>1, <2>1, <2>4, <3>1, <3>2, Drained
  <2>6. NothingLeftBehind'
    <3>1. ASSUME NEW g \in Fp, heap'.file[g].buf # <<>>
          PROVE  \E k \in Files : heap.obj[k].fp = g /\ heap'.obj[k].dirty
      <4>1. g # f /\ heap.file[g].buf # <<>>
        BY <2>4, <3>1
      <4>2. PICK k \in Files : heap.obj[k].fp = g /\ heap.obj[k].dirty
        BY <1>6, <4>1
      <4>3. k # h
        BY <4>1, <4>2 DEF f, o
      <4>4. QED
        BY <1>2, <1>4, <4>2, <4>3
    <3>2. QED
      BY <1>5, <3>1 DEF NothingLeftBehind
  <2>7. QED
    BY <1>1, <1>3, <2>5, <2>6 DEF IInv, Content
<1>9. QED
  BY <1>7, <1>8

(* The only object that forgets without flushing is one with nothing to flush. *)
LEMMA CloseKeeps ==
  ASSUME IInv, NEW h \in Handle, Close(h)
  PROVE  IInv'
<1> DEFINE gone == ClosedWith(heap, h)
           e == XIO_get_source(heap, h)
           o == heap.obj[e]
           f == o.fp
           d == heap.file[f].disk
           shut == e \in gone /\ o.type = "FILE" /\ o.close
           flushed == ~shut /\ e \in gone /\ o.type = "FILE" /\ o.dirty
<1>1. Shape /\ Content /\ exempt' = exempt /\ wanted' = wanted
  BY DEF IInv, Close
<1>2. /\ Live(heap') = Live(heap) \ gone
      /\ \A k \in Handle \ gone : heap'.obj[k] = heap.obj[k]
      /\ \A a \in Disk : heap'.disk[a].broken = heap.disk[a].broken
      /\ IF shut THEN ClosedFileIs(heap, heap', f, d)
         ELSE IF e \in gone /\ o.type = "FILE" /\ o.dirty
         THEN FileIs(heap, heap', f, d, <<>>, AfterFlush(heap, f))
         ELSE heap'.file = heap.file /\ heap'.disk = heap.disk
  BY <1>1, CloseEffect
<1>3. e \in Live(heap) /\ \A k \in Files \cap gone : k = e
  BY <1>1, CloseFacts
<1>4. Shape'
  BY <1>1, CloseShape
<1>5. /\ Live(heap) \subseteq Handle /\ heap \in Heap
      /\ \A k \in Files : k \in Live(heap) /\ heap.obj[k].fp \in Fp /\ heap.file[heap.obj[k].fp].open
      /\ \A g \in Fp : heap.file[g].open => heap.file[g].disk \in Disk
  BY <1>1, ShapeFacts
<1> HIDE DEF gone, e
<1>6. \A k \in Files \ gone : k \in Files' /\ heap'.obj[k] = heap.obj[k]
  BY <1>2, <1>5 DEF Files
<1>7. \A g \in Fp : heap.file[g].buf # <<>> =>
        \E k \in Files : heap.obj[k].fp = g /\ heap.obj[k].dirty
  BY <1>1 DEF Content, NothingLeftBehind
<1>8. o.type = "FILE" => e \in Files /\ f \in Fp /\ heap.file[f].open /\ d \in Disk
  BY <1>3, <1>5 DEF Files
<1> HIDE DEF o, f, d
<1>9. shut \/ flushed =>
        /\ heap'.file[f].buf = <<>> /\ (heap'.file[f].open => heap'.file[f].disk = d)
        /\ heap'.disk[d].data = AfterFlush(heap, f)
        /\ \A g \in Fp \ {f} : heap'.file[g] = heap.file[g]
        /\ \A a \in Disk \ {d} : heap'.disk[a] = heap.disk[a]
  <2>1. o.type = "FILE" => heap.file[f] \in File /\ heap.disk[d] \in Device
    BY <1>5, <1>8 DEF Heap
  <2>2. CASE shut
    <3>1. ClosedFileIs(heap, heap', f, d)
      BY <1>2, <2>2
    <3>2. Closed.buf = <<>> /\ ~Closed.open
      BY DEF Closed
    <3>3. QED
      BY <2>1, <2>2, <3>1, <3>2 DEF ClosedFileIs, Device
  <2>3. CASE flushed
    <3>1. FileIs(heap, heap', f, d, <<>>, AfterFlush(heap, f))
      BY <1>2, <2>3
    <3>2. QED
      BY <2>1, <2>3, <3>1 DEF FileIs, File, Device, d
  <2>4. QED
    BY <2>2, <2>3
<1>10. ~shut /\ ~flushed => heap'.file = heap.file /\ heap'.disk = heap.disk
  BY <1>2
<1>11. NothingLeftBehind'
  <2>1. ASSUME NEW g \in Fp, heap'.file[g].buf # <<>>
        PROVE  \E k \in Files' : heap'.obj[k].fp = g /\ heap'.obj[k].dirty
    <3>1. heap.file[g].buf # <<>> /\ (shut \/ flushed => g # f)
      BY <1>9, <1>10, <2>1
    <3>2. PICK k \in Files : heap.obj[k].fp = g /\ heap.obj[k].dirty
      BY <1>7, <3>1
    <3>3. k \notin gone
      <4>1. SUFFICES ASSUME k \in gone PROVE FALSE
        OBVIOUS
      <4>2. k = e /\ o.type = "FILE"
        BY <1>3, <3>2, <4>1 DEF Files, o
      <4>3. QED
        BY <3>1, <3>2, <4>1, <4>2 DEF f, o
    <3>4. QED
      BY <1>6, <3>2, <3>3
  <2>2. QED
    BY <2>1 DEF NothingLeftBehind
<1>12. OneFile' /\ Idle' /\ Delivered'
  <2>1. CASE shut \/ flushed
    <3>1. f \in Fp /\ heap.file[f].open /\ d = heap.file[f].disk
      BY <1>8, <2>1 DEF d
    <3>2. QED
      BY <1>1, <1>2, <1>9, <2>1, <3>1, Drained
  <2>2. CASE ~shut /\ ~flushed
    BY <1>1, <1>10, <2>2, ZenonT(40) DEF Content, OneFile, Idle, Delivered
  <2>3. QED
    BY <2>1, <2>2
<1>13. QED
  BY <1>1, <1>4, <1>11, <1>12 DEF IInv, Content

(* Reading moves positions only. *)
LEMMA ReadKeeps ==
  ASSUME IInv, NEW h \in Handle, Read(h, 1)
  PROVE  IInv'
<1>1. /\ Shape /\ Content /\ Sound(heap) /\ h \in Live(heap) /\ heap' = XIO_read(heap, h, 1).hp
      /\ held' = held /\ exempt' = exempt /\ wanted' = wanted
  BY ShapeFacts DEF IInv, Shape, Read
<1>2. /\ Sound(heap') /\ Live(heap') = Live(heap) /\ SameFiles(heap, heap') /\ heap'.disk = heap.disk
      /\ \A f \in Fp : heap'.file[f].buf = heap.file[f].buf
      /\ \A k \in Handle : /\ SameObject(heap.obj[k], heap'.obj[k])
                           /\ heap'.obj[k].dirty = heap.obj[k].dirty
  BY <1>1, Reads
<1>3. Shape'
  BY <1>1, <1>2, QuietShape DEF SameFiles
<1>4. Live(heap) \subseteq Handle /\ Files \subseteq Live(heap)
  BY <1>1, ShapeFacts DEF Files
<1>5. Files' = Files /\ \A k \in Files : heap'.obj[k].fp = heap.obj[k].fp
  BY <1>2, <1>4 DEF Files, SameObject
<1>6. NothingLeftBehind'
  BY <1>1, <1>2, <1>4, <1>5, SMTT(20) DEF Content, NothingLeftBehind
<1>7. \A f \in Fp : /\ heap'.file[f].open = heap.file[f].open
                    /\ heap'.file[f].disk = heap.file[f].disk
  BY <1>2 DEF SameFiles
<1>8. \A d \in Disk : heap'.disk[d] = heap.disk[d]
  BY <1>2
<1>9. OneFile /\ Idle /\ Delivered
  BY <1>1 DEF Content
<1>10. OneFile'
  BY <1>1, <1>7, <1>9 DEF OneFile
<1>11. Idle'
  BY <1>1, <1>7, <1>8, <1>9 DEF Idle
<1>12. Delivered'
  BY <1>1, <1>2, <1>7, <1>9 DEF Delivered
<1>13. QED
  BY <1>1, <1>3, <1>6, <1>10, <1>11, <1>12 DEF IInv, Content

(* Of a device that fails nothing is promised any more. *)
LEMMA FailKeeps ==
  ASSUME IInv, NEW d \in Disk, DeviceFails(d)
  PROVE  IInv'
<1> DEFINE p == [heap.disk[d] EXCEPT !.broken = TRUE]
<1>1. /\ Shape /\ Content /\ Sound(heap) /\ heap \in Heap
      /\ held' = held /\ exempt' = exempt /\ wanted' = wanted
  BY ShapeFacts DEF IInv, Shape, DeviceFails
<1>2. \A a \in Disk : ~heap.disk[a].broken
  BY DEF DeviceFails
<1>3. /\ heap' \in Heap /\ heap'.obj = heap.obj /\ heap'.file = heap.file
      /\ \A a \in Disk : /\ heap'.disk[a].data = heap.disk[a].data
                         /\ ~heap'.disk[a].broken => ~heap.disk[a].broken
  <2>1. p \in Device /\ p.data = heap.disk[d].data
    BY <1>1 DEF Heap, Device
  <2>2. heap' = WithDisk(heap, d, p)
    BY <1>1 DEF DeviceFails, WithDisk, Heap
  <2> HIDE DEF p
  <2>3. /\ heap' \in Heap /\ heap'.obj = heap.obj /\ heap'.file = heap.file
        /\ heap'.disk[d] = p /\ \A a \in Disk \ {d} : heap'.disk[a] = heap.disk[a]
    BY <1>1, <2>1, <2>2, DiskPut
  <2>4. \A a \in Disk : heap'.disk[a].data = heap.disk[a].data
    BY <2>1, <2>3
  <2>5. QED
    BY <1>2, <2>3, <2>4
<1>4. Sound(heap') /\ Live(heap') = Live(heap)
  <2>1. Live(heap') = Live(heap)
    BY <1>3 DEF Live
  <2>2. Chained(heap')
    BY <1>1, <1>3, SameTargets DEF Sound, GoodHeap, Target
  <2>3. GoodHeap(heap')
    BY <1>1, <1>3, <2>2 DEF Sound, GoodHeap
  <2>4. QED
    BY <1>1, <1>3, <2>1, <2>3 DEF Sound, Target
<1>5. Shape'
  BY <1>1, <1>3, <1>4, QuietShape DEF SameObject
<1>6. Files' = Files
  BY <1>3, <1>4 DEF Files
<1>7. NothingLeftBehind'
  BY <1>1, <1>3, <1>6 DEF Content, NothingLeftBehind
<1>8. \A f \in Fp : heap.file[f].open => heap.file[f].disk \in Disk
  BY <1>1, ShapeFacts
<1>9. OneFile /\ Idle /\ Delivered
  BY <1>1 DEF Content
<1>10. OneFile'
  BY <1>1, <1>3, <1>9 DEF OneFile
<1>11. Idle'
  BY <1>1, <1>3, <1>9 DEF Idle
<1>12. Delivered'
  BY <1>1, <1>3, <1>8, <1>9 DEF Delivered
<1>13. QED
  BY <1>1, <1>5, <1>7, <1>10, <1>11, <1>12 DEF IInv, Content

-----------------------------------------------------------------------------
(* Calls that make an object: what Alloc adds to a heap that has the objects of *)
(* the old one.                                                                  *)
LEMMA AllocMade ==
  ASSUME Shape, NEW h \in FreeObj(heap), NEW hp, Sound(hp), hp.obj = heap.obj,
         Live(hp) = Live(heap), NEW o, IsNew(o, o.type, o.close, o.target, o.fp),
         o.target = NULL \/ o.target \in held, o.type = "FILE" => hp.file[o.fp].open,
         heap' = Alloc(hp, h, o)
  PROVE  /\ Sound(heap') /\ NewObject(heap, heap', h, o)
         /\ heap'.file = hp.file /\ heap'.disk = hp.disk
<1>1. h \in FreeObj(hp) /\ held \subseteq Live(hp)
  BY ShapeFacts DEF FreeObj
<1>2. o \in Object /\ GoodObject(o) /\ o # Unused /\ o.target \in Live(hp) \cup {NULL}
  BY <1>1 DEF IsNew
<1> DEFINE w == heap'
<1>3. w = Alloc(hp, h, o)
  OBVIOUS
<1> HIDE DEF w
<1>4. Sound(w) /\ NewObject(hp, w, h, o) /\ w.file = hp.file /\ w.disk = hp.disk
  BY <1>1, <1>2, <1>3, Allocs
<1>5. QED
  BY <1>4 DEF NewObject, w

(* A new object leaves nothing behind: the old ones still remember. *)
LEMMA NewBehind ==
  ASSUME IInv, NEW h, NEW o, Made1(h, o),
         \A g \in Fp : heap'.file[g].buf = <<>> \/ heap'.file[g] = heap.file[g]
  PROVE  NothingLeftBehind'
<1>1. /\ \A k \in Handle \ {h} : heap'.obj[k] = heap.obj[k]
      /\ Live(heap') = Live(heap) \cup {h} /\ h \notin Live(heap)
  BY DEF Made1, NewObject, FreeObj
<1>2. Live(heap) \subseteq Handle
  BY ShapeFacts DEF IInv
<1>3. \A k \in Files : k \in Files' /\ heap'.obj[k] = heap.obj[k]
  BY <1>1, <1>2 DEF Files
<1>4. ASSUME NEW g \in Fp, heap'.file[g].buf # <<>>
      PROVE  \E k \in Files' : heap'.obj[k].fp = g /\ heap'.obj[k].dirty
  <2>1. heap.file[g].buf # <<>>
    BY <1>4
  <2>2. PICK k \in Files : heap.obj[k].fp = g /\ heap.obj[k].dirty
    BY <2>1 DEF IInv, Content, NothingLeftBehind
  <2>3. QED
    BY <1>3, <2>2
<1>5. QED
  BY <1>4 DEF NothingLeftBehind

(* An object on no new FILE. *)
LEMMA NewKeeps ==
  ASSUME IInv, NEW h, NEW o, Made1(h, o), heap'.file = heap.file, heap'.disk = heap.disk,
         wanted' = wanted, exempt' = exempt
  PROVE  IInv'
<1>1. Shape'
  BY NewShape DEF IInv
<1>2. NothingLeftBehind'
  BY NewBehind
<1>3. Content
  BY DEF IInv
<1>4. OneFile' /\ Idle' /\ Delivered'
  BY <1>3, ZenonT(40) DEF Content, OneFile, Idle, Delivered
<1>5. QED
  BY <1>1, <1>2, <1>3, <1>4 DEF IInv, Content

(* An object on a FILE that is new, on a device that is exempt from now on or has *)
(* no other FILE and is what is expected of it.                                    *)
LEMMA OpenKeeps ==
  ASSUME IInv, NEW h, NEW o, Made1(h, o), NEW f \in FreeFp(heap), o.type = "FILE", o.fp = f,
         NEW d \in Disk, heap'.file[f].disk = d, heap'.file[f].buf = <<>>,
         \A a \in Disk : heap'.disk[a].broken = heap.disk[a].broken,
         \A a \in Disk \ {d} : heap'.disk[a] = heap.disk[a] /\ wanted'[a] = wanted[a],
         wanted' \in [Disk -> Seq(Byte)], exempt \subseteq exempt', exempt' \subseteq Disk,
         \/ d \in exempt'
         \/ /\ \A g \in Fp : heap.file[g].disk # d
            /\ ~heap.disk[d].broken /\ d \notin exempt => heap'.disk[d].data = wanted'[d]
  PROVE  IInv'
<1>1. Shape'
  BY NewShape DEF IInv
<1>2. f \in Fp /\ ~heap.file[f].open /\ heap'.file[f].open
      /\ \A g \in Fp \ {f} : heap'.file[g] = heap.file[g]
  BY DEF Made1, FreeFp
<1>3. NothingLeftBehind'
  BY <1>2, NewBehind
<1>4. OneFile /\ Idle /\ Delivered
  BY DEF IInv, Content
<1>5. OneFile'
  <2>1. ASSUME NEW g \in Fp, NEW j \in Fp, heap'.file[g].open, heap'.file[j].open, g # j,
               heap'.file[g].disk = heap'.file[j].disk
        PROVE  heap'.file[g].disk \in exempt'
    <3>1. CASE g = f \/ j = f
      <4>1. heap'.file[g].disk = d
        BY <2>1, <3>1
      <4>2. \E i \in Fp : heap.file[i].disk = d
        BY <1>2, <2>1, <3>1, SMTT(20)
      <4>3. QED
        BY <4>1, <4>2
    <3>2. CASE g # f /\ j # f
      <4>1. heap'.file[g] = heap.file[g] /\ heap'.file[j] = heap.file[j]
        BY <1>2, <3>2
      <4>2. heap.file[g].disk \in exempt
        BY <1>4, <2>1, <4>1 DEF OneFile
      <4>3. QED
        BY <4>1, <4>2
    <3>3. QED
      BY <3>1, <3>2
  <2>2. QED
    BY <2>1 DEF OneFile
<1>6. Idle'
  <2>1. ASSUME NEW a \in Disk \ exempt', ~heap'.disk[a].broken,
               \A g \in Fp : heap'.file[g].open => heap'.file[g].disk # a
        PROVE  heap'.disk[a].data = wanted'[a]
    <3>1. a # d /\ a \notin exempt /\ ~heap.disk[a].broken
      BY <1>2, <2>1
    <3>2. \A g \in Fp : heap.file[g].open => heap.file[g].disk # a
      BY <1>2, <2>1
    <3>3. heap.disk[a].data = wanted[a]
      BY <1>4, <3>1, <3>2 DEF Idle
    <3>4. QED
      BY <3>1, <3>3
  <2>2. QED
    BY <2>1 DEF Idle
<1>7. Delivered'
  <2>1. ASSUME NEW g \in Fp, NEW a, a = heap'.file[g].disk, heap'.file[g].open, a \notin exempt',
               ~heap'.disk[a].broken
        PROVE  heap'.disk[a].data \o heap'.file[g].buf = wanted'[a]
    <3>1. CASE g = f
      <4>1. a = d /\ heap'.disk[d].data = wanted'[d]
        BY <2>1, <3>1
      <4>2. wanted'[d] \in Seq(Byte)
        OBVIOUS
      <4>3. wanted'[d] \o <<>> = wanted'[d]
        BY <4>2, ConcatEmptySeq
      <4>4. QED
        BY <3>1, <4>1, <4>3
    <3>2. CASE g # f
      <4>1. heap'.file[g] = heap.file[g]
        BY <1>2, <3>2
      <4>2. heap.file[g].open /\ heap.file[g].disk = a /\ a \notin exempt
        BY <2>1, <4>1
      <4>3. a \in Disk
        BY <4>2, ShapeFacts DEF IInv
      <4>4. a # d
        BY <2>1, <4>2
      <4>5. heap.disk[a].data \o heap.file[g].buf = wanted[a]
        BY <1>4, <2>1, <4>2, <4>3 DEF Delivered
      <4>6. QED
        BY <4>1, <4>3, <4>4, <4>5
    <3>3. QED
      BY <3>1, <3>2
  <2>2. QED
    BY <2>1 DEF Delivered
<1>8. QED
  BY <1>1, <1>3, <1>5, <1>6, <1>7 DEF IInv, Content

(* An object on nothing, or stacked on a handle of the client. *)
LEMMA PlainKeeps ==
  ASSUME IInv, NEW h \in FreeObj(heap), NEW o, IsNew(o, o.type, o.close, o.target, o.fp),
         o.target # NULL => o.target \in held /\ StackedOn(o.target) = {},
         o.type \in Filter => o.target # NULL, o.type # "FILE",
         heap' = Alloc(heap, h, o), wanted' = wanted, exempt' = exempt,
         held' = (held \ (IF o.close THEN {o.target} ELSE {})) \cup {h}
  PROVE  IInv'
<1>1. Shape /\ Sound(heap)
  BY DEF IInv, Shape
<1>2. /\ Sound(heap') /\ NewObject(heap, heap', h, o)
      /\ heap'.file = heap.file /\ heap'.disk = heap.disk
  BY <1>1, AllocMade
<1>3. Made1(h, o)
  BY <1>2 DEF Made1
<1>4. QED
  BY <1>2, <1>3, NewKeeps

(* A stream on stdout shares its FILE with no other. *)
LEMMA StdoutKeeps ==
  ASSUME IInv, NEW h \in Handle, OpenStdout(h)
  PROVE  IInv'
<1> DEFINE o == [Unused EXCEPT !.type = "FILE", !.fp = Stdout, !.close = FALSE]
<1>1. IsNew(o, "FILE", FALSE, NULL, Stdout)
  BY NewObjects, ClientAssumption
<1>2. /\ h \in FreeObj(heap) /\ heap' = Alloc(heap, h, o) /\ held' = (held \ {}) \cup {h}
      /\ wanted' = wanted /\ exempt' = exempt /\ \A k \in Files : heap.obj[k].fp # Stdout
  BY Zenon DEF OpenStdout, Made, XIO_new_fp
<1> HIDE DEF o
<1>3. /\ o.type = "FILE" /\ o.close = FALSE /\ o.target = NULL /\ o.fp = Stdout
      /\ IsNew(o, o.type, o.close, o.target, o.fp)
  BY <1>1 DEF IsNew
<1>4. Shape /\ Sound(heap) /\ heap.file[Stdout].open
  BY DEF IInv, Shape, FileOwnership
<1>5. /\ Sound(heap') /\ NewObject(heap, heap', h, o)
      /\ heap'.file = heap.file /\ heap'.disk = heap.disk
  BY <1>2, <1>3, <1>4, AllocMade
<1>6. Made1(h, o)
  BY <1>2, <1>3, <1>4, <1>5, ClientAssumption DEF Made1, Filter
<1>7. QED
  BY <1>2, <1>5, <1>6, NewKeeps

(* A source in memory touches no FILE. *)
LEMMA SourceKeeps ==
  ASSUME IInv, NEW h \in Handle, NewSource(h)
  PROVE  IInv'
<1>1. \A s \in Text : s \in Seq(Byte)
  BY ClientAssumption DEF Byte
<1>2. NULL \notin held
  BY ShapeFacts, NullAssumption DEF IInv
<1>3. ASSUME NEW o, NEW type \in {"MEMORY", "MBUILDER", "NULL"}, NEW close,
             IsNew(o, type, close, NULL, NoFp), Made(h, Alloc(heap, h, o), {})
      PROVE  IInv'
  <2>1. /\ o.type = type /\ o.close = close /\ o.target = NULL /\ o.fp = NoFp
        /\ IsNew(o, o.type, o.close, o.target, o.fp)
    BY <1>3 DEF IsNew
  <2>2. h \in FreeObj(heap) /\ heap' = Alloc(heap, h, o) /\ held' = (held \ {}) \cup {h}
    BY <1>3 DEF Made
  <2>3. held' = (held \ (IF o.close THEN {o.target} ELSE {})) \cup {h}
    BY <1>2, <2>1, <2>2
  <2>4. wanted' = wanted /\ exempt' = exempt
    BY DEF NewSource
  <2>5. o.type # "FILE" /\ o.type \notin Filter
    BY <2>1 DEF Filter
  <2>6. QED
    BY <2>1, <2>2, <2>3, <2>4, <2>5, PlainKeeps
<1>4. CASE \E s \in Text : Made(h, XIO_new_memory(heap, h, s), {})
  <2>1. PICK s \in Text : Made(h, XIO_new_memory(heap, h, s), {})
    BY <1>4
  <2> DEFINE o == [Unused EXCEPT !.type = "MEMORY", !.data = s]
  <2>2. IsNew(o, "MEMORY", FALSE, NULL, NoFp)
    BY <1>1, NewObjects
  <2>3. Made(h, Alloc(heap, h, o), {})
    BY <2>1, Zenon DEF XIO_new_memory
  <2> HIDE DEF o
  <2>4. QED
    BY <1>3, <2>2, <2>3
<1>5. CASE Made(h, XIO_new_mbuilder(heap, h), {})
  <2> DEFINE o == [Unused EXCEPT !.type = "MBUILDER"]
  <2>1. IsNew(o, "MBUILDER", FALSE, NULL, NoFp)
    BY NewObjects
  <2>2. Made(h, Alloc(heap, h, o), {})
    BY <1>5, Zenon DEF XIO_new_mbuilder
  <2> HIDE DEF o
  <2>3. QED
    BY <1>3, <2>1, <2>2
<1>6. CASE Made(h, XIO_new_null(heap, h), {})
  <2> DEFINE o == [Unused EXCEPT !.type = "NULL", !.close = TRUE]
  <2>1. IsNew(o, "NULL", TRUE, NULL, NoFp)
    BY NewObjects
  <2>2. Made(h, Alloc(heap, h, o), {})
    BY <1>6, Zenon DEF XIO_new_null
  <2> HIDE DEF o
  <2>3. QED
    BY <1>3, <2>1, <2>2
<1>7. QED
  BY <1>4, <1>5, <1>6 DEF NewSource

(* A filter is stacked on a handle nothing is stacked on yet. *)
LEMMA StackKeeps ==
  ASSUME IInv, NEW h \in Handle, NEW target \in Handle, Stack(h, target)
  PROVE  IInv'
<1>1. target \in held /\ StackedOn(target) = {} /\ wanted' = wanted /\ exempt' = exempt
  BY DEF Stack
<1>2. target # NULL
  BY NullAssumption
<1>3. ASSUME NEW type \in Filter, NEW close \in BOOLEAN,
             Made(h, NewFilter(heap, h, type, target, close), IF close THEN {target} ELSE {})
      PROVE  IInv'
  <2> DEFINE o == [Unused EXCEPT !.type = type, !.close = close, !.target = target]
  <2>1. IsNew(o, type, close, target, NoFp)
    BY NewObjects
  <2>2. /\ h \in FreeObj(heap) /\ heap' = Alloc(heap, h, o)
        /\ held' = (held \ (IF close THEN {target} ELSE {})) \cup {h}
    BY <1>3, Zenon DEF Made, NewFilter
  <2> HIDE DEF o
  <2>3. /\ o.type = type /\ o.close = close /\ o.target = target /\ o.fp = NoFp
        /\ IsNew(o, o.type, o.close, o.target, o.fp)
    BY <2>1 DEF IsNew
  <2>4. o.type # "FILE"
    BY <2>3 DEF Filter
  <2>5. QED
    BY <1>1, <1>2, <2>2, <2>3, <2>4, PlainKeeps
<1>4. "HEX" \in Filter /\ "BASE64" \in Filter /\ "PASS" \in Filter
  BY DEF Filter
<1>5. CASE Made(h, XIO_newf_hex(heap, h, target), {target})
  <2>1. Made(h, NewFilter(heap, h, "HEX", target, TRUE), IF TRUE THEN {target} ELSE {})
    BY <1>5, Zenon DEF XIO_newf_hex
  <2>2. QED
    BY <1>3, <1>4, <2>1
<1>6. CASE Made(h, XIO_newf_base64(heap, h, target), {target})
  <2>1. Made(h, NewFilter(heap, h, "BASE64", target, TRUE), IF TRUE THEN {target} ELSE {})
    BY <1>6, Zenon DEF XIO_newf_base64
  <2>2. QED
    BY <1>3, <1>4, <2>1
<1>7. CASE Made(h, XIO_newf_pass(heap, h, target, TRUE), {target})
  <2>1. Made(h, NewFilter(heap, h, "PASS", target, TRUE), IF TRUE THEN {target} ELSE {})
    BY <1>7, Zenon DEF XIO_newf_pass
  <2>2. QED
    BY <1>3, <1>4, <2>1
<1>8. CASE Made(h, XIO_newf_pass(heap, h, target, FALSE), {})
  <2>1. Made(h, NewFilter(heap, h, "PASS", target, FALSE), IF FALSE THEN {target} ELSE {})
    BY <1>8, Zenon DEF XIO_newf_pass
  <2>2. QED
    BY <1>3, <1>4, <2>1
<1>9. QED
  BY <1>5, <1>6, <1>7, <1>8 DEF Stack

(* A device that is opened is as it was, or empty if it was opened to write. *)
LEMMA OpenFileKeeps ==
  ASSUME IInv, NEW h \in Handle, NEW d \in Disk, NEW mode \in {"wb", "rb"}, OpenFile(h, d, mode)
  PROVE  IInv'
<1>1. PICK f \in FreeFp(heap) : Made(h, XIO_new_file(heap, h, f, d, mode), {})
  BY DEF OpenFile
<1> DEFINE o == [Unused EXCEPT !.type = "FILE", !.fp = f, !.close = TRUE]
           hp == Fopen(heap, f, d, mode)
           data == IF mode = "wb" THEN <<>> ELSE heap.disk[d].data
<1>2. /\ d # Tty /\ \A g \in Fp : heap.file[g].disk # d
      /\ exempt' = exempt /\ wanted' = IF mode = "wb" THEN [wanted EXCEPT ![d] = <<>>] ELSE wanted
  BY DEF OpenFile
<1>3. f \in Fp /\ ~heap.file[f].open
  BY DEF FreeFp
<1>4. IsNew(o, "FILE", TRUE, NULL, f)
  BY <1>3, NewObjects
<1>5. h \in FreeObj(heap) /\ heap' = Alloc(hp, h, o) /\ held' = (held \ {}) \cup {h}
  BY <1>1, Zenon DEF Made, XIO_new_file, XIO_new_fp
<1>6. Shape /\ Content /\ Sound(heap) /\ heap \in Heap /\ heap.file[Stdout].open /\ NULL \notin held
      /\ \A k \in Files : heap.file[heap.obj[k].fp].open
  BY ShapeFacts, NullAssumption DEF IInv, Shape, FileOwnership
<1>7. Sound(hp) /\ Opened(heap, hp, f, OpenFp(mode, d), d, data)
  BY <1>6, Fopens
<1> HIDE DEF o, hp
<1>8. /\ o.type = "FILE" /\ o.close = TRUE /\ o.target = NULL /\ o.fp = f
      /\ IsNew(o, o.type, o.close, o.target, o.fp)
  BY <1>4 DEF IsNew
<1>9. /\ OpenFp(mode, d).open /\ OpenFp(mode, d).disk = d /\ OpenFp(mode, d).buf = <<>>
  BY OpenFpGood
<1> HIDE DEF data
<1>10. /\ hp.obj = heap.obj /\ Live(hp) = Live(heap) /\ hp.file[f] = OpenFp(mode, d)
       /\ \A g \in Fp \ {f} : hp.file[g] = heap.file[g]
       /\ hp.disk[d] = [heap.disk[d] EXCEPT !.data = data]
       /\ \A e \in Disk \ {d} : hp.disk[e] = heap.disk[e]
  BY <1>7 DEF Opened
<1>11. /\ Sound(heap') /\ NewObject(heap, heap', h, o)
       /\ heap'.file = hp.file /\ heap'.disk = hp.disk
  <2>1. hp.file[f].open
    BY <1>9, <1>10
  <2>2. QED
    BY <1>5, <1>6, <1>7, <1>8, <1>10, <2>1, AllocMade
<1>12. f # Stdout
  BY <1>3, <1>6
<1>13. Made1(h, o)
  <2>1. held' = (held \ (IF o.close THEN {o.target} ELSE {})) \cup {h}
    BY <1>5, <1>6, <1>8
  <2>2. \A k \in Files : heap.obj[k].fp # f
    BY <1>3, <1>6
  <2>3. /\ heap'.file[f].open /\ \A g \in Fp \ {f} : heap'.file[g] = heap.file[g]
        /\ heap'.file[Stdout] = heap.file[Stdout]
    BY <1>9, <1>10, <1>11, <1>12, ClientAssumption
  <2>4. "FILE" \notin Filter
    BY DEF Filter
  <2>5. QED
    BY <1>3, <1>5, <1>8, <1>11, <1>12, <2>1, <2>2, <2>3, <2>4 DEF Made1
<1>14. heap.disk[d] \in Device
  BY <1>6 DEF Heap
<1>15. hp.disk[d].data = data /\ hp.disk[d].broken = heap.disk[d].broken
  BY <1>10, <1>14 DEF Device
<1>16. wanted \in [Disk -> Seq(Byte)] /\ Idle /\ exempt \subseteq Disk
  BY <1>6 DEF Content
<1>17. /\ wanted' \in [Disk -> Seq(Byte)]
       /\ wanted'[d] = IF mode = "wb" THEN <<>> ELSE wanted[d]
       /\ \A a \in Disk \ {d} : wanted'[a] = wanted[a]
  <2>1. CASE mode = "wb"
    BY <1>2, <1>16, <2>1, EmptySeq
  <2>2. CASE mode # "wb"
    BY <1>2, <1>16, <2>2
  <2>3. QED
    BY <2>1, <2>2
<1>18. ~heap.disk[d].broken /\ d \notin exempt => heap'.disk[d].data = wanted'[d]
  <2>1. ~heap.disk[d].broken /\ d \notin exempt => heap.disk[d].data = wanted[d]
    BY <1>2, <1>16 DEF Idle
  <2>2. QED
    BY <1>11, <1>15, <1>17, <2>1 DEF data
<1>19. /\ heap'.file[f].disk = d /\ heap'.file[f].buf = <<>>
       /\ \A a \in Disk : heap'.disk[a].broken = heap.disk[a].broken
       /\ \A a \in Disk \ {d} : heap'.disk[a] = heap.disk[a]
  <2>1. \A a \in Disk \ {d} : heap'.disk[a] = heap.disk[a]
    BY <1>10, <1>11
  <2>2. \A a \in Disk : heap'.disk[a].broken = heap.disk[a].broken
    BY <1>11, <1>15, <2>1
  <2>3. heap'.file[f].disk = d /\ heap'.file[f].buf = <<>>
    BY <1>9, <1>10, <1>11
  <2>4. QED
    BY <2>1, <2>2, <2>3
<1>20. QED
  BY <1>2, <1>8, <1>13, <1>16, <1>17, <1>18, <1>19, OpenKeeps

(* A copy of a stream on stdout has a FILE of its own, and the terminal is exempt *)
(* from then on.                                                                   *)
LEMMA DupKeeps ==
  ASSUME IInv, NEW h \in Handle, NEW of \in Handle, Dup(h, of)
  PROVE  IInv'
<1> DEFINE q == heap.obj[of]
<1>1. Shape /\ Content /\ Sound(heap) /\ heap \in Heap /\ heap.file[Stdout].open /\ NULL \notin held
      /\ heap.file[Stdout].disk = Tty /\ \A k \in Files : heap.file[heap.obj[k].fp].open
  BY ShapeFacts, NullAssumption DEF IInv, Shape, FileOwnership
<1>2. q \in Object /\ q.type \in Source /\ wanted' = wanted
  BY <1>1 DEF Dup, Heap
<1>3. CASE q.type = "FILE"
  <2>1. q.fp = Stdout /\ exempt' = exempt \cup {Tty}
    BY <1>3 DEF Dup
  <2>2. PICK f \in FreeFp(heap) : Made(h, XIO_dup(heap, of, h, f), {})
    BY <1>3 DEF Dup
  <2> DEFINE o == [Unused EXCEPT !.type = "FILE", !.fp = f, !.close = TRUE]
             p == OpenFp("r+", Tty)
             hp == WithFile(heap, f, p)
  <2>3. f \in Fp /\ ~heap.file[f].open
    BY DEF FreeFp
  <2>4. IsNew(o, "FILE", TRUE, NULL, f)
    BY <2>3, NewObjects
  <2>5. XIO_dup(heap, of, h, f) = Alloc(hp, h, o)
    <3> DEFINE t == heap.file[q.fp].disk
               v(disk) == [heap EXCEPT !.file[f] =
                             [Closed EXCEPT !.open = TRUE, !.mode = "r+", !.disk = disk]]
    <3>1. XIO_dup(heap, of, h, f) = XIO_new_fp(v(t), h, f, TRUE)
      BY <1>3, Zenon DEF XIO_dup
    <3>2. t = Tty
      BY <1>1, <2>1
    <3>3. v(Tty) = hp
      BY Zenon DEF WithFile, OpenFp
    <3> HIDE DEF v, t, hp
    <3>4. XIO_dup(heap, of, h, f) = XIO_new_fp(hp, h, f, TRUE)
      BY <3>1, <3>2, <3>3, Zenon
    <3>5. QED
      BY <3>4, Zenon DEF XIO_new_fp
  <2>6. h \in FreeObj(heap) /\ heap' = Alloc(hp, h, o) /\ held' = (held \ {}) \cup {h}
    BY <2>2, <2>5, Zenon DEF Made
  <2>7. p \in File /\ GoodFile(p) /\ p.open /\ p.disk = Tty /\ p.buf = <<>>
    BY OpenFpGood, ClientAssumption
  <2> HIDE DEF o, p
  <2>8. /\ hp \in Heap /\ hp.file[f] = p /\ \A g \in Fp \ {f} : hp.file[g] = heap.file[g]
        /\ hp.obj = heap.obj /\ hp.disk = heap.disk
    BY <1>1, <2>3, <2>7, FilePut
  <2> HIDE DEF hp
  <2>9. Sound(hp) /\ Live(hp) = Live(heap)
    BY <1>1, <2>7, <2>8, Opens
  <2>10. /\ o.type = "FILE" /\ o.close = TRUE /\ o.target = NULL /\ o.fp = f
         /\ IsNew(o, o.type, o.close, o.target, o.fp)
    BY <2>4 DEF IsNew
  <2>11. /\ Sound(heap') /\ NewObject(heap, heap', h, o)
         /\ heap'.file = hp.file /\ heap'.disk = hp.disk
    <3>1. hp.file[f].open
      BY <2>7, <2>8
    <3>2. QED
      BY <1>1, <2>6, <2>8, <2>9, <2>10, <3>1, AllocMade
  <2>12. f # Stdout
    BY <1>1, <2>3
  <2>13. Made1(h, o)
    <3>1. held' = (held \ (IF o.close THEN {o.target} ELSE {})) \cup {h}
      BY <1>1, <2>6, <2>10
    <3>2. \A k \in Files : heap.obj[k].fp # f
      BY <1>1, <2>3
    <3>3. /\ heap'.file[f].open /\ \A g \in Fp \ {f} : heap'.file[g] = heap.file[g]
          /\ heap'.file[Stdout] = heap.file[Stdout]
      BY <2>7, <2>8, <2>11, <2>12, ClientAssumption
    <3>4. "FILE" \notin Filter
      BY DEF Filter
    <3>5. QED
      BY <2>3, <2>6, <2>10, <2>11, <2>12, <3>1, <3>2, <3>3, <3>4 DEF Made1
  <2>14. /\ heap'.file[f].disk = Tty /\ heap'.file[f].buf = <<>> /\ heap'.disk = heap.disk
         /\ wanted' \in [Disk -> Seq(Byte)] /\ exempt' \subseteq Disk /\ Tty \in exempt'
    BY <1>1, <1>2, <2>1, <2>7, <2>8, <2>11, ClientAssumption DEF Content
  <2>15. QED
    BY <1>2, <2>1, <2>10, <2>13, <2>14, OpenKeeps, ClientAssumption
<1>4. CASE q.type # "FILE"
  <2>1. Made(h, XIO_dup(heap, of, h, NoFp), {}) /\ exempt' = exempt
    BY <1>4 DEF Dup
  <2>2. ASSUME NEW o, NEW type \in {"MEMORY", "MBUILDER", "NULL"}, NEW close,
               IsNew(o, type, close, NULL, NoFp), XIO_dup(heap, of, h, NoFp) = Alloc(heap, h, o)
        PROVE  IInv'
    <3>1. /\ o.type = type /\ o.close = close /\ o.target = NULL /\ o.fp = NoFp
          /\ IsNew(o, o.type, o.close, o.target, o.fp)
      BY <2>2 DEF IsNew
    <3>2. h \in FreeObj(heap) /\ heap' = Alloc(heap, h, o) /\ held' = (held \ {}) \cup {h}
      BY <2>1, <2>2 DEF Made
    <3>3. held' = (held \ (IF o.close THEN {o.target} ELSE {})) \cup {h}
      BY <1>1, <3>1, <3>2
    <3>4. o.type # "FILE" /\ o.type \notin Filter
      BY <3>1 DEF Filter
    <3>5. QED
      BY <1>2, <2>1, <3>1, <3>2, <3>3, <3>4, PlainKeeps
  <2>3. q.data \in Seq(Byte)
    BY <1>2 DEF Object
  <2>4. CASE q.type = "MEMORY"
    <3> DEFINE o == [Unused EXCEPT !.type = "MEMORY", !.data = q.data]
    <3>1. IsNew(o, "MEMORY", FALSE, NULL, NoFp)
      BY <2>3, NewObjects
    <3>2. XIO_dup(heap, of, h, NoFp) = Alloc(heap, h, o)
      BY <2>4, Zenon DEF XIO_dup, XIO_new_memory
    <3> HIDE DEF o
    <3>3. QED
      BY <2>2, <3>1, <3>2
  <2>5. CASE q.type = "MBUILDER"
    <3> DEFINE o == [Unused EXCEPT !.type = "MBUILDER", !.data = q.data]
    <3>1. IsNew(o, "MBUILDER", FALSE, NULL, NoFp)
      BY <2>3, NewObjects
    <3>2. XIO_dup(heap, of, h, NoFp) = Alloc(heap, h, o)
      BY <2>5, Zenon DEF XIO_dup
    <3> HIDE DEF o
    <3>3. QED
      BY <2>2, <3>1, <3>2
  <2>6. CASE q.type = "NULL"
    <3> DEFINE o == [Unused EXCEPT !.type = "NULL", !.close = TRUE]
    <3>1. IsNew(o, "NULL", TRUE, NULL, NoFp)
      BY NewObjects
    <3>2. XIO_dup(heap, of, h, NoFp) = Alloc(heap, h, o)
      BY <2>6, Zenon DEF XIO_dup, XIO_new_null
    <3> HIDE DEF o
    <3>3. QED
      BY <2>2, <3>1, <3>2
  <2>7. QED
    BY <1>2, <1>4, <2>4, <2>5, <2>6 DEF Source
<1>5. QED
  BY <1>3, <1>4

-----------------------------------------------------------------------------
(* Before any call there is only stdout, and nothing is written. *)
LEMMA InitOK == Init => IInv
<1> SUFFICES ASSUME Init PROVE IInv
  OBVIOUS
<1> DEFINE t == [Closed EXCEPT !.open = TRUE, !.mode = "wb", !.disk = Tty]
<1>1. t = OpenFp("wb", Tty)
  BY DEF OpenFp
<1> HIDE DEF t
<1>2. t \in File /\ GoodFile(t) /\ t.open /\ t.disk = Tty /\ t.buf = <<>>
  BY <1>1, OpenFpGood, ClientAssumption
<1>3. /\ heap = [obj |-> heap.obj, file |-> heap.file, disk |-> heap.disk]
      /\ heap.obj = [h \in Handle |-> Unused]
      /\ heap.file = [f \in Fp |-> IF f = Stdout THEN t ELSE Closed]
      /\ heap.disk = [d \in Disk |-> [data |-> <<>>, broken |-> FALSE]]
      /\ held = {} /\ wanted = [d \in Disk |-> <<>>] /\ exempt = {}
  BY DEF Init, t
<1>4. Unused \in Object /\ GoodObject(Unused) /\ Unused.target = NULL
  BY UnusedGood, UnusedType
<1>5. Closed \in File /\ GoodFile(Closed) /\ ~Closed.open /\ Closed.buf = <<>>
  BY ClosedGood DEF Closed
<1>6. /\ \A h \in Handle : heap.obj[h] = Unused /\ GoodObject(heap.obj[h]) /\ Target(heap, h) = NULL
      /\ heap.obj \in [Handle -> Object]
  BY <1>3, <1>4 DEF Target
<1>7. /\ heap.file \in [Fp -> File] /\ heap.file[Stdout] = t
      /\ \A f \in Fp \ {Stdout} : heap.file[f] = Closed
      /\ \A f \in Fp : GoodFile(heap.file[f]) /\ heap.file[f].buf = <<>>
  BY <1>2, <1>3, <1>5, ClientAssumption
<1>8. heap.disk \in [Disk -> Device] /\ \A d \in Disk : heap.disk[d].data = <<>>
  BY <1>3, EmptySeq DEF Device
<1>9. heap \in Heap
  BY <1>3, <1>6, <1>7, <1>8 DEF Heap
<1>10. Live(heap) = {} /\ Files = {}
  BY <1>6 DEF Live, Files
<1>11. Chained(heap)
  <2> DEFINE c == [k \in Handle \cup {NULL} |-> IF k = NULL THEN <<>> ELSE <<k>>]
  <2>1. \A k \in Handle : <<k>> \in Seq(Handle) /\ <<k>> = <<k>> \o <<>>
    <3> TAKE k \in Handle
    <3>1. <<k>> \in Seq(Handle)
      OBVIOUS
    <3>2. QED
      BY <3>1, ConcatEmptySeq
  <2>2. c \in [Handle \cup {NULL} -> Seq(Handle)]
    BY <2>1, EmptySeq
  <2>3. c[NULL] = <<>> /\ \A k \in Handle : c[k] = <<k>>
    BY NullAssumption
  <2> HIDE DEF c
  <2>4. QED
    BY <1>6, <2>1, <2>2, <2>3 DEF Chained
<1>12. Sound(heap)
  BY <1>6, <1>7, <1>9, <1>10, <1>11 DEF Sound, GoodHeap
<1>13. Shape
  <2>1. NoDangling /\ NoLeak /\ Stacks /\ Owners
    BY <1>3, <1>10 DEF NoDangling, NoLeak, Stacks, Owners
  <2>2. FileOwnership
    BY <1>2, <1>5, <1>7, <1>10 DEF FileOwnership
  <2>3. QED
    BY <1>2, <1>7, <1>12, <2>1, <2>2 DEF Shape
<1>14. Content
  <2>1. wanted \in [Disk -> Seq(Byte)] /\ exempt \subseteq Disk /\ \A d \in Disk : wanted[d] = <<>>
    BY <1>3, EmptySeq
  <2>2. OneFile
    BY <1>5, <1>7 DEF OneFile
  <2>3. Idle
    BY <1>8, <2>1 DEF Idle
  <2>4. NothingLeftBehind
    BY <1>7 DEF NothingLeftBehind
  <2>5. Delivered
    <3>1. <<>> \o <<>> = <<>>
      OBVIOUS
    <3>2. \A f \in Fp : heap.file[f].open => heap.file[f].disk \in Disk
      BY <1>7 DEF GoodFile
    <3>3. QED
      BY <1>7, <1>8, <2>1, <3>1, <3>2 DEF Delivered
  <2>6. QED
    BY <2>1, <2>2, <2>3, <2>4, <2>5 DEF Content
<1>15. QED
  BY <1>13, <1>14 DEF IInv

(* Every call keeps the invariant. *)
LEMMA NextOK == IInv /\ [Next]_vars => IInv'
<1> SUFFICES ASSUME IInv, [Next]_vars PROVE IInv'
  OBVIOUS
<1>1. ASSUME NEW h \in Handle, OpenStdout(h) PROVE IInv'
  BY <1>1, StdoutKeeps
<1>2. ASSUME NEW h \in Handle, NewSource(h) PROVE IInv'
  BY <1>2, SourceKeeps
<1>3. ASSUME NEW h \in Handle, NEW d \in Disk, OpenFile(h, d, "wb") \/ OpenFile(h, d, "rb")
      PROVE  IInv'
  BY <1>3, OpenFileKeeps
<1>4. ASSUME NEW h \in Handle, NEW k \in Handle, Stack(h, k) PROVE IInv'
  BY <1>4, StackKeeps
<1>5. ASSUME NEW h \in Handle, NEW k \in Handle, Dup(h, k) PROVE IInv'
  BY <1>5, DupKeeps
<1>6. ASSUME NEW h \in Handle, NEW s \in Text, Write(h, s) PROVE IInv'
  BY <1>6, WriteKeeps
<1>7. ASSUME NEW h \in Handle, Read(h, 1) PROVE IInv'
  BY <1>7, ReadKeeps
<1>8. ASSUME NEW h \in Handle, Flush(h) PROVE IInv'
  BY <1>8, FlushKeeps
<1>9. ASSUME NEW h \in Handle, Close(h) PROVE IInv'
  BY <1>9, CloseKeeps
<1>10. ASSUME NEW d \in Fallible, DeviceFails(d) PROVE IInv'
  BY <1>10, FailKeeps, ClientAssumption
<1>11. CASE UNCHANGED vars
  <2>1. heap' = heap /\ held' = held /\ wanted' = wanted /\ exempt' = exempt
    BY <1>11 DEF vars
  <2>2. Files' = Files /\ \A h : StackedOn(h)' = StackedOn(h)
    BY <2>1 DEF Files, StackedOn
  <2>3. Shape'
    BY <2>1, <2>2 DEF IInv, Shape, NoDangling, NoLeak, Stacks, Owners, FileOwnership
  <2>4. Content'
    BY <2>1, <2>2 DEF IInv, Content, OneFile, Idle, NothingLeftBehind, Delivered
  <2>5. QED
    BY <2>3, <2>4 DEF IInv
<1>12. QED
  BY <1>1, <1>2, <1>3, <1>4, <1>5, <1>6, <1>7, <1>8, <1>9, <1>10, <1>11 DEF Next

(* In every state the program can reach, objects, FILEs and devices are as above. *)
THEOREM Invariant == Spec => []IInv
  BY InitOK, NextOK, PTL DEF Spec

(* Objects are of their types, and a FILE never buffers more than it can hold. *)
THEOREM TypeCorrect == Spec => []TypeOK
<1>1. IInv => TypeOK
  <2> SUFFICES ASSUME IInv PROVE TypeOK
    OBVIOUS
  <2>1. heap \in Heap /\ Live(heap) \subseteq Handle /\ \A k \in Handle : GoodObject(heap.obj[k])
    BY ShapeFacts DEF IInv
  <2>2. \A f \in Fp : GoodFile(heap.file[f])
    BY DEF IInv, Shape, Sound, GoodHeap
  <2>3. ASSUME NEW h \in Live(heap), NEW o, o = heap.obj[h]
        PROVE  /\ o.type \in Filter \cup Source
               /\ o.readn \in 0 .. Len(o.data) /\ o.wrote \in BOOLEAN
               /\ o.target \in Handle \cup {NULL}
               /\ o.fp \in Fp \cup {NoFp} /\ (o.type = "FILE" <=> o.fp \in Fp)
    <3>1. o \in Object /\ GoodObject(o) /\ o # Unused
      BY <2>1, <2>3 DEF Heap, Live
    <3>2. o.readn \in 0 .. Len(o.data)
      BY <3>1, LenProperties DEF Object, GoodObject
    <3>3. QED
      BY <3>1, <3>2 DEF Object, GoodObject
  <2>4. QED
    BY <2>2, <2>3 DEF TypeOK, GoodFile
<1>2. QED
  BY <1>1, Invariant, PTL

(* XIO_close frees no stream, and closes no FILE, that the client or another stream *)
(* still uses...                                                                     *)
THEOREM NoDanglingAlways == Spec => []NoDangling
<1>1. IInv => NoDangling
  BY DEF IInv, Shape
<1>2. QED
  BY <1>1, Invariant, PTL

(* ...and frees all that it was given. *)
THEOREM NoLeakAlways == Spec => []NoLeak
<1>1. IInv => NoLeak
  BY DEF IInv, Shape
<1>2. QED
  BY <1>1, Invariant, PTL

(* A FILE the stream layer opens is open as long as its one owner lives. *)
THEOREM FileOwnershipAlways == Spec => []FileOwnership
<1>1. IInv => FileOwnership
  BY DEF IInv, Shape
<1>2. QED
  BY <1>1, Invariant, PTL

(* The SHOULD_FLUSH flag never skips a flush that is needed. *)
THEOREM NothingLeftBehindAlways == Spec => []NothingLeftBehind
<1>1. IInv => NothingLeftBehind
  BY DEF IInv, Content
<1>2. QED
  BY <1>1, Invariant, PTL

(* A working device and the buffer before it have what was written to it, encoded *)
(* by any stack of filters, in order.                                               *)
THEOREM DeliveredAlways == Spec => []Delivered
<1>1. IInv => Delivered
  BY DEF IInv, Content
<1>2. QED
  BY <1>1, Invariant, PTL

(* When the last stream on a device is closed, the device itself has it all. *)
THEOREM DeliveredAtCloseAlways == Spec => []DeliveredAtClose
<1>1. IInv => DeliveredAtClose
  <2> SUFFICES ASSUME IInv, NEW d \in Disk \ exempt, ~heap.disk[d].broken,
                      \A h \in Files : DiskOf(h) # d
               PROVE  heap.disk[d].data = wanted[d]
    BY DEF DeliveredAtClose
  <2>1. Idle /\ NothingLeftBehind /\ Delivered /\ heap \in Heap
    BY ShapeFacts DEF IInv, Content
  <2>2. CASE \E f \in Fp : heap.file[f].open /\ heap.file[f].disk = d
    <3>1. PICK f \in Fp : heap.file[f].open /\ heap.file[f].disk = d
      BY <2>2
    <3>2. heap.file[f].buf = <<>>
      BY <2>1, <3>1 DEF NothingLeftBehind, DiskOf
    <3>3. heap.disk[d].data \in Seq(Byte)
      BY <2>1 DEF Heap, Device
    <3>4. heap.disk[d].data \o <<>> = heap.disk[d].data
      BY <3>3, ConcatEmptySeq
    <3>5. QED
      BY <2>1, <3>1, <3>2, <3>4 DEF Delivered
  <2>3. CASE ~\E f \in Fp : heap.file[f].open /\ heap.file[f].disk = d
    BY <2>1, <2>3 DEF Idle
  <2>4. QED
    BY <2>2, <2>3
<1>2. QED
  BY <1>1, Invariant, PTL
=============================================================================
