-------------------------- MODULE ContainerProofs --------------------------
(* The byte buffer and the array that everything in memory goes through.       *)
(* For every Byte, Chunk and growth slack: the buffer's types, the room for the *)
(* terminator, no unwritten memory in the content, and that the buffer is a    *)
(* log.  For every element type, element size and growth: the array keeps its   *)
(* types, is a list to its callers, holds or releases each stored element       *)
(* once, and its loops visit all.  The two have nothing in common.              *)
EXTENDS XBytes, XArray, Induction

(* A well-formed buffer: TypeOK, RoomForTerminator and ContentInitialised *)
(* say that mem is one.                                                   *)
GoodBuffer(m) ==
  /\ m = [ptr |-> m.ptr, len |-> m.len, capacity |-> m.capacity]
  /\ m.len \in Nat
  /\ m.capacity \in Nat
  /\ m.ptr \in [0 .. m.capacity - 1 -> Cell]
  /\ m.len <= m.capacity
  /\ m.len > 0 => m.len < m.capacity
  /\ \A i \in 0 .. m.len - 1 : m.ptr[i] # Junk

Inv == ret \in Nat /\ room \in Nat /\ GoodBuffer(mem)

-----------------------------------------------------------------------------
(* calloc's block is a good buffer. *)
LEMMA FreshGood == ASSUME NEW n \in Nat PROVE GoodBuffer(Fresh(n))
  BY ByteAssumption DEF GoodBuffer, Fresh, Cell

(* xbytes_require_size keeps the content, and reports more room than asked *)
(* for, or 0.                                                              *)
LEMMA ReserveGood ==
  ASSUME NEW m, GoodBuffer(m), NEW req \in Nat, NEW r \in Reserve(m, req)
  PROVE  /\ GoodBuffer(r.buf)
         /\ r.buf.len = m.len
         /\ \A i \in 0 .. m.len - 1 : r.buf.ptr[i] = m.ptr[i]
         /\ r.room \in Nat
         /\ \/ r.room > req /\ r.room = r.buf.capacity - m.len
            \/ r.room = 0 /\ r.buf = m
<1> DEFINE n == m.capacity + req + Slack
           grown == Realloc(m, n)
<1>1. n \in Nat /\ n > m.capacity /\ n > m.len + req /\ m.len <= m.capacity
  BY SizeAssumption DEF GoodBuffer
<1>2. GoodBuffer(grown) /\ grown.len = m.len /\ grown.capacity = n
  BY <1>1 DEF GoodBuffer, Realloc, Cell
<1>3. \A i \in 0 .. m.len - 1 : grown.ptr[i] = m.ptr[i]
  BY <1>1 DEF GoodBuffer, Realloc
<1>4. CASE m.len + req + 1 <= m.capacity
  BY <1>4 DEF Reserve, GoodBuffer
<1>5. CASE r = [buf |-> m, room |-> 0]
  BY <1>5 DEF GoodBuffer
<1>6. CASE r = [buf |-> grown, room |-> grown.capacity - m.len]
  BY <1>1, <1>2, <1>3, <1>6 DEF GoodBuffer
<1>7. QED
  BY <1>4, <1>5, <1>6 DEF Reserve

(* Storing n bytes of s, which may end in a terminator, either leaves the *)
(* buffer alone and returns 0 or appends the n bytes and returns n.       *)
LEMMA StoreGood ==
  ASSUME NEW m, GoodBuffer(m), NEW s \in Seq(Byte), NEW n \in Nat,
         n <= Len(s), Len(s) <= n + 1, NEW o \in Store(m, n, s)
  PROVE  /\ GoodBuffer(o.buf)
         /\ o.ret \in Nat
         /\ \/ o.buf = m /\ o.ret = 0
            \/ /\ o.ret = n
               /\ o.buf.len = m.len + n
               /\ \A i \in 0 .. m.len - 1 : o.buf.ptr[i] = m.ptr[i]
               /\ \A i \in 1 .. n : o.buf.ptr[m.len + i - 1] = s[i]
<1>1. PICK r \in Reserve(m, n) :
        o = IF r.room < n
            THEN [buf |-> m, ret |-> 0]
            ELSE [buf |-> [ptr |-> Patched(r.buf.ptr, m.len, s),
                           len |-> m.len + n, capacity |-> r.buf.capacity],
                  ret |-> n]
  BY DEF Store
<1>2. /\ GoodBuffer(r.buf)
      /\ r.buf.len = m.len
      /\ \A i \in 0 .. m.len - 1 : r.buf.ptr[i] = m.ptr[i]
      /\ r.room \in Nat
      /\ \/ r.room > n /\ r.room = r.buf.capacity - m.len
         \/ r.room = 0 /\ r.buf = m
  BY ReserveGood
<1>3. CASE r.room < n
  BY <1>1, <1>3
<1>4. CASE ~(r.room < n)
  <2> DEFINE c == r.buf.capacity
             p == Patched(r.buf.ptr, m.len, s)
  <2>1. o = [buf |-> [ptr |-> p, len |-> m.len + n, capacity |-> c], ret |-> n]
    BY <1>1, <1>4
  <2>2. /\ m.len \in Nat /\ c \in Nat /\ m.len + n <= c
        /\ m.len + n > 0 => m.len + n < c
    BY <1>2, <1>4 DEF GoodBuffer
  <2>3. /\ r.buf.ptr \in [0 .. c - 1 -> Cell]
        /\ \A i \in 0 .. m.len - 1 : r.buf.ptr[i] # Junk
    BY <1>2 DEF GoodBuffer
  <2>4. p = [i \in 0 .. c - 1 |->
               IF m.len <= i /\ i < m.len + Len(s)
               THEN s[i - m.len + 1] ELSE r.buf.ptr[i]]
    BY <2>3 DEF Patched
  <2>5. \A i \in 0 .. c - 1 : m.len <= i /\ i < m.len + Len(s) =>
          i - m.len + 1 \in 1 .. Len(s) /\ s[i - m.len + 1] \in Byte
    BY <2>2
  <2>6. p \in [0 .. c - 1 -> Cell]
    BY <2>3, <2>4, <2>5 DEF Cell
  <2>7. /\ \A i \in 0 .. m.len - 1 : p[i] = m.ptr[i]
        /\ \A i \in 1 .. n : p[m.len + i - 1] = s[i]
    <3> HIDE DEF p
    <3>1. ASSUME NEW i \in 0 .. m.len - 1 PROVE p[i] = m.ptr[i]
      BY <1>2, <2>2, <2>4
    <3>2. ASSUME NEW i \in 1 .. n PROVE p[m.len + i - 1] = s[i]
      <4>1. m.len + i - 1 \in 0 .. c - 1 /\ m.len + i - 1 < m.len + Len(s) /\ m.len <= m.len + i - 1
        BY <2>2
      <4>2. (m.len + i - 1) - m.len + 1 = i
        BY <2>2
      <4>3. QED
        BY <2>4, <4>1, <4>2
    <3>3. QED
      BY <3>1, <3>2
  <2>8. \A i \in 0 .. m.len + n - 1 : p[i] # Junk
    BY <2>2, <2>3, <2>4, <2>5, ByteAssumption, SMTT(20)
  <2>9. QED
    BY <2>1, <2>2, <2>6, <2>7, <2>8 DEF GoodBuffer
<1>5. QED
  BY <1>3, <1>4

(* xbytes_write keeps the buffer good. *)
LEMMA WriteGood ==
  ASSUME NEW m, GoodBuffer(m), NEW s \in Chunk, NEW o \in WriteOutcomes(m, s)
  PROVE  GoodBuffer(o.buf) /\ o.ret \in Nat
  BY StoreGood, ChunkAssumption DEF WriteOutcomes

(* xbytes_vprintf does, although it copies one byte more than it counts. *)
LEMMA PrintfGood ==
  ASSUME NEW m, GoodBuffer(m), NEW s \in Chunk, NEW o \in PrintfOutcomes(m, s)
  PROVE  GoodBuffer(o.buf) /\ o.ret \in Nat
<1>1. s \in Seq(Byte) /\ Append(s, Nul) \in Seq(Byte) /\ Len(Append(s, Nul)) = Len(s) + 1
  BY ByteAssumption, ChunkAssumption
<1>2. CASE Len(s) = 0
  BY <1>2 DEF PrintfOutcomes
<1>3. CASE Len(s) # 0
  <2>1. o \in Store(m, Len(s), Append(s, Nul)) /\ Len(s) \in Nat
    BY <1>1, <1>3 DEF PrintfOutcomes
  <2>2. Len(s) <= Len(Append(s, Nul)) /\ Len(Append(s, Nul)) <= Len(s) + 1
    BY <1>1, <2>1
  <2>3. QED
    BY <1>1, <2>1, <2>2, StoreGood
<1>4. QED
  BY <1>2, <1>3

-----------------------------------------------------------------------------
(* The inductive argument: every call leaves the buffer good. *)
LEMMA Invariance == Spec => []Inv
<1>1. Init => Inv
  <2>1. GoodBuffer(Fresh(0))
    BY FreshGood
  <2>2. QED
    BY <2>1 DEF Init, Inv
<1>2. Inv /\ [Next]_vars => Inv'
  <2> SUFFICES ASSUME Inv, [Next]_vars PROVE Inv'
    OBVIOUS
  <2>2. ASSUME NEW n \in 0 .. MaxRoom, New(n) PROVE Inv'
    <3>1. GoodBuffer(Fresh(n))
      BY FreshGood, SizeAssumption
    <3>2. QED
      BY <2>2, <3>1 DEF New, Inv
  <2>3. ASSUME NEW n \in 0 .. MaxRoom, RequireSize(n) PROVE Inv'
    BY <2>3, ReserveGood, SizeAssumption DEF RequireSize, Inv
  <2>4. ASSUME NEW s \in Chunk, NewCopy(s) PROVE Inv'
    <3>1. CASE UNCHANGED mem /\ ret' = 0
      BY <2>4, <3>1 DEF NewCopy, Inv
    <3>2. CASE \E o \in WriteOutcomes(Fresh(Len(s)), s) : mem' = o.buf
      <4>1. GoodBuffer(Fresh(Len(s)))
        BY FreshGood, ChunkAssumption
      <4>2. GoodBuffer(mem')
        BY <3>2, <4>1, WriteGood
      <4>3. QED
        BY <2>4, <4>2 DEF NewCopy, Inv
    <3>3. QED
      BY <2>4, <3>1, <3>2 DEF NewCopy
  <2>5. ASSUME NEW s \in Chunk, Write(s) PROVE Inv'
    BY <2>5, WriteGood DEF Write, Inv
  <2>6. ASSUME NEW s \in Chunk, Vprintf(s) PROVE Inv'
    BY <2>6, PrintfGood DEF Vprintf, Inv
  <2>7. CASE Clean
    BY <2>7, FreshGood DEF Clean, Inv, GoodBuffer
  <2>8. CASE Free
    <3>1. GoodBuffer(Fresh(0))
      BY FreshGood
    <3>2. QED
      BY <2>8, <3>1 DEF Free, Inv
  <2>9. CASE UNCHANGED vars
    BY <2>9 DEF vars, Inv
  <2>10. QED
    BY <2>2, <2>3, <2>4, <2>5, <2>6, <2>7, <2>8, <2>9 DEF Next
<1>3. QED
  BY <1>1, <1>2, PTL DEF Spec

LiveOK == live \in BOOLEAN

(* live is only ever set to a boolean. *)
LEMMA LiveType == Spec => []LiveOK
<1>1. Init => LiveOK
  BY Zenon DEF LiveOK, Init
<1>2. LiveOK /\ [Next]_vars => LiveOK'
  BY Zenon DEF LiveOK, Next, vars, New, NewCopy, RequireSize, Write, Vprintf, Clean, Free
<1>3. QED
  BY <1>1, <1>2, PTL DEF Spec

(* Every reachable state of a buffer object is well typed, and its block is *)
(* exactly as long as the capacity the code believes in.                    *)
THEOREM TypeCorrect == Spec => []TypeOK
<1>1. Inv /\ LiveOK => TypeOK
  BY DEF Inv, LiveOK, GoodBuffer, TypeOK
<1>2. QED
  BY <1>1, Invariance, LiveType, PTL

(* xbytes_write and xbytes_vprintf never write outside the block, the     *)
(* terminator included, after any sequence of calls and failed reallocs.  *)
THEOREM TerminatorFits == Spec => []RoomForTerminator
<1>1. Inv => RoomForTerminator
  BY DEF Inv, GoodBuffer, RoomForTerminator
<1>2. QED
  BY <1>1, Invariance, PTL

(* What xbytes_buffer and xbytes_length show was written by a caller. *)
THEOREM ContentWritten == Spec => []ContentInitialised
<1>1. Inv => ContentInitialised
  BY DEF Inv, GoodBuffer, ContentInitialised
<1>2. QED
  BY <1>1, Invariance, PTL

-----------------------------------------------------------------------------
(* The refinement.  With the lemmas above every call is a step of the log. *)

LEMMA FreshContent == ASSUME NEW n \in Nat PROVE Content(Fresh(n)) = <<>>
  BY DEF Content, Fresh

(* The content of a good buffer is a byte string of its len. *)
LEMMA ContentSeq ==
  ASSUME NEW m, GoodBuffer(m)
  PROVE  /\ Content(m) \in Seq(Cell)
         /\ Len(Content(m)) = m.len
         /\ \A i \in 1 .. m.len : Content(m)[i] = m.ptr[i - 1]
<1>1. m.len \in Nat /\ m.capacity \in Nat /\ m.len <= m.capacity
  BY DEF GoodBuffer
<1>2. \A j \in 0 .. m.capacity - 1 : m.ptr[j] \in Cell
  BY DEF GoodBuffer
<1>3. ASSUME NEW i \in 1 .. m.len PROVE m.ptr[i - 1] \in Cell
  <2>1. i - 1 \in 0 .. m.capacity - 1
    BY <1>1
  <2>2. QED
    BY <1>2, <2>1
<1>4. Content(m) \in [1 .. m.len -> Cell]
  BY <1>3 DEF Content
<1>5. Content(m) \in Seq(Cell)
  BY <1>1, <1>4, SeqDef
<1>6. QED
  BY <1>1, <1>4, <1>5, LenProperties DEF Content

(* t is the text that counts; s may carry a terminator behind it. *)
LEMMA StoreContent ==
  ASSUME NEW m, GoodBuffer(m), NEW s \in Seq(Byte), NEW t \in Seq(Byte),
         Len(t) <= Len(s), Len(s) <= Len(t) + 1,
         \A i \in 1 .. Len(t) : s[i] = t[i], NEW o \in Store(m, Len(t), s)
  PROVE  \/ Content(o.buf) = Content(m) /\ o.ret = 0
         \/ Content(o.buf) = Content(m) \o t /\ o.ret = Len(t)
<1> DEFINE n == Len(t)
           c == Content(m)
           d == Content(o.buf)
<1>1. n \in Nat /\ t \in Seq(Cell)
  BY DEF Cell
<1>2. CASE o.buf = m /\ o.ret = 0
  BY <1>2
<1>3. CASE /\ o.ret = n
           /\ o.buf.len = m.len + n
           /\ \A i \in 0 .. m.len - 1 : o.buf.ptr[i] = m.ptr[i]
           /\ \A i \in 1 .. n : o.buf.ptr[m.len + i - 1] = s[i]
  <2>1. GoodBuffer(o.buf)
    BY <1>1, StoreGood
  <2>2. m.len \in Nat
    BY DEF GoodBuffer
  <2>3. c \in Seq(Cell) /\ Len(c) = m.len /\ \A i \in 1 .. m.len : c[i] = m.ptr[i - 1]
    BY ContentSeq
  <2>4. /\ d \in Seq(Cell) /\ Len(d) = m.len + n
        /\ \A i \in 1 .. m.len + n : d[i] = o.buf.ptr[i - 1]
    BY <1>3, <2>1, ContentSeq
  <2> HIDE DEF c, d
  <2>5. /\ c \o t \in Seq(Cell) /\ Len(c \o t) = m.len + n
        /\ \A i \in 1 .. m.len + n : (c \o t)[i] = IF i <= m.len THEN c[i] ELSE t[i - m.len]
    <3>1. /\ c \o t \in Seq(Cell) /\ Len(c \o t) = Len(c) + Len(t)
          /\ \A i \in 1 .. Len(c) + Len(t) :
               (c \o t)[i] = IF i <= Len(c) THEN c[i] ELSE t[i - Len(c)]
      BY <1>1, <2>3, ConcatProperties
    <3>2. QED
      BY <2>3, <3>1
  <2>6. ASSUME NEW i \in 1 .. m.len + n PROVE d[i] = (c \o t)[i]
    <3>1. CASE i <= m.len
      <4>1. i \in 1 .. m.len /\ i - 1 \in 0 .. m.len - 1
        BY <2>2, <3>1
      <4>2. QED
        BY <1>3, <2>3, <2>4, <2>5, <3>1, <4>1
    <3>2. CASE ~(i <= m.len)
      <4>1. i - m.len \in 1 .. n /\ m.len + (i - m.len) - 1 = i - 1
        BY <1>1, <2>2, <3>2
      <4>2. o.buf.ptr[i - 1] = s[i - m.len] /\ s[i - m.len] = t[i - m.len]
        BY <1>3, <4>1
      <4>3. QED
        BY <2>4, <2>5, <3>2, <4>2
    <3>3. QED
      BY <3>1, <3>2
  <2>7. d = c \o t
    BY <2>4, <2>5, <2>6, SeqEqual
  <2>8. QED
    BY <1>3, <2>7 DEF c, d
<1>4. QED
  BY <1>1, <1>2, <1>3, StoreGood

(* xbytes_write appends all of s or nothing, and says which. *)
LEMMA WriteContent ==
  ASSUME NEW m, GoodBuffer(m), NEW s \in Chunk, NEW o \in WriteOutcomes(m, s)
  PROVE  \/ Content(o.buf) = Content(m) /\ o.ret = 0
         \/ Content(o.buf) = Content(m) \o s /\ o.ret = Len(s)
  BY StoreContent, ChunkAssumption DEF WriteOutcomes

(* xbytes_vprintf too: the terminator it stores does not show. *)
LEMMA PrintfContent ==
  ASSUME NEW m, GoodBuffer(m), NEW s \in Chunk, NEW o \in PrintfOutcomes(m, s)
  PROVE  \/ Content(o.buf) = Content(m) /\ o.ret = 0
         \/ Content(o.buf) = Content(m) \o s /\ o.ret = Len(s)
<1>1. /\ s \in Seq(Byte) /\ Append(s, Nul) \in Seq(Byte)
      /\ Len(s) \in Nat /\ Len(Append(s, Nul)) = Len(s) + 1
      /\ \A i \in 1 .. Len(s) : Append(s, Nul)[i] = s[i]
  BY ByteAssumption, ChunkAssumption
<1>2. CASE Len(s) = 0
  BY <1>2 DEF PrintfOutcomes
<1>3. CASE Len(s) # 0
  <2>1. o \in Store(m, Len(s), Append(s, Nul))
    BY <1>3 DEF PrintfOutcomes
  <2>2. Len(s) <= Len(Append(s, Nul)) /\ Len(Append(s, Nul)) <= Len(s) + 1
    BY <1>1
  <2>3. QED
    BY <1>1, <2>1, <2>2, StoreContent
<1>4. QED
  BY <1>2, <1>3

(* Making room does not change what is shown. *)
LEMMA ReserveContent ==
  ASSUME NEW m, GoodBuffer(m), NEW req \in Nat, NEW r \in Reserve(m, req)
  PROVE  Content(r.buf) = Content(m)
<1>1. /\ r.buf.len = m.len
      /\ \A i \in 0 .. m.len - 1 : r.buf.ptr[i] = m.ptr[i]
  BY ReserveGood
<1>2. m.len \in Nat
  BY DEF GoodBuffer
<1>3. \A i \in 1 .. m.len : r.buf.ptr[i - 1] = m.ptr[i - 1]
  BY <1>1, <1>2
<1>4. QED
  BY <1>1, <1>3 DEF Content

(* xbytes keeps the promise of an append-only byte string for every chunk, *)
(* every growth slack and every failure of realloc.                        *)
THEOREM Refinement == Spec => AppendOnly
<1> DEFINE c == Content(mem)
<1>1. Init => Log!Init
  BY FreshContent DEF Init, Log!Init
<1>2. Inv /\ [Next]_vars => [Log!Next]_(Log!vars)
  <2> SUFFICES ASSUME Inv, [Next]_vars PROVE [Log!Next]_(Log!vars)
    OBVIOUS
  <2>0. \A n \in Nat : Content(Fresh(n)) = <<>>
    BY FreshContent
  <2>1. ASSUME UNCHANGED <<live, mem>>, ret' = 0 PROVE Log!Next
    BY <2>1 DEF Log!Next, Log!Refuse
  <2>3. ASSUME NEW n \in 0 .. MaxRoom, New(n) PROVE [Log!Next]_(Log!vars)
    <3>1. CASE ~live /\ live' = TRUE /\ mem' = Fresh(n) /\ ret' = 1
      <4>1. c' = <<>>
        BY <2>0, <3>1, SizeAssumption
      <4>2. QED
        BY <3>1, <4>1 DEF Log!Next, Log!Open
    <3>2. QED
      BY <2>1, <2>3, <3>1 DEF New
  <2>4. ASSUME NEW n \in 0 .. MaxRoom, RequireSize(n) PROVE [Log!Next]_(Log!vars)
    <3>1. UNCHANGED <<live, c, ret>>
      BY <2>4, ReserveContent, SizeAssumption DEF RequireSize, Inv
    <3>2. QED
      BY <3>1 DEF Log!vars
  <2>5. ASSUME NEW s \in Chunk, NewCopy(s) PROVE [Log!Next]_(Log!vars)
    <3>1. ASSUME ~live, live' = TRUE, ret' = 1,
                 NEW o \in WriteOutcomes(Fresh(Len(s)), s), mem' = o.buf
          PROVE  Log!Next
      <4>1. s \in Seq(Byte) /\ Len(s) \in Nat
        BY ChunkAssumption
      <4>2. GoodBuffer(Fresh(Len(s))) /\ Content(Fresh(Len(s))) = <<>>
        BY <2>0, <4>1, FreshGood
      <4>3. c' = <<>> \/ c' = <<>> \o s
        BY <3>1, <4>2, WriteContent
      <4>4. c' \in {<<>>, s}
        BY <4>1, <4>3, ConcatEmptySeq
      <4>5. QED
        BY <3>1, <4>4 DEF Log!Next, Log!Open
    <3>2. QED
      BY <2>1, <2>5, <3>1 DEF NewCopy
  <2>6. ASSUME NEW s \in Chunk, Write(s) PROVE [Log!Next]_(Log!vars)
    <3>1. \/ c' = c /\ ret' = 0
          \/ c' = c \o s /\ ret' = Len(s)
      BY <2>6, WriteContent DEF Write, Inv
    <3>2. QED
      BY <2>6, <3>1 DEF Write, Log!Next, Log!Take, Log!Refuse
  <2>7. ASSUME NEW s \in Chunk, Vprintf(s) PROVE [Log!Next]_(Log!vars)
    <3>1. \/ c' = c /\ ret' = 0
          \/ c' = c \o s /\ ret' = Len(s)
      BY <2>7, PrintfContent DEF Vprintf, Inv
    <3>2. QED
      BY <2>7, <3>1 DEF Vprintf, Log!Next, Log!Take, Log!Refuse
  <2>8. CASE Clean
    <3>1. c' = <<>>
      BY <2>0, <2>8 DEF Clean, Inv, GoodBuffer
    <3>2. QED
      BY <2>8, <3>1 DEF Clean, Log!Next, Log!Clear
  <2>9. CASE Free
    BY <2>0, <2>9 DEF Free, Log!Next, Log!Close
  <2>10. CASE UNCHANGED vars
    BY <2>10 DEF vars, Log!vars
  <2>11. QED
    BY <2>3, <2>4, <2>5, <2>6, <2>7, <2>8, <2>9, <2>10 DEF Next
<1>3. QED
  BY <1>1, <1>2, Invariance, PTL DEF Spec, AppendOnly, Log!Spec
-----------------------------------------------------------------------------
GoodArray(a) ==
  /\ a = Array(a.block, a.count, a.capacity)
  /\ a.count \in Nat /\ a.capacity \in Nat /\ a.count <= a.capacity
  /\ a.block \in [0 .. a.capacity - 1 -> Slots]

TypeInv ==
  /\ result \in Nat \cup {-1}
  /\ GoodArray(arr)
  /\ filling \in {NoSlot, arr.count - 1}

-----------------------------------------------------------------------------
(* An array is what its three fields say. *)
LEMMA ArrayGood ==
  ASSUME NEW n \in Nat, NEW k \in Nat, n <= k, NEW block \in [0 .. k - 1 -> Slots]
  PROVE  /\ GoodArray(Array(block, n, k)) /\ Array(block, n, k).block = block
         /\ Array(block, n, k).count = n /\ Array(block, n, k).capacity = k
  BY DEF GoodArray, Array

(* A calloc'ed array is a good one. *)
LEMMA CallocedGood == ASSUME NEW n \in Nat PROVE GoodArray(Calloced(n))
<1>1. [i \in 0 .. n - 1 |-> Zero] \in [0 .. n - 1 -> Slots]
  BY DEF Slots
<1>2. QED
  BY <1>1, ArrayGood DEF Calloced

(* xarray_require_size keeps what is in the array, and has room or has not. *)
LEMMA RoomForGood ==
  ASSUME NEW a, GoodArray(a), NEW req \in Nat, NEW b \in RoomFor(a, req)
  PROVE  /\ GoodArray(b) /\ b.count = a.count
         /\ \A i \in 0 .. a.count - 1 : b.block[i] = a.block[i]
<1> DEFINE n == a.capacity + req + Extra
<1>1. n \in Nat /\ n >= a.capacity
  BY ExtraAssumption DEF GoodArray
<1> DEFINE new == [i \in 0 .. n - 1 |-> IF i < a.capacity THEN a.block[i] ELSE Garbage]
<1>a. new \in [0 .. n - 1 -> Slots] /\ a.count \in Nat /\ a.count <= n
  BY <1>1 DEF GoodArray, Slots
<1>b. Grown(a, n) = Array(new, a.count, n)
  BY DEF Grown
<1> HIDE DEF new
<1>2. GoodArray(Grown(a, n)) /\ Grown(a, n).count = a.count
  BY <1>1, <1>a, <1>b, ArrayGood
<1>3. \A i \in 0 .. a.count - 1 : Grown(a, n).block[i] = a.block[i]
  <2>1. a.count \in Nat /\ a.count <= a.capacity /\ a.capacity \in Nat
    BY DEF GoodArray
  <2>2. Grown(a, n).block = new
    BY <1>1, <1>a, <1>b, ArrayGood
  <2>3. \A i \in 0 .. a.count - 1 : new[i] = a.block[i]
    BY <1>1, <2>1 DEF new
  <2>4. QED
    BY <2>2, <2>3
<1>4. b = a \/ b = Grown(a, n)
  BY DEF RoomFor
<1>5. QED
  BY <1>2, <1>3, <1>4

(* Storing an element behind the last one. *)
LEMMA AppendedGood ==
  ASSUME NEW a, GoodArray(a), Remaining(a) >= 1, NEW e \in Slots
  PROVE  LET b == Array([a.block EXCEPT ![a.count] = e], a.count + 1, a.capacity)
         IN  /\ GoodArray(b) /\ b.count = a.count + 1
             /\ \A i \in 0 .. a.count - 1 : b.block[i] = a.block[i]
             /\ b.block[a.count] = e
<1> DEFINE new == [a.block EXCEPT ![a.count] = e]
<1>1. /\ new \in [0 .. a.capacity - 1 -> Slots] /\ new[a.count] = e
      /\ \A i \in 0 .. a.count - 1 : new[i] = a.block[i]
      /\ a.count + 1 \in Nat /\ a.count + 1 <= a.capacity /\ a.capacity \in Nat
  BY DEF GoodArray, Remaining
<1> HIDE DEF new
<1>2. LET b == Array(new, a.count + 1, a.capacity)
      IN  GoodArray(b) /\ b.count = a.count + 1 /\ b.block = new
  BY <1>1, ArrayGood
<1>3. QED
  BY <1>1, <1>2 DEF new

(* A pointer into the content is within one of the elements. *)
LEMMA IndexInside ==
  ASSUME NEW a, GoodArray(a), NEW p \in Int, xarray_index_of(a, p) >= 0
  PROVE  xarray_index_of(a, p) \in 0 .. a.count - 1
<1>1. p >= 0 /\ p < a.count * ElementSize /\ xarray_index_of(a, p) = p \div ElementSize
  BY ElementSizeAssumption DEF xarray_index_of, GoodArray
<1>2. ElementSize \in Nat /\ ElementSize > 0 /\ a.count \in Nat
  BY ElementSizeAssumption DEF GoodArray
<1>3. p \div ElementSize \in Nat
  BY <1>1, <1>2
<1>4. (p \div ElementSize) * ElementSize <= p
  BY <1>1, <1>2
<1>5. p \div ElementSize < a.count
  BY <1>1, <1>2, <1>3, <1>4
<1>6. QED
  BY <1>1, <1>3, <1>5, <1>2

(* Taking an element out moves those behind it down. *)
LEMMA ShiftedGood ==
  ASSUME NEW a, GoodArray(a), NEW i \in 0 .. a.count - 1
  PROVE  LET b == Array(Shifted(a, i), a.count - 1, a.capacity)
         IN  /\ GoodArray(b) /\ b.count = a.count - 1
             /\ \A j \in 0 .. a.count - 2 : b.block[j] = IF j < i THEN a.block[j] ELSE a.block[j + 1]
<1>1. Shifted(a, i) \in [0 .. a.capacity - 1 -> Slots]
  BY DEF GoodArray, Shifted, Slots
<1>2. \A j \in 0 .. a.count - 2 : Shifted(a, i)[j] = IF j < i THEN a.block[j] ELSE a.block[j + 1]
  BY DEF GoodArray, Shifted
<1>3. a.count - 1 \in Nat /\ a.count - 1 <= a.capacity /\ a.capacity \in Nat
  BY DEF GoodArray
<1>4. QED
  BY <1>1, <1>2, <1>3, ArrayGood

-----------------------------------------------------------------------------
(* Each call, the two removals through RemoveAtIndex. *)
LEMMA RemovalTypes ==
  ASSUME TypeInv, Ready, NEW i \in 0 .. arr.count - 1, RemoveAtIndex(i)
  PROVE  TypeInv'
<1>1. GoodArray(arr)' /\ filling' = NoSlot
  BY ShiftedGood DEF RemoveAtIndex, TypeInv, Ready
<1>2. QED
  BY <1>1 DEF RemoveAtIndex, TypeInv

(* Only an array that exists holds something or has a slot handed out. *)
MadeInv == made \in BOOLEAN /\ (~made => filling = NoSlot /\ arr = Calloced(0))

LEMMA MadeInvariance == ArraySpec => []MadeInv
<1>1. ArrayInit => MadeInv
  BY Zenon DEF ArrayInit, MadeInv
<1>2. MadeInv /\ [ArrayNext]_arrayVars => MadeInv'
  <2> SUFFICES ASSUME MadeInv, [ArrayNext]_arrayVars PROVE MadeInv'
    OBVIOUS
  <2>1. ASSUME NEW n \in 0 .. MaxAhead, NewArray(n) PROVE MadeInv'
    BY <2>1, Zenon DEF MadeInv, NewArray
  <2>2. ASSUME NEW n \in 0 .. MaxAhead, RequireRoom(n) PROVE MadeInv'
    BY <2>2, Zenon DEF MadeInv, RequireRoom, Ready
  <2>3. ASSUME NEW e \in NotYet, xarray_add(e) \/ Fill(e) PROVE MadeInv'
    BY <2>3, Zenon DEF MadeInv, xarray_add, Fill, Ready
  <2>4. CASE xarray_add_new_item
    BY <2>4, Zenon DEF MadeInv, xarray_add_new_item, Ready
  <2>5. ASSUME NEW i, Ready, RemoveAtIndex(i) PROVE MadeInv'
    BY <2>5, Zenon DEF MadeInv, RemoveAtIndex, Ready
  <2>6. CASE xarray_clean \/ xarray_free
    BY <2>6, Zenon DEF MadeInv, xarray_clean, xarray_free, Ready
  <2>7. CASE UNCHANGED arrayVars
    BY <2>7, Zenon DEF MadeInv, arrayVars
  <2>8. QED
    BY <2>1, <2>2, <2>3, <2>4, <2>5, <2>6, <2>7, Zenon DEF ArrayNext, xarray_remove_at, xarray_remove
<1>3. QED
  BY <1>1, <1>2, PTL DEF ArraySpec

LEMMA TypeStep ==
  ASSUME TypeInv, MadeInv, [ArrayNext]_arrayVars
  PROVE  TypeInv'
<1>1. ASSUME NEW n \in 0 .. MaxAhead, NewArray(n) PROVE TypeInv'
  <2>1. GoodArray(Calloced(n))
    BY CallocedGood, ExtraAssumption
  <2>2. filling = NoSlot
    BY <1>1, Zenon DEF NewArray, MadeInv
  <2>3. UNCHANGED <<result, filling>> /\ (arr' = Calloced(n) \/ arr' = arr)
    BY <1>1, Zenon DEF NewArray
  <2>4. QED
    BY <2>1, <2>2, <2>3 DEF TypeInv
<1>2. ASSUME NEW n \in 0 .. MaxAhead, RequireRoom(n) PROVE TypeInv'
  BY <1>2, RoomForGood, ExtraAssumption DEF RequireRoom, TypeInv, Ready
<1>3. ASSUME NEW e \in NotYet, xarray_add(e) PROVE TypeInv'
  <2>1. PICK a \in RoomFor(arr, 1) :
          IF Remaining(a) < 1 THEN result' = -1 /\ arr' = a
          ELSE /\ arr' = Array([a.block EXCEPT ![a.count] = e], a.count + 1, a.capacity)
               /\ result' = a.count
    BY <1>3 DEF xarray_add
  <2>2. GoodArray(a)
    BY RoomForGood DEF TypeInv
  <2>3. a.count \in Nat /\ Remaining(a) \in Int
    BY <2>2 DEF GoodArray, Remaining
  <2>4. e \in Slots
    BY DEF NotYet, Slots
  <2>5. CASE Remaining(a) < 1
    BY <2>1, <2>2, <2>5, <1>3 DEF TypeInv, xarray_add, Ready
  <2>6. CASE ~(Remaining(a) < 1)
    <3>1. GoodArray(Array([a.block EXCEPT ![a.count] = e], a.count + 1, a.capacity))
      <4>1. Remaining(a) >= 1
        BY <2>3, <2>6
      <4>2. QED
        BY <2>2, <2>4, <4>1, AppendedGood, Zenon
    <3>2. filling' = NoSlot
      BY <1>3 DEF xarray_add, Ready
    <3>3. QED
      BY <2>1, <2>3, <2>6, <3>1, <3>2 DEF TypeInv
  <2>7. QED
    BY <2>5, <2>6
<1>4. ASSUME NEW e \in NotYet, Fill(e) PROVE TypeInv'
  <2> DEFINE new == [arr.block EXCEPT ![filling] = e]
  <2>1. arr' = Array(new, arr.count, arr.capacity) /\ result' = filling /\ filling' = NoSlot
    BY <1>4 DEF Fill
  <2>2. filling \in Nat
    BY <1>4 DEF Fill, TypeInv, GoodArray, NoSlot
  <2>3. new \in [0 .. arr.capacity - 1 -> Slots] /\ arr.count \in Nat /\ arr.capacity \in Nat
        /\ arr.count <= arr.capacity
    BY DEF TypeInv, GoodArray, NotYet, Slots
  <2>4. GoodArray(Array(new, arr.count, arr.capacity))
    BY <2>3, ArrayGood
  <2>5. QED
    BY <2>1, <2>2, <2>4 DEF TypeInv
<1>5. CASE xarray_add_new_item
  <2>1. PICK a \in RoomFor(arr, 1) :
          IF Remaining(a) < 1 THEN arr' = a /\ result' = -1 /\ UNCHANGED filling
          ELSE /\ arr' = Array(a.block, a.count + 1, a.capacity) /\ filling' = a.count
               /\ UNCHANGED result
    BY <1>5 DEF xarray_add_new_item
  <2>2. GoodArray(a) /\ filling = NoSlot
    BY RoomForGood, <1>5 DEF TypeInv, xarray_add_new_item, Ready
  <2>3. CASE Remaining(a) < 1
    BY <2>1, <2>2, <2>3 DEF TypeInv
  <2>4. CASE ~(Remaining(a) < 1)
    <3>1. a.count \in Nat /\ a.count + 1 <= a.capacity /\ a.capacity \in Nat
          /\ a.block \in [0 .. a.capacity - 1 -> Slots]
      BY <2>2, <2>4 DEF GoodArray, Remaining
    <3>2. /\ GoodArray(Array(a.block, a.count + 1, a.capacity))
          /\ Array(a.block, a.count + 1, a.capacity).count = a.count + 1
      BY <3>1, ArrayGood
    <3>3. QED
      BY <2>1, <2>4, <3>1, <3>2 DEF TypeInv
  <2>5. QED
    BY <2>3, <2>4
<1>6. ASSUME NEW i \in 0 .. arr.count - 1, xarray_remove_at(i) PROVE TypeInv'
  BY <1>6, RemovalTypes DEF xarray_remove_at
<1>7. ASSUME NEW p \in 0 .. arr.count * ElementSize, xarray_remove(p) PROVE TypeInv'
  <2>1. xarray_index_of(arr, p) \in 0 .. arr.count - 1
    BY <1>7, IndexInside DEF xarray_remove, TypeInv
  <2>2. QED
    BY <1>7, <2>1, RemovalTypes DEF xarray_remove
<1>8. CASE xarray_clean
  <2>1. GoodArray(Array(arr.block, 0, arr.capacity))
    BY ArrayGood DEF TypeInv, GoodArray
  <2>2. arr' = Array(arr.block, 0, arr.capacity) /\ UNCHANGED <<result, filling>> /\ filling = NoSlot
    BY <1>8 DEF xarray_clean, Ready
  <2>3. QED
    BY <2>1, <2>2 DEF TypeInv
<1>9. CASE xarray_free
  <2>1. GoodArray(Calloced(0))
    BY CallocedGood
  <2>2. QED
    BY <1>9, <2>1 DEF xarray_free, TypeInv, Ready, NoSlot
<1>10. CASE UNCHANGED arrayVars
  BY <1>10 DEF arrayVars, TypeInv
<1>11. QED
  BY <1>1, <1>2, <1>3, <1>4, <1>5, <1>6, <1>7, <1>8, <1>9, <1>10 DEF ArrayNext

LEMMA TypeInvariance == ArraySpec => []TypeInv
<1>1. ArrayInit => TypeInv
  <2>1. GoodArray(Calloced(0))
    BY CallocedGood
  <2>2. QED
    BY <2>1 DEF ArrayInit, TypeInv, NoSlot
<1>2. TypeInv /\ MadeInv /\ [ArrayNext]_arrayVars => TypeInv'
  BY TypeStep
<1>3. QED
  BY <1>1, <1>2, MadeInvariance, PTL DEF ArraySpec

(* The types of every state; the block is as long as the capacity says, and *)
(* every index and slot in use lies inside it.                              *)
THEOREM ArrayTypes == ArraySpec => []ArrayTypeOK
<1>1. TypeInv /\ MadeInv => ArrayTypeOK
  <2>1. MadeInv => made \in {TRUE, FALSE}
    BY Zenon DEF MadeInv
  <2>2. TypeInv => /\ result \in Nat \cup {-1}
                   /\ arr.count \in Nat /\ arr.capacity \in Nat /\ arr.count <= arr.capacity
                   /\ arr.block \in [0 .. arr.capacity - 1 -> Slots]
                   /\ filling \in {NoSlot, arr.count - 1}
    BY DEF TypeInv, GoodArray
  <2>3. QED
    BY <2>1, <2>2, Zenon DEF ArrayTypeOK
<1>2. QED
  BY <1>1, TypeInvariance, MadeInvariance, PTL

-----------------------------------------------------------------------------
(* The list.  What clients see of an array is the first n cells of its block. *)
Firsts(b, n)   == [i \in 1 .. n |-> b[i - 1]]
FilledOf(a, f) == IF f = NoSlot THEN Elements(a) ELSE Front(Elements(a))

LEMMA FirstsSeq ==
  ASSUME NEW a, GoodArray(a), NEW n \in 0 .. a.count
  PROVE  Firsts(a.block, n) \in Seq(Slots) /\ Len(Firsts(a.block, n)) = n
<1>1. n \in Nat /\ \A i \in 1 .. n : i - 1 \in 0 .. a.capacity - 1
  BY DEF GoodArray
<1>2. \A j \in 0 .. a.capacity - 1 : a.block[j] \in Slots
  BY DEF GoodArray
<1>3. Firsts(a.block, n) \in [1 .. n -> Slots]
  BY <1>1, <1>2 DEF Firsts
<1>4. Firsts(a.block, n) \in Seq(Slots)
  BY <1>1, <1>3, SeqDef
<1>5. QED
  BY <1>1, <1>3, <1>4, LenProperties DEF Firsts

(* Blocks that agree on their first cells show the same. *)
LEMMA FirstsSame ==
  ASSUME NEW b, NEW c, NEW n \in Nat, \A i \in 0 .. n - 1 : c[i] = b[i]
  PROVE  Firsts(c, n) = Firsts(b, n)
<1>1. \A i \in 1 .. n : c[i - 1] = b[i - 1]
  OBVIOUS
<1>2. QED
  BY <1>1 DEF Firsts

(* An element behind the first n is appended to them. *)
LEMMA FirstsAppend ==
  ASSUME NEW a, GoodArray(a), NEW c, GoodArray(c), NEW n \in 0 .. a.count,
         n + 1 <= c.count, \A i \in 0 .. n - 1 : c.block[i] = a.block[i]
  PROVE  Firsts(c.block, n + 1) = Append(Firsts(a.block, n), c.block[n])
<1> DEFINE l == Firsts(a.block, n)
           m == Firsts(c.block, n + 1)
           e == c.block[n]
<1>1. n \in Nat /\ n \in 0 .. c.capacity - 1 /\ n + 1 \in 0 .. c.count
  BY DEF GoodArray
<1>2. e \in Slots
  BY <1>1 DEF GoodArray
<1>3. l \in Seq(Slots) /\ Len(l) = n
  BY FirstsSeq
<1>4. m \in Seq(Slots) /\ Len(m) = n + 1
  BY <1>1, FirstsSeq
<1>5. \A i \in 1 .. n + 1 : m[i] = c.block[i - 1]
  BY DEF Firsts
<1>6. \A i \in 1 .. n : l[i] = a.block[i - 1]
  BY DEF Firsts
<1> HIDE DEF l, m, e
<1>7. /\ Append(l, e) \in Seq(Slots) /\ Len(Append(l, e)) = n + 1
      /\ \A i \in 1 .. n : Append(l, e)[i] = l[i]
      /\ Append(l, e)[n + 1] = e
  BY <1>2, <1>3, AppendProperties
<1>8. \A i \in 1 .. n + 1 : m[i] = Append(l, e)[i]
  <2>1. ASSUME NEW i \in 1 .. n PROVE m[i] = Append(l, e)[i]
    <3>1. i \in 1 .. n + 1 /\ i - 1 \in 0 .. n - 1
      BY <1>1
    <3>2. QED
      BY <1>5, <1>6, <1>7, <3>1
  <2>2. m[n + 1] = e
    BY <1>1, <1>5 DEF e
  <2>3. QED
    BY <1>1, <1>7, <2>1, <2>2
<1>9. QED
  BY <1>4, <1>7, <1>8, SeqEqual DEF l, m, e

(* RemoveAt takes out the element at its place and moves those behind it down. *)
LEMMA RemoveAtProperties ==
  ASSUME NEW S, NEW l \in Seq(S), NEW k \in 1 .. Len(l)
  PROVE  /\ RemoveAt(l, k) \in Seq(S) /\ Len(RemoveAt(l, k)) = Len(l) - 1
         /\ \A j \in 1 .. Len(l) - 1 : RemoveAt(l, k)[j] = IF j < k THEN l[j] ELSE l[j + 1]
<1> DEFINE n == Len(l)
           i == k - 1
           x == SubSeq(l, 1, i)
           y == SubSeq(l, i + 2, n)
<1>1. n \in Nat /\ i \in Nat /\ k \in Nat /\ k = i + 1 /\ i + 1 <= n
  BY LenProperties
<1>2. RemoveAt(l, k) = x \o y
  <2>1. k - 1 = i /\ k + 1 = i + 2
    BY <1>1
  <2>2. QED
    BY <2>1 DEF RemoveAt
<1>3. \A j \in 1 .. n : l[j] \in S
  BY ElementOfSeq
<1> HIDE DEF n, i
<1>4. /\ x \in Seq(S) /\ Len(x) = i /\ \A j \in 1 .. i : x[j] = l[j]
  <2>1. \A j \in 1 .. i : l[j] \in S
    BY <1>1, <1>3
  <2>2. /\ x \in Seq(S) /\ Len(x) = (IF 1 <= i THEN i - 1 + 1 ELSE 0)
        /\ \A j \in 1 .. i - 1 + 1 : x[j] = l[1 + j - 1]
    BY <1>1, <2>1, SubSeqProperties
  <2>3. QED
    BY <1>1, <2>2
<1>5. /\ y \in Seq(S) /\ Len(y) = n - i - 1 /\ \A j \in 1 .. n - i - 1 : y[j] = l[i + 1 + j]
  <2>1. \A j \in i + 2 .. n : l[j] \in S
    BY <1>1, <1>3
  <2>2. /\ y \in Seq(S) /\ Len(y) = (IF i + 2 <= n THEN n - (i + 2) + 1 ELSE 0)
        /\ \A j \in 1 .. n - (i + 2) + 1 : y[j] = l[i + 2 + j - 1]
    BY <1>1, <2>1, SubSeqProperties
  <2>3. QED
    BY <1>1, <2>2
<1> HIDE DEF x, y
<1>6. /\ x \o y \in Seq(S) /\ Len(x \o y) = Len(x) + Len(y)
      /\ \A j \in 1 .. Len(x) + Len(y) : (x \o y)[j] = IF j <= Len(x) THEN x[j] ELSE y[j - Len(x)]
  BY <1>4, <1>5, ConcatProperties
<1>7. Len(x) + Len(y) = n - 1
  BY <1>1, <1>4, <1>5
<1>8. ASSUME NEW j \in 1 .. n - 1 PROVE (x \o y)[j] = IF j < k THEN l[j] ELSE l[j + 1]
  <2>1. CASE j <= i
    BY <1>1, <1>4, <1>6, <1>7, <2>1
  <2>2. CASE ~(j <= i)
    <3>1. j - i \in 1 .. n - i - 1 /\ i + 1 + (j - i) = j + 1
      BY <1>1, <2>2
    <3>2. y[j - i] = l[j + 1]
      BY <1>5, <3>1
    <3>3. QED
      BY <1>1, <1>4, <1>6, <1>7, <2>2, <3>2
  <2>3. QED
    BY <2>1, <2>2
<1>9. QED
  BY <1>2, <1>6, <1>7, <1>8 DEF n

(* Moving the cells behind the i-th down removes it. *)
LEMMA FirstsRemoved ==
  ASSUME NEW a, GoodArray(a), NEW c, GoodArray(c), c.count = a.count - 1, NEW i \in 0 .. a.count - 1,
         \A j \in 0 .. a.count - 2 : c.block[j] = IF j < i THEN a.block[j] ELSE a.block[j + 1]
  PROVE  Firsts(c.block, c.count) = RemoveAt(Firsts(a.block, a.count), i + 1)
<1> DEFINE n == a.count
           l == Firsts(a.block, n)
           m == Firsts(c.block, n - 1)
           r == RemoveAt(l, i + 1)
<1>1. n \in Nat /\ i \in Nat /\ n - 1 \in 0 .. c.count /\ n - 1 \in Nat /\ n \in 0 .. a.count
  BY DEF GoodArray
<1>2. l \in Seq(Slots) /\ Len(l) = n
  BY <1>1, FirstsSeq
<1>3. m \in Seq(Slots) /\ Len(m) = n - 1
  BY <1>1, FirstsSeq
<1>4. \A j \in 1 .. n : l[j] = a.block[j - 1]
  BY DEF Firsts
<1>5. \A j \in 1 .. n - 1 : m[j] = c.block[j - 1]
  BY DEF Firsts
<1> HIDE DEF l, m
<1>10. /\ r \in Seq(Slots) /\ Len(r) = n - 1
       /\ \A j \in 1 .. n - 1 : r[j] = IF j <= i THEN l[j] ELSE l[j + 1]
  <2>1. i + 1 \in 1 .. Len(l)
    BY <1>1, <1>2
  <2>2. \A j \in 1 .. n - 1 : j < i + 1 <=> j <= i
    BY <1>1
  <2>3. QED
    BY <1>2, <2>1, <2>2, RemoveAtProperties
<1> HIDE DEF r
<1>11. ASSUME NEW j \in 1 .. n - 1 PROVE m[j] = r[j]
  <2>1. j - 1 \in 0 .. n - 2 /\ j \in 1 .. n /\ j + 1 \in 1 .. n /\ (j - 1 < i <=> j <= i) /\ j - 1 + 1 = j
    BY <1>1
  <2>2. m[j] = IF j <= i THEN a.block[j - 1] ELSE a.block[j]
    BY <1>5, <2>1
  <2>3. l[j] = a.block[j - 1] /\ l[j + 1] = a.block[j]
    BY <1>4, <2>1
  <2>4. QED
    BY <1>10, <2>2, <2>3
<1>12. m = r
  BY <1>3, <1>10, <1>11, SeqEqual
<1>13. QED
  BY <1>12 DEF m, l, r

(* What is filled of an array is its first elements. *)
LEMMA FilledFirsts ==
  ASSUME NEW a, GoodArray(a), NEW f \in {NoSlot, a.count - 1}
  PROVE  FilledOf(a, f) = Firsts(a.block, IF f = NoSlot THEN a.count ELSE a.count - 1)
<1> DEFINE l == Elements(a)
           n == a.count
           m == Firsts(a.block, n - 1)
<1>1. l = Firsts(a.block, n)
  BY DEF Elements, Firsts
<1>2. CASE f = NoSlot
  BY <1>1, <1>2 DEF FilledOf
<1>3. CASE f # NoSlot
  <2>1. n \in Nat /\ n - 1 \in Nat /\ n \in 0 .. a.count /\ n - 1 \in 0 .. a.count
    BY <1>3 DEF GoodArray, NoSlot
  <2>2. l \in Seq(Slots) /\ Len(l) = n
    BY <1>1, <2>1, FirstsSeq
  <2>3. m \in Seq(Slots) /\ Len(m) = n - 1
    BY <2>1, FirstsSeq
  <2>4. \A j \in 1 .. n - 1 : m[j] = a.block[j - 1] /\ l[j] = a.block[j - 1]
    BY <2>1 DEF Firsts, Elements
  <2> HIDE DEF l, m
  <2>5. \A j \in 1 .. n - 1 : l[j] \in Slots
    BY <2>1, <2>2, ElementOfSeq
  <2>6. /\ SubSeq(l, 1, n - 1) \in Seq(Slots)
        /\ Len(SubSeq(l, 1, n - 1)) = IF 1 <= n - 1 THEN n - 1 - 1 + 1 ELSE 0
        /\ \A j \in 1 .. n - 1 - 1 + 1 : SubSeq(l, 1, n - 1)[j] = l[1 + j - 1]
    BY <2>1, <2>5, SubSeqProperties
  <2>7. /\ Len(SubSeq(l, 1, n - 1)) = n - 1
        /\ \A j \in 1 .. n - 1 : SubSeq(l, 1, n - 1)[j] = l[j]
    BY <2>1, <2>6
  <2>8. \A j \in 1 .. n - 1 : SubSeq(l, 1, n - 1)[j] = m[j]
    BY <2>4, <2>7
  <2>9. SubSeq(l, 1, n - 1) = m
    BY <2>3, <2>6, <2>7, <2>8, SeqEqual
  <2>10. FilledOf(a, f) = SubSeq(l, 1, n - 1)
    BY <1>3, <2>2 DEF FilledOf, Front, l
  <2>11. QED
    BY <1>3, <2>9, <2>10 DEF m
<1>4. QED
  BY <1>2, <1>3

-----------------------------------------------------------------------------
(* Each call as a step of the list. *)
ListStep ==
  \/ \E e \in NotYet : List!Take(e)
  \/ \E i \in DOMAIN Filled : List!TakeOut(i)
  \/ List!Refuse \/ List!Clear
  \/ UNCHANGED List!vars

LEMMA FilledNow ==
  ASSUME TypeInv
  PROVE  /\ Filled = FilledOf(arr, filling)
         /\ filling = NoSlot => Filled = Firsts(arr.block, arr.count) /\ Filled = Elements(arr)
         /\ filling # NoSlot => Filled = Firsts(arr.block, arr.count - 1)
         /\ Filled \in Seq(Slots)
         /\ Len(Filled) = IF filling = NoSlot THEN arr.count ELSE arr.count - 1
<1>1. Filled = FilledOf(arr, filling) /\ (filling = NoSlot => Filled = Elements(arr))
  BY DEF Filled, FilledOf
<1>2. GoodArray(arr) /\ filling \in {NoSlot, arr.count - 1} /\ arr.count \in Nat
  BY DEF TypeInv, GoodArray
<1>3. FilledOf(arr, filling) = Firsts(arr.block, IF filling = NoSlot THEN arr.count ELSE arr.count - 1)
  BY <1>2, FilledFirsts
<1>4. (IF filling = NoSlot THEN arr.count ELSE arr.count - 1) \in 0 .. arr.count
  BY <1>2 DEF NoSlot
<1>5. QED
  BY <1>1, <1>2, <1>3, <1>4, FirstsSeq

(* Removing the element of index i takes out the one at place i + 1. *)
LEMMA RemovalStep ==
  ASSUME TypeInv, filling = NoSlot, NEW i \in 0 .. arr.count - 1, RemoveAtIndex(i)
  PROVE  i + 1 \in DOMAIN Filled /\ List!TakeOut(i + 1)
<1> DEFINE c == Array(Shifted(arr, i), arr.count - 1, arr.capacity)
<1>1. /\ GoodArray(arr) /\ GoodArray(c) /\ c.count = arr.count - 1
      /\ \A j \in 0 .. arr.count - 2 : c.block[j] = IF j < i THEN arr.block[j] ELSE arr.block[j + 1]
  BY ShiftedGood DEF TypeInv
<1>2. arr' = c /\ filling' = NoSlot /\ result' = result /\ freed' = Append(freed, arr.block[i])
  BY DEF RemoveAtIndex
<1> HIDE DEF c
<1>3. Filled = Firsts(arr.block, arr.count) /\ Filled \in Seq(Slots) /\ Len(Filled) = arr.count
  BY FilledNow
<1>4. Filled' = FilledOf(c, NoSlot)
  BY <1>2 DEF Filled, FilledOf
<1>5. Filled' = Firsts(c.block, c.count)
  BY <1>1, <1>4, FilledFirsts
<1>6. Filled' = RemoveAt(Filled, i + 1)
  BY <1>1, <1>3, <1>5, FirstsRemoved
<1>7. arr.count \in Nat /\ i \in Nat /\ i + 1 \in 1 .. arr.count /\ i + 1 - 1 = i
  BY <1>1 DEF GoodArray
<1>8. Filled[i + 1] = arr.block[i]
  BY <1>3, <1>7 DEF Firsts
<1>9. i + 1 \in DOMAIN Filled
  BY <1>3, <1>7, LenProperties
<1>10. QED
  BY <1>2, <1>6, <1>8, <1>9 DEF List!TakeOut, List!RemoveAt, RemoveAt

LEMMA Simulates ==
  ASSUME TypeInv, TypeInv', MadeInv, [ArrayNext]_arrayVars
  PROVE  ListStep
<1> USE DEF ListStep
<1>1. ASSUME NEW n \in 0 .. MaxAhead, NewArray(n) PROVE ListStep
  <2>1. filling = NoSlot /\ arr = Calloced(0)
    BY <1>1, Zenon DEF NewArray, MadeInv
  <2>2. UNCHANGED <<result, freed, filling>> /\ (arr' = Calloced(n) \/ arr' = arr)
    BY <1>1, Zenon DEF NewArray
  <2>3. Elements(Calloced(0)) = <<>> /\ Elements(Calloced(n)) = <<>>
    BY DEF Elements, Calloced, Array
  <2>4. Filled = <<>> /\ Filled' = <<>>
    BY <2>1, <2>2, <2>3 DEF Filled
  <2>5. QED
    BY <2>2, <2>4 DEF List!vars
<1>2. ASSUME NEW n \in 0 .. MaxAhead, RequireRoom(n) PROVE ListStep
  <2>1. filling = NoSlot /\ arr' \in RoomFor(arr, n) /\ UNCHANGED <<result, freed, filling>>
    BY <1>2 DEF RequireRoom, Ready
  <2>2. arr'.count = arr.count /\ \A i \in 0 .. arr.count - 1 : arr'.block[i] = arr.block[i]
    BY <2>1, RoomForGood, ExtraAssumption DEF TypeInv
  <2>3. arr.count \in Nat /\ GoodArray(arr) /\ GoodArray(arr')
    BY DEF TypeInv, GoodArray
  <2>4. Filled = Firsts(arr.block, arr.count)
    BY <2>1, FilledNow
  <2>5. Filled' = FilledOf(arr', NoSlot)
    BY <2>1 DEF Filled, FilledOf
  <2>6. Filled' = Firsts(arr'.block, arr'.count)
    BY <2>3, <2>5, FilledFirsts
  <2>7. Filled' = Filled
    BY <2>2, <2>3, <2>4, <2>6, FirstsSame
  <2>8. QED
    BY <2>1, <2>7 DEF List!vars
<1>3. ASSUME NEW e \in NotYet, xarray_add(e) PROVE ListStep
  <2>1. PICK a \in RoomFor(arr, 1) :
          IF Remaining(a) < 1 THEN result' = -1 /\ arr' = a
          ELSE /\ arr' = Array([a.block EXCEPT ![a.count] = e], a.count + 1, a.capacity)
               /\ result' = a.count
    BY <1>3 DEF xarray_add
  <2>2. filling = NoSlot /\ UNCHANGED <<freed, filling>>
    BY <1>3 DEF xarray_add, Ready
  <2>3. GoodArray(arr) /\ GoodArray(a) /\ a.count = arr.count /\ \A i \in 0 .. arr.count - 1 : a.block[i] = arr.block[i]
    BY RoomForGood DEF TypeInv
  <2>4. arr.count \in Nat /\ Remaining(a) \in Int
    BY <2>3 DEF GoodArray, Remaining
  <2>5. Filled = Firsts(arr.block, arr.count) /\ Len(Filled) = arr.count
    BY <2>2, FilledNow
  <2>6. CASE Remaining(a) < 1
    <3>1. arr' = a /\ result' = -1
      BY <2>1, <2>6
    <3>2. Filled' = FilledOf(a, NoSlot)
      BY <2>2, <3>1 DEF Filled, FilledOf
    <3>3. Filled' = Firsts(a.block, a.count)
      BY <2>3, <3>2, FilledFirsts
    <3>4. Filled' = Filled
      BY <2>3, <2>4, <2>5, <3>3, FirstsSame
    <3>5. QED
      BY <2>2, <3>1, <3>4 DEF List!Refuse
  <2>7. CASE ~(Remaining(a) < 1)
    <3> DEFINE c == Array([a.block EXCEPT ![a.count] = e], a.count + 1, a.capacity)
    <3>1. e \in Slots /\ Remaining(a) >= 1
      BY <2>4, <2>7 DEF NotYet, Slots
    <3>2. /\ GoodArray(c) /\ c.count = a.count + 1
          /\ \A i \in 0 .. a.count - 1 : c.block[i] = a.block[i]
          /\ c.block[a.count] = e
      BY <2>3, <3>1, AppendedGood, Zenon
    <3> HIDE DEF c
    <3>3. arr' = c /\ result' = arr.count
      BY <2>1, <2>3, <2>7 DEF c
    <3>4. Filled' = FilledOf(c, NoSlot)
      BY <2>2, <3>3 DEF Filled, FilledOf
    <3>5. Filled' = Firsts(c.block, arr.count + 1)
      BY <2>3, <3>2, <3>4, FilledFirsts
    <3>6. arr.count \in 0 .. arr.count /\ \A i \in 0 .. arr.count - 1 : c.block[i] = arr.block[i]
      BY <2>3, <2>4, <3>2
    <3>7. Firsts(c.block, arr.count + 1) = Append(Firsts(arr.block, arr.count), c.block[arr.count])
      BY <2>3, <2>4, <3>2, <3>6, FirstsAppend
    <3>8. Filled' = Append(Filled, e)
      BY <2>3, <2>5, <3>2, <3>5, <3>7
    <3>9. QED
      BY <2>2, <2>5, <3>3, <3>8 DEF List!Take
  <2>8. QED
    BY <2>6, <2>7
<1>4. ASSUME NEW e \in NotYet, Fill(e) PROVE ListStep
  <2> DEFINE n == arr.count - 1
             new == [arr.block EXCEPT ![n] = e]
             c == Array(new, arr.count, arr.capacity)
  <2>1. filling = n /\ filling # NoSlot
    BY <1>4 DEF Fill, TypeInv
  <2>2. arr' = c /\ result' = n /\ filling' = NoSlot /\ freed' = freed
    BY <1>4, <2>1 DEF Fill
  <2>3. GoodArray(arr) /\ n \in Nat /\ n \in 0 .. arr.count /\ n \in 0 .. arr.capacity - 1 /\ n + 1 = arr.count
        /\ arr.capacity \in Nat /\ arr.count \in Nat /\ arr.count <= arr.capacity
    BY <2>1 DEF TypeInv, GoodArray, NoSlot
  <2>4. Filled = Firsts(arr.block, n) /\ Len(Filled) = n
    BY <2>1, FilledNow
  <2>5. e \in Slots
    BY DEF NotYet, Slots
  <2>6. /\ new \in [0 .. arr.capacity - 1 -> Slots]
        /\ \A i \in 0 .. n - 1 : new[i] = arr.block[i]
        /\ new[n] = e
    BY <2>3, <2>5 DEF GoodArray
  <2> HIDE DEF new
  <2>7. GoodArray(c) /\ c.count = n + 1 /\ c.block = new
    <3>1. /\ new \in [0 .. arr.capacity - 1 -> Slots]
          /\ arr.count \in Nat /\ arr.capacity \in Nat /\ arr.count <= arr.capacity
      BY <2>3, <2>6
    <3>2. GoodArray(c)
      BY <3>1, ArrayGood
    <3>3. c.count = arr.count /\ c.block = new
      BY DEF Array
    <3>4. QED
      BY <2>3, <3>2, <3>3
  <2>8. c.block[n] = e /\ \A i \in 0 .. n - 1 : c.block[i] = arr.block[i]
    BY <2>6, <2>7
  <2> HIDE DEF c, n
  <2>9. Filled' = FilledOf(c, NoSlot)
    BY <2>2 DEF Filled, FilledOf
  <2>10. Filled' = Firsts(c.block, n + 1)
    BY <2>7, <2>9, FilledFirsts
  <2>11. Firsts(c.block, n + 1) = Append(Firsts(arr.block, n), c.block[n])
    <3>1. n + 1 <= c.count
      BY <2>3, <2>7
    <3>2. QED
      BY <2>3, <2>7, <2>8, <3>1, FirstsAppend, Zenon
  <2>12. QED
    BY <2>2, <2>4, <2>8, <2>10, <2>11 DEF List!Take
<1>5. CASE xarray_add_new_item
  <2>1. PICK a \in RoomFor(arr, 1) :
          IF Remaining(a) < 1 THEN arr' = a /\ result' = -1 /\ UNCHANGED filling
          ELSE /\ arr' = Array(a.block, a.count + 1, a.capacity) /\ filling' = a.count
               /\ UNCHANGED result
    BY <1>5 DEF xarray_add_new_item
  <2>2. filling = NoSlot /\ freed' = freed
    BY <1>5 DEF xarray_add_new_item, Ready
  <2>3. GoodArray(arr) /\ GoodArray(a) /\ a.count = arr.count /\ \A i \in 0 .. arr.count - 1 : a.block[i] = arr.block[i]
    BY RoomForGood DEF TypeInv
  <2>4. arr.count \in Nat /\ Filled = Firsts(arr.block, arr.count)
    BY <2>2, <2>3, FilledNow DEF GoodArray
  <2>5. Firsts(a.block, arr.count) = Filled
    BY <2>3, <2>4, FirstsSame
  <2>6. CASE Remaining(a) < 1
    <3>1. arr' = a /\ result' = -1 /\ filling' = NoSlot
      BY <2>1, <2>2, <2>6
    <3>2. Filled' = FilledOf(a, NoSlot)
      BY <3>1 DEF Filled, FilledOf
    <3>3. Filled' = Firsts(a.block, a.count)
      BY <2>3, <3>2, FilledFirsts
    <3>4. QED
      BY <2>2, <2>3, <2>5, <3>1, <3>3 DEF List!Refuse
  <2>7. CASE ~(Remaining(a) < 1)
    <3> DEFINE c == Array(a.block, a.count + 1, a.capacity)
    <3>1. arr' = c /\ filling' = a.count /\ result' = result
      BY <2>1, <2>7
    <3>2. c.count = a.count + 1 /\ c.block = a.block
      BY DEF Array
    <3>3. GoodArray(c)
      BY <3>1 DEF TypeInv
    <3> HIDE DEF c
    <3>4. a.count \in Nat /\ a.count = c.count - 1 /\ a.count # NoSlot
      BY <2>3, <2>4, <3>2 DEF NoSlot
    <3>5. Filled' = FilledOf(c, a.count)
      BY <3>1 DEF Filled, FilledOf
    <3>6. Filled' = Firsts(a.block, a.count)
      BY <3>2, <3>3, <3>4, <3>5, FilledFirsts
    <3>7. QED
      BY <2>2, <2>3, <2>5, <3>1, <3>6 DEF List!vars
  <2>8. QED
    BY <2>6, <2>7
<1>6. ASSUME NEW i \in 0 .. arr.count - 1, xarray_remove_at(i) PROVE ListStep
  BY <1>6, RemovalStep DEF xarray_remove_at, Ready
<1>7. ASSUME NEW p \in 0 .. arr.count * ElementSize, xarray_remove(p) PROVE ListStep
  <2>1. xarray_index_of(arr, p) \in 0 .. arr.count - 1
    BY <1>7, IndexInside DEF xarray_remove, TypeInv
  <2>2. QED
    BY <1>7, <2>1, RemovalStep DEF xarray_remove, Ready
<1>8. CASE xarray_clean \/ xarray_free
  <2>1. /\ filling = NoSlot /\ UNCHANGED <<result, filling>> /\ freed' = freed \o Elements(arr)
        /\ arr' = Array(arr.block, 0, arr.capacity) \/ arr' = Calloced(0)
    BY <1>8, Zenon DEF xarray_clean, xarray_free, Ready
  <2>2. Elements(Array(arr.block, 0, arr.capacity)) = <<>> /\ Elements(Calloced(0)) = <<>>
    BY DEF Elements, Calloced, Array
  <2>3. Filled = Elements(arr) /\ Filled' = <<>>
    BY <2>1, <2>2 DEF Filled
  <2>4. QED
    BY <2>1, <2>3 DEF List!Clear
<1>9. CASE UNCHANGED arrayVars
  <2>1. UNCHANGED <<Filled, result, freed>>
    BY <1>9 DEF arrayVars, Filled
  <2>2. QED
    BY <2>1 DEF List!vars
<1>10. QED
  BY <1>1, <1>2, <1>3, <1>4, <1>5, <1>6, <1>7, <1>8, <1>9 DEF ArrayNext

(* An array of any element size, growing by any amount, with realloc failing *)
(* whenever it may, is a list to its callers.                                *)
THEOREM ArrayIsList == ArraySpec => IsList
<1>1. ArrayInit => List!Init
  <2>1. Elements(Calloced(0)) = <<>>
    BY DEF Elements, Calloced, Array
  <2>2. QED
    BY <2>1 DEF ArrayInit, List!Init, Filled
<1>2. ListStep => [List!Next]_(List!vars)
  <2>1. NotYet \subseteq Element
    BY DEF NotYet
  <2>2. QED
    BY <2>1 DEF ListStep, List!Next
<1>3. TypeInv /\ TypeInv' /\ MadeInv /\ [ArrayNext]_arrayVars => [List!Next]_(List!vars)
  BY <1>2, Simulates
<1>4. QED
  BY <1>1, <1>3, TypeInvariance, MadeInvariance, PTL DEF ArraySpec, IsList, List!Spec
-----------------------------------------------------------------------------
(* Ownership.  Two sequences hold each of their elements once. *)
Own(l, f) ==
  /\ l \in Seq(Element) /\ f \in Seq(Element)
  /\ \A i, j \in 1 .. Len(l) : l[i] = l[j] => i = j
  /\ \A i, j \in 1 .. Len(f) : f[i] = f[j] => i = j
  /\ \A i \in 1 .. Len(l), j \in 1 .. Len(f) : l[i] # f[j]

OwnInv == Own(Filled, freed)

(* What neither holds may be appended to the first. *)
LEMMA OwnTake ==
  ASSUME NEW l, NEW f, Own(l, f), NEW e \in Element,
         \A i \in 1 .. Len(l) : l[i] # e, \A i \in 1 .. Len(f) : f[i] # e
  PROVE  Own(Append(l, e), f)
<1> DEFINE m == Append(l, e)
<1>1. l \in Seq(Element) /\ Len(l) \in Nat /\ f \in Seq(Element)
  BY LenProperties DEF Own
<1>2. /\ m \in Seq(Element) /\ Len(m) = Len(l) + 1
      /\ \A i \in 1 .. Len(l) : m[i] = l[i]
      /\ m[Len(l) + 1] = e
  BY <1>1, AppendProperties
<1> HIDE DEF m
<1>3. \A i \in 1 .. Len(m) : i \in 1 .. Len(l) \/ i = Len(l) + 1
  BY <1>1, <1>2
<1>4. \A i, j \in 1 .. Len(m) : m[i] = m[j] => i = j
  BY <1>2, <1>3, ZenonT(40) DEF Own
<1>5. \A i \in 1 .. Len(m), j \in 1 .. Len(f) : m[i] # f[j]
  BY <1>2, <1>3, Zenon DEF Own
<1>6. QED
  BY <1>1, <1>2, <1>4, <1>5 DEF Own, m

(* An element of the first may move to the second. *)
LEMMA OwnTakeOut ==
  ASSUME NEW l, NEW f, Own(l, f), NEW k \in 1 .. Len(l)
  PROVE  Own(RemoveAt(l, k), Append(f, l[k]))
<1> DEFINE m == RemoveAt(l, k)
           g == Append(f, l[k])
           At(i) == IF i < k THEN i ELSE i + 1
<1>1. /\ l \in Seq(Element) /\ Len(l) \in Nat /\ f \in Seq(Element) /\ Len(f) \in Nat
      /\ l[k] \in Element
  BY LenProperties, ElementOfSeq DEF Own
<1>2. /\ m \in Seq(Element) /\ Len(m) = Len(l) - 1
      /\ \A j \in 1 .. Len(l) - 1 : m[j] = IF j < k THEN l[j] ELSE l[j + 1]
  BY <1>1, RemoveAtProperties
<1>3. /\ g \in Seq(Element) /\ Len(g) = Len(f) + 1
      /\ \A i \in 1 .. Len(f) : g[i] = f[i]
      /\ g[Len(f) + 1] = l[k]
  BY <1>1, AppendProperties
<1> HIDE DEF m, g
<1>4. \A i \in 1 .. Len(m) : m[i] = l[At(i)] /\ At(i) \in 1 .. Len(l) /\ At(i) # k
  BY <1>1, <1>2
<1>5. \A i, j \in 1 .. Len(m) : At(i) = At(j) => i = j
  BY <1>1, <1>2
<1> HIDE DEF At
<1>6. \A i \in 1 .. Len(g) : i \in 1 .. Len(f) \/ i = Len(f) + 1
  BY <1>1, <1>3
<1>7. ASSUME NEW i \in 1 .. Len(m), NEW j \in 1 .. Len(m), m[i] = m[j] PROVE i = j
  <2>1. l[At(i)] = l[At(j)] /\ At(i) \in 1 .. Len(l) /\ At(j) \in 1 .. Len(l)
    BY <1>4, <1>7
  <2>2. At(i) = At(j)
    BY <2>1, Zenon DEF Own
  <2>3. QED
    BY <1>5, <2>2
<1>8. ASSUME NEW i \in 1 .. Len(g), NEW j \in 1 .. Len(g), g[i] = g[j] PROVE i = j
  <2>1. \A x \in 1 .. Len(f) : f[x] # l[k]
    BY Zenon DEF Own
  <2>2. \A x, y \in 1 .. Len(f) : f[x] = f[y] => x = y
    BY Zenon DEF Own
  <2>3. QED
    BY <1>3, <1>6, <1>8, <2>1, <2>2
<1>9. ASSUME NEW i \in 1 .. Len(m), NEW j \in 1 .. Len(g) PROVE m[i] # g[j]
  <2>1. m[i] = l[At(i)] /\ At(i) \in 1 .. Len(l) /\ At(i) # k
    BY <1>4
  <2>2. l[At(i)] # l[k] /\ \A x \in 1 .. Len(f) : l[At(i)] # f[x]
    BY <2>1, Zenon DEF Own
  <2>3. QED
    BY <1>3, <1>6, <2>1, <2>2
<1>10. QED
  BY <1>2, <1>3, <1>7, <1>8, <1>9 DEF Own, m, g

(* All of the first may move to the second, and the two read as one. *)
LEMMA OwnClear ==
  ASSUME NEW l, NEW f, Own(l, f)
  PROVE  /\ Own(<<>>, f \o l)
         /\ \A i, j \in DOMAIN (l \o f) : i # j => (l \o f)[i] # (l \o f)[j]
         /\ \A i \in DOMAIN (l \o f) : (l \o f)[i] \in Element
<1>1. Own(f, l)
  BY Zenon DEF Own
<1>2. ASSUME NEW a, NEW b, Own(a, b)
      PROVE  /\ a \o b \in Seq(Element)
             /\ \A i, j \in 1 .. Len(a \o b) : (a \o b)[i] = (a \o b)[j] => i = j
  <2> DEFINE c == a \o b
  <2>1. a \in Seq(Element) /\ b \in Seq(Element) /\ Len(a) \in Nat /\ Len(b) \in Nat
    BY <1>2, LenProperties DEF Own
  <2>2. /\ c \in Seq(Element) /\ Len(c) = Len(a) + Len(b)
        /\ \A i \in 1 .. Len(a) + Len(b) : c[i] = IF i <= Len(a) THEN a[i] ELSE b[i - Len(a)]
    BY <2>1, ConcatProperties
  <2> HIDE DEF c
  <2>3. \A i \in 1 .. Len(c) : \/ i \in 1 .. Len(a) /\ c[i] = a[i]
                               \/ i - Len(a) \in 1 .. Len(b) /\ c[i] = b[i - Len(a)]
    BY <2>1, <2>2
  <2>4. ASSUME NEW i \in 1 .. Len(c), NEW j \in 1 .. Len(c), c[i] = c[j] PROVE i = j
    <3>1. CASE i \in 1 .. Len(a) /\ c[i] = a[i]
      BY <1>2, <2>3, <2>4, <3>1, ZenonT(40) DEF Own
    <3>2. CASE i - Len(a) \in 1 .. Len(b) /\ c[i] = b[i - Len(a)]
      <4>1. j - Len(a) \in 1 .. Len(b) /\ c[j] = b[j - Len(a)]
        BY <1>2, <2>3, <2>4, <3>2, Zenon DEF Own
      <4>2. i - Len(a) = j - Len(a)
        BY <1>2, <2>4, <3>2, <4>1, Zenon DEF Own
      <4>3. QED
        BY <2>1, <2>2, <4>2
    <3>3. QED
      BY <2>3, <3>1, <3>2
  <2>5. QED
    BY <2>2, <2>4 DEF c
<1>3. <<>> \in Seq(Element) /\ Len(<<>>) = 0
  OBVIOUS
<1>4. Own(<<>>, f \o l)
  BY <1>1, <1>2, <1>3 DEF Own
<1>5. l \o f \in Seq(Element) /\ \A i, j \in 1 .. Len(l \o f) : (l \o f)[i] = (l \o f)[j] => i = j
  BY <1>2
<1>6. DOMAIN (l \o f) = 1 .. Len(l \o f) /\ \A i \in 1 .. Len(l \o f) : (l \o f)[i] \in Element
  BY <1>5, LenProperties, ElementOfSeq
<1>7. QED
  BY <1>4, <1>5, <1>6

(* A step of the list that takes only what is not yet stored keeps them so. *)
LEMMA OwnStep ==
  ASSUME TypeInv, OwnInv, ListStep
  PROVE  OwnInv'
<1>1. ASSUME NEW e \in NotYet, List!Take(e) PROVE OwnInv'
  <2>1. Filled' = Append(Filled, e) /\ freed' = freed
    BY <1>1 DEF List!Take
  <2>2. e \in Element /\ e \notin Stored
    BY DEF NotYet
  <2>3. ASSUME NEW i \in 1 .. Len(Filled) PROVE Filled[i] # e
    <3>1. arr.count \in Nat /\ Len(Filled) <= arr.count
      BY FilledNow DEF TypeInv, GoodArray
    <3>2. Filled = Firsts(arr.block, Len(Filled))
      BY FilledNow
    <3>3. Filled[i] = arr.block[i - 1] /\ i - 1 \in 0 .. arr.count - 1
      BY <3>1, <3>2 DEF Firsts
    <3>4. QED
      BY <2>2, <3>3 DEF Stored
  <2>4. ASSUME NEW i \in 1 .. Len(freed) PROVE freed[i] # e
    BY <2>2, LenProperties DEF Stored, ToSet, OwnInv, Own
  <2>5. QED
    BY <2>1, <2>2, <2>3, <2>4, OwnTake DEF OwnInv
<1>2. ASSUME NEW i \in DOMAIN Filled, List!TakeOut(i) PROVE OwnInv'
  <2>1. Filled' = RemoveAt(Filled, i) /\ freed' = Append(freed, Filled[i])
    BY <1>2 DEF List!TakeOut, List!RemoveAt, RemoveAt
  <2>2. i \in 1 .. Len(Filled)
    BY LenProperties DEF OwnInv, Own
  <2>3. QED
    BY <2>1, <2>2, OwnTakeOut DEF OwnInv
<1>3. CASE List!Refuse \/ UNCHANGED List!vars
  BY <1>3 DEF List!Refuse, List!vars, OwnInv
<1>4. CASE List!Clear
  BY <1>4, OwnClear DEF List!Clear, OwnInv
<1>5. QED
  BY <1>1, <1>2, <1>3, <1>4 DEF ListStep

(* Every element a client stored is in the array or was handed to the callback, *)
(* once, whatever removal, clearing and failed growth did to the block.         *)
THEOREM ArrayOwnsOnce == ArraySpec => []OwnedOnce
<1>1. ArrayInit => OwnInv
  <2>1. Elements(Calloced(0)) = <<>>
    BY DEF Elements, Calloced, Array
  <2>2. ArrayInit => Filled = <<>> /\ freed = <<>>
    BY <2>1 DEF ArrayInit, Filled
  <2>3. <<>> \in Seq(Element) /\ Len(<<>>) = 0
    OBVIOUS
  <2>4. QED
    BY <2>2, <2>3 DEF OwnInv, Own
<1>2. TypeInv /\ TypeInv' /\ MadeInv /\ OwnInv /\ [ArrayNext]_arrayVars => OwnInv'
  BY Simulates, OwnStep
<1>3. OwnInv => OwnedOnce
  BY OwnClear DEF OwnInv, OwnedOnce
<1>4. QED
  BY <1>1, <1>2, <1>3, TypeInvariance, MadeInvariance, PTL DEF ArraySpec

-----------------------------------------------------------------------------
(* The element a pointer is in. *)
LEMMA PointerInto ==
  ASSUME NEW a, GoodArray(a), NEW i \in 0 .. a.count - 1, NEW inside \in 0 .. ElementSize - 1
  PROVE  /\ i * ElementSize \in Nat /\ i * ElementSize + inside # Null
         /\ i * ElementSize # Null
         /\ xarray_index_of(a, i * ElementSize + inside) = i
<1> DEFINE S == ElementSize
           p == i * S + inside
           N == a.count
<1>1. S \in Nat /\ S > 0 /\ i \in Nat /\ inside \in Nat /\ inside < S /\ N \in Nat /\ i + 1 <= N
  BY ElementSizeAssumption DEF GoodArray
<1> HIDE DEF S, N
<1>2. i * S \in Nat /\ (i + 1) * S <= N * S
  BY <1>1
<1>3. p \in Nat /\ p < N * S
  BY <1>1, <1>2
<1>4. p \div S = i
  BY <1>1, <1>2
<1>5. xarray_index_of(a, p) = i
  <2>1. ~(p < 0 \/ p >= a.count * ElementSize) /\ p \div ElementSize = i
    <3>1. N * S \in Int
      BY <1>1
    <3>2. QED
      BY <1>3, <1>4, <3>1 DEF S, N
  <2> HIDE DEF p
  <2>2. QED
    BY <2>1, Zenon DEF xarray_index_of
<1>6. QED
  BY <1>2, <1>3, <1>5 DEF Null, S

(* xarray_foreach meets the elements in order, then NULL... *)
LEMMA ForwardVisits ==
  ASSUME GoodArray(arr), NEW inside \in 0 .. ElementSize - 1
  PROVE  \A n \in 0 .. arr.count :
           Forward(inside)[n] = IF n < arr.count THEN n * ElementSize ELSE Null
<1> DEFINE N == arr.count
           Def(g) == [n \in 0 .. N |-> IF n = 0 THEN xarray_get_first(arr)
                                       ELSE xarray_get_next(arr, Within(g[n - 1], inside))]
           Place(n) == IF n < N THEN n * ElementSize ELSE Null
           w == [n \in 0 .. N |-> Place(n)]
<1>1. N \in Nat
  BY DEF GoodArray
<1>2. xarray_get_first(arr) = Place(0)
  BY <1>1, ElementSizeAssumption DEF xarray_get_first, xarray_get_at
<1>3. ASSUME NEW n \in 1 .. N
      PROVE  xarray_get_next(arr, Within(Place(n - 1), inside)) = Place(n)
  <2> DEFINE i == n - 1
             q == i * ElementSize + inside
  <2>1. i \in 0 .. arr.count - 1 /\ i + 1 = n /\ n \in Nat
    BY <1>1
  <2> HIDE DEF i
  <2>2. /\ i * ElementSize # Null /\ q # Null
        /\ xarray_index_of(arr, q) = i
    BY <2>1, PointerInto
  <2>3. Within(Place(i), inside) = q
    BY <1>1, <2>1, <2>2 DEF Within
  <2> HIDE DEF q
  <2>4. xarray_get_next(arr, q) = xarray_get_at(arr, i + 1)
    BY <2>1, <2>2 DEF xarray_get_next, Neighbour
  <2>5. xarray_get_at(arr, n) = Place(n)
    BY <1>1, <2>1 DEF xarray_get_at
  <2>6. QED
    BY <2>1, <2>3, <2>4, <2>5 DEF i
<1> HIDE DEF Place
<1>4. w = Def(w)
  <2>1. \A n \in 1 .. N : n - 1 \in 0 .. N
    BY <1>1
  <2>2. ASSUME NEW n \in 0 .. N
        PROVE  Place(n) = IF n = 0 THEN xarray_get_first(arr)
                          ELSE xarray_get_next(arr, Within(w[n - 1], inside))
    <3>1. CASE n = 0
      BY <1>2, <3>1
    <3>2. CASE n # 0
      <4>1. n \in 1 .. N /\ w[n - 1] = Place(n - 1)
        BY <1>1, <2>1, <3>2
      <4>2. QED
        BY <1>3, <3>2, <4>1
    <3>3. QED
      BY <3>1, <3>2
  <2>3. QED
    BY <2>2
<1>5. ASSUME NEW g, g = Def(g) PROVE \A n \in 0 .. N : g[n] = Place(n)
  <2> DEFINE J == {n \in Nat : n <= N => g[n] = Place(n)}
  <2>1. 0 \in J
    <3>1. 0 \in 0 .. N
      BY <1>1
    <3>2. g[0] = xarray_get_first(arr)
      BY <1>5, <3>1
    <3>3. QED
      BY <1>2, <3>2
  <2>2. ASSUME NEW n \in Nat, n \in J PROVE n + 1 \in J
    <3>1. SUFFICES ASSUME n + 1 <= N PROVE g[n + 1] = Place(n + 1)
      BY <2>2
    <3>2. n + 1 \in 1 .. N /\ n + 1 # 0 /\ (n + 1) - 1 = n /\ n <= N /\ n + 1 \in 0 .. N
      BY <1>1, <3>1
    <3>3. g[n + 1] = xarray_get_next(arr, Within(g[(n + 1) - 1], inside))
      BY <1>5, <3>2
    <3>4. g[n] = Place(n)
      BY <2>2, <3>2
    <3>5. xarray_get_next(arr, Within(Place((n + 1) - 1), inside)) = Place(n + 1)
      BY <1>3, <3>2
    <3>6. QED
      BY <3>2, <3>3, <3>4, <3>5
  <2> HIDE DEF J
  <2>3. \A n \in Nat : n \in J
    BY <2>1, <2>2, SetInduction
  <2>4. QED
    BY <1>1, <2>3 DEF J
<1> HIDE DEF w
<1>6. PICK c : c = Forward(inside) /\ c = (CHOOSE g : g = Def(g))
  BY Zenon DEF Forward
<1> HIDE DEF Def
<1>7. c = Def(c)
  BY <1>4, <1>6, Zenon
<1>8. QED
  BY <1>5, <1>6, <1>7 DEF Place

(* ...and xarray_foreach_reverse meets them in the other order. *)
LEMMA BackwardVisits ==
  ASSUME GoodArray(arr), NEW inside \in 0 .. ElementSize - 1
  PROVE  \A n \in 0 .. arr.count :
           Backward(inside)[n] = IF n < arr.count THEN (arr.count - 1 - n) * ElementSize ELSE Null
<1> DEFINE N == arr.count
           Def(g) == [n \in 0 .. N |-> IF n = 0 THEN xarray_get_last(arr)
                                       ELSE xarray_get_prev(arr, Within(g[n - 1], inside))]
           Place(n) == IF n < N THEN (N - 1 - n) * ElementSize ELSE Null
           w == [n \in 0 .. N |-> Place(n)]
<1>1. N \in Nat
  BY DEF GoodArray
<1>2. xarray_get_last(arr) = Place(0)
  BY <1>1, ElementSizeAssumption DEF xarray_get_last, xarray_get_at
<1>3. ASSUME NEW n \in 1 .. N
      PROVE  xarray_get_prev(arr, Within(Place(n - 1), inside)) = Place(n)
  <2> DEFINE i == N - n
             q == i * ElementSize + inside
  <2>1. i \in 0 .. arr.count - 1 /\ i = N - 1 - (n - 1) /\ i - 1 = N - 1 - n /\ n \in Nat
    BY <1>1
  <2> HIDE DEF i
  <2>2. /\ i * ElementSize # Null /\ q # Null
        /\ xarray_index_of(arr, q) = i
    BY <2>1, PointerInto
  <2>3. Within(Place(n - 1), inside) = q
    BY <1>1, <2>1, <2>2 DEF Within
  <2> HIDE DEF q
  <2>4. xarray_get_prev(arr, q) = xarray_get_at(arr, i - 1)
    BY <2>1, <2>2 DEF xarray_get_prev, Neighbour
  <2>5. xarray_get_at(arr, i - 1) = Place(n)
    BY <1>1, <2>1 DEF xarray_get_at
  <2>6. QED
    BY <2>3, <2>4, <2>5
<1> HIDE DEF Place
<1>4. w = Def(w)
  <2>1. \A n \in 1 .. N : n - 1 \in 0 .. N
    BY <1>1
  <2>2. ASSUME NEW n \in 0 .. N
        PROVE  Place(n) = IF n = 0 THEN xarray_get_last(arr)
                          ELSE xarray_get_prev(arr, Within(w[n - 1], inside))
    <3>1. CASE n = 0
      BY <1>2, <3>1
    <3>2. CASE n # 0
      <4>1. n \in 1 .. N /\ w[n - 1] = Place(n - 1)
        BY <1>1, <2>1, <3>2
      <4>2. QED
        BY <1>3, <3>2, <4>1
    <3>3. QED
      BY <3>1, <3>2
  <2>3. QED
    BY <2>2
<1>5. ASSUME NEW g, g = Def(g) PROVE \A n \in 0 .. N : g[n] = Place(n)
  <2> DEFINE J == {n \in Nat : n <= N => g[n] = Place(n)}
  <2>1. 0 \in J
    <3>1. 0 \in 0 .. N
      BY <1>1
    <3>2. g[0] = xarray_get_last(arr)
      BY <1>5, <3>1
    <3>3. QED
      BY <1>2, <3>2
  <2>2. ASSUME NEW n \in Nat, n \in J PROVE n + 1 \in J
    <3>1. SUFFICES ASSUME n + 1 <= N PROVE g[n + 1] = Place(n + 1)
      BY <2>2
    <3>2. n + 1 \in 1 .. N /\ n + 1 # 0 /\ (n + 1) - 1 = n /\ n <= N /\ n + 1 \in 0 .. N
      BY <1>1, <3>1
    <3>3. g[n + 1] = xarray_get_prev(arr, Within(g[(n + 1) - 1], inside))
      BY <1>5, <3>2
    <3>4. g[n] = Place(n)
      BY <2>2, <3>2
    <3>5. xarray_get_prev(arr, Within(Place((n + 1) - 1), inside)) = Place(n + 1)
      BY <1>3, <3>2
    <3>6. QED
      BY <3>2, <3>3, <3>4, <3>5
  <2> HIDE DEF J
  <2>3. \A n \in Nat : n \in J
    BY <2>1, <2>2, SetInduction
  <2>4. QED
    BY <1>1, <2>3 DEF J
<1> HIDE DEF w
<1>6. PICK c : c = Backward(inside) /\ c = (CHOOSE g : g = Def(g))
  BY Zenon DEF Backward
<1> HIDE DEF Def
<1>7. c = Def(c)
  BY <1>4, <1>6, Zenon
<1>8. QED
  BY <1>5, <1>6, <1>7 DEF Place

(* The loops over an array visit each element once, in order, and end, wherever in *)
(* an element the body leaves its pointer.                                          *)
THEOREM LoopsVisitAll == ArraySpec => []VisitsAll
<1>1. TypeInv => VisitsAll
  <2> SUFFICES ASSUME TypeInv, NEW inside \in 0 .. ElementSize - 1
               PROVE  /\ \A n \in 0 .. arr.count - 1 :
                           /\ Forward(inside)[n] = n * ElementSize
                           /\ Backward(inside)[n] = (arr.count - 1 - n) * ElementSize
                      /\ Forward(inside)[arr.count] = Null /\ Backward(inside)[arr.count] = Null
    BY DEF VisitsAll
  <2>1. GoodArray(arr) /\ arr.count \in Nat
    BY DEF TypeInv, GoodArray
  <2>2. QED
    BY <2>1, ForwardVisits, BackwardVisits
<1>2. QED
  BY <1>1, TypeInvariance, PTL
=============================================================================
