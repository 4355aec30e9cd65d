----------------------------- MODULE XioProofs ------------------------------
(* What the calls of the stream layer do to any heap: what they write is bytes, *)
(* a chain is its objects from the top to the source, and each call changes     *)
(* only what it is about.                                                       *)
EXTENDS Xio, Induction

Byte == 0 .. 255

-----------------------------------------------------------------------------
(* The filters make bytes of bytes. *)
LEMMA HexBytes == ASSUME NEW b \in Byte PROVE Hex(b) \in Seq(Byte)
<1>1. b \div 16 \in 0 .. 15 /\ b % 16 \in 0 .. 15
  BY DEF Byte
<1>2. ASSUME NEW n \in 0 .. 15 PROVE HexC!HexDigit(n, UpperHex) \in Byte
  BY DEF HexC!HexDigit, Byte
<1>3. QED
  BY <1>1, <1>2 DEF Hex, HexC!HexByte

(* A character of the base64 alphabet is a byte... *)
LEMMA LetterByte ==
  ASSUME NEW v \in 0 .. 63 PROVE B64C!Letter(v, FALSE) \in Byte
  BY DEF B64C!Letter, Byte

(* The four groups of six bits in three bytes. *)
LEMMA Sextets ==
  ASSUME NEW a \in Byte, NEW b \in Byte, NEW c \in Byte, NEW v, v = (a * 256 + b) * 256 + c
  PROVE  /\ v \div 262144 \in 0 .. 63 /\ (v \div 4096) % 64 \in 0 .. 63
         /\ (v \div 64) % 64 \in 0 .. 63 /\ v % 64 \in 0 .. 63
<1>1. v \in Int /\ 0 <= v /\ v < 64 * 262144
  BY SMT DEF Byte
<1>2. v \div 262144 \in 0 .. 63
  BY <1>1, SMT
<1>3. v \div 4096 \in Int /\ v \div 64 \in Int
  BY <1>1, SMT
<1>4. QED
  BY <1>1, <1>2, <1>3, SMT

(* ...so three bytes or fewer are encoded as bytes... *)
LEMMA GroupBytes ==
  ASSUME NEW g \in Seq(Byte) PROVE B64C!Group(g, FALSE) \in Seq(Byte)
<1> DEFINE byte(i) == IF i <= Len(g) THEN g[i] ELSE 0
           v == (byte(1) * 256 + byte(2)) * 256 + byte(3)
           sextet == <<v \div 262144, (v \div 4096) % 64, (v \div 64) % 64, v % 64>>
           char(i) == IF i <= Len(g) + 1 THEN B64C!Letter(sextet[i], FALSE) ELSE 61
<1>1. Len(g) \in Nat /\ \A i \in 1 .. Len(g) : g[i] \in Byte
  BY ElementOfSeq, LenProperties
<1>2. byte(1) \in Byte /\ byte(2) \in Byte /\ byte(3) \in Byte
  BY <1>1 DEF Byte
<1>3. B64C!Group(g, FALSE) = [i \in 1 .. 4 |-> char(i)]
  BY SMT DEF B64C!Group
<1> HIDE DEF byte
<1>4. /\ v \div 262144 \in 0 .. 63 /\ (v \div 4096) % 64 \in 0 .. 63
      /\ (v \div 64) % 64 \in 0 .. 63 /\ v % 64 \in 0 .. 63
  <2> HIDE DEF v
  <2>1. v = (byte(1) * 256 + byte(2)) * 256 + byte(3)
    BY SMT DEF v
  <2>2. QED
    BY <1>2, <2>1, Sextets, SMT
<1> HIDE DEF v
<1>5. \A i \in 1 .. 4 : sextet[i] \in 0 .. 63
  <2>1. /\ sextet[1] = v \div 262144 /\ sextet[2] = (v \div 4096) % 64
        /\ sextet[3] = (v \div 64) % 64 /\ sextet[4] = v % 64
    BY SMT
  <2> HIDE DEF sextet
  <2>2. /\ sextet[1] \in 0 .. 63 /\ sextet[2] \in 0 .. 63
        /\ sextet[3] \in 0 .. 63 /\ sextet[4] \in 0 .. 63
    BY <1>4, <2>1
  <2>3. ASSUME NEW i \in 1 .. 4 PROVE sextet[i] \in 0 .. 63
    <3>1. i = 1 \/ i = 2 \/ i = 3 \/ i = 4
      OBVIOUS
    <3>2. QED
      BY <2>2, <3>1
  <2>4. QED
    BY <2>3
<1> HIDE DEF sextet
<1>6. \A i \in 1 .. 4 : char(i) \in Byte
  <2>1. \A i \in 1 .. 4 : B64C!Letter(sextet[i], FALSE) \in Byte
    BY <1>5, LetterByte, Zenon
  <2>2. 61 \in Byte
    BY DEF Byte
  <2>3. QED
    BY <2>1, <2>2
<1> HIDE DEF char
<1>7. [i \in 1 .. 4 |-> char(i)] \in Seq(Byte)
  BY <1>6
<1>8. QED
  BY <1>3, <1>7

(* The encoder's FlattenSeq is the one of this module. *)
LEMMA SameFlatten == ASSUME NEW ss PROVE B64C!FlattenSeq(ss) = FlattenSeq(ss)
  BY DEF B64C!FlattenSeq, FlattenSeq

(* ...and so is any string, with its line breaks. *)
LEMMA Base64Bytes ==
  ASSUME NEW s \in Seq(Byte), s # <<>>
  PROVE  Base64(s) \in Seq(Byte)
<1> DEFINE full == Len(s) \div 3
           rest == SubSeq(s, 3 * full + 1, Len(s))
           Break(g) == IF 0 > 0 /\ g % (0 \div 4) = 0 THEN <<B64C!Newline>> ELSE <<>>
           end == IF 0 > 0 /\ full % (0 \div 4) # 0 THEN <<B64C!Newline>> ELSE <<>>
           line(g) == B64C!Group(SubSeq(s, 3 * g - 2, 3 * g), FALSE) \o Break(g)
           groups == [g \in 1 .. full |-> line(g)]
           lines == FlattenSeq(groups)
           tail == IF rest = <<>> THEN <<>> ELSE B64C!Group(rest, FALSE)
<1>1. Len(s) \in Nat /\ \A i \in 1 .. Len(s) : s[i] \in Byte
  BY ElementOfSeq, LenProperties
<1>2. full \in Nat /\ 3 * full <= Len(s)
  BY <1>1
<1>3. Base64(s) = lines \o tail \o <<>>
  <2>1. Base64(s) = B64C!FlattenSeq(groups) \o tail \o end
    <3>1. 0 % 4 = 0 /\ s # <<>>
      OBVIOUS
    <3>2. QED
      BY <3>1, Zenon DEF Base64, B64C!cc_base64_encode
  <2>2. end = <<>>
    OBVIOUS
  <2> HIDE DEF groups, tail, end
  <2>3. QED
    BY <2>1, <2>2, SameFlatten
<1>4. ASSUME NEW g \in 1 .. full PROVE line(g) \in Seq(Byte)
  <2>1. \A i \in 3 * g - 2 .. 3 * g : s[i] \in Byte
    BY <1>1, <1>2
  <2>2. SubSeq(s, 3 * g - 2, 3 * g) \in Seq(Byte)
    BY <1>2, <2>1, SubSeqProperties
  <2>3. Break(g) = <<>>
    OBVIOUS
  <2> HIDE DEF Break
  <2>4. QED
    BY <2>2, <2>3, GroupBytes, ConcatEmptySeq
<1>5. tail \in Seq(Byte)
  <2>1. \A i \in 3 * full + 1 .. Len(s) : s[i] \in Byte
    BY <1>1, <1>2
  <2>2. rest \in Seq(Byte)
    BY <1>1, <1>2, <2>1, SubSeqProperties
  <2>3. QED
    BY <2>2, GroupBytes, EmptySeq
<1> HIDE DEF line, tail, full, end
<1>6. groups \in Seq(Seq(Byte))
  BY <1>2, <1>4
<1> HIDE DEF groups
<1>7. lines \in Seq(Byte)
  BY <1>6, FlattenType
<1> HIDE DEF lines
<1>8. QED
  BY <1>3, <1>5, <1>7, EmptySeq, ConcatProperties

(* What any filter forwards is strings of bytes. *)
LEMMA ForwardedBytes ==
  ASSUME NEW type, NEW strs \in Seq(Seq(Byte))
  PROVE  Forwarded(type, strs) \in Seq(Seq(Byte))
<1>1. Len(strs) \in Nat /\ DOMAIN strs = 1 .. Len(strs) /\ \A i \in 1 .. Len(strs) : strs[i] \in Seq(Byte)
  BY ElementOfSeq, LenProperties
<1>2. CASE type = "PASS"
  BY <1>2 DEF Forwarded
<1>3. CASE type = "HEX"
  <2> DEFINE s == FlattenSeq(strs)
             hex(i) == Hex(s[i])
  <2>1. s \in Seq(Byte)
    BY FlattenType
  <2>2. Forwarded(type, strs) = [i \in DOMAIN s |-> hex(i)]
    BY <1>3 DEF Forwarded
  <2> HIDE DEF s
  <2>3. Len(s) \in Nat /\ DOMAIN s = 1 .. Len(s) /\ \A i \in 1 .. Len(s) : s[i] \in Byte
    BY <2>1, ElementOfSeq, LenProperties
  <2>4. \A i \in 1 .. Len(s) : hex(i) \in Seq(Byte)
    BY <2>3, HexBytes
  <2> HIDE DEF hex
  <2>5. QED
    BY <2>2, <2>3, <2>4
<1>4. CASE type # "PASS" /\ type # "HEX"
  <2> DEFINE text(i) == IF strs[i] = <<>> THEN <<>> ELSE <<Base64(strs[i])>>
             texts == [i \in DOMAIN strs |-> text(i)]
  <2>1. Forwarded(type, strs) = FlattenSeq(texts)
    BY <1>4 DEF Forwarded
  <2>2. ASSUME NEW i \in 1 .. Len(strs) PROVE text(i) \in Seq(Seq(Byte))
    <3>1. strs[i] # <<>> => Base64(strs[i]) \in Seq(Byte)
      BY <1>1, Base64Bytes
    <3>2. QED
      BY <3>1, EmptySeq
  <2> HIDE DEF text
  <2>3. texts \in Seq(Seq(Seq(Byte)))
    BY <1>1, <2>2
  <2> HIDE DEF texts
  <2>4. QED
    BY <2>1, <2>3, FlattenType
<1>5. QED
  BY <1>2, <1>3, <1>4

(* Strings of bytes reach every object of a chain, if one is written to it. *)
LEMMA HandedBytes ==
  ASSUME NEW hp, NEW n \in Nat, NEW c, DOMAIN c = 1 .. n, NEW s \in Seq(Byte)
  PROVE  /\ Handed(hp, c, s) \in [1 .. n -> Seq(Seq(Byte))]
         /\ n > 0 => Handed(hp, c, s)[1] = <<s>>
<1> DEFINE T == Seq(Seq(Byte))
           one == <<s>>
           J(x, i) == Forwarded(hp.obj[c[i - 1]].type, x)
           Def(g) == [i \in 1 .. n |-> IF i = 1 THEN one ELSE J(g[i - 1], i)]
           strs == CHOOSE g : g = Def(g)
           D == [i \in Nat |-> [v \in T |-> J(v, i + 2)]]
<1>1. Handed(hp, c, s) = strs
  BY DEF Handed
<1>2. one \in T
  OBVIOUS
<1>3. \A x \in T : \A i : J(x, i) \in T
  BY ForwardedBytes
<1> HIDE DEF T, one, J, strs
<1>4. D \in [Nat -> [T -> T]]
  BY <1>3
<1>5. \A v \in T, i \in Nat : D[i][v] = J(v, i + 2)
  OBVIOUS
<1> HIDE DEF D
<1>6. \E f : GoesOn(f, T, one, D)
  BY <1>2, <1>4, Recursion, Zenon
<1>7. PICK f \in [Nat -> T] : f[0] = one /\ \A i \in Nat : f[i + 1] = D[i][f[i]]
  BY <1>6 DEF GoesOn
<1> DEFINE f1 == [i \in 1 .. n |-> f[i - 1]]
<1>8. f1 = Def(f1)
  <2>1. ASSUME NEW i \in 1 .. n PROVE f[i - 1] = IF i = 1 THEN one ELSE J(f1[i - 1], i)
    <3>1. CASE i = 1
      BY <1>7, <3>1
    <3>2. CASE i # 1
      <4>1. i - 1 \in 1 .. n /\ i - 2 \in Nat /\ i - 2 + 1 = i - 1 /\ i - 2 + 2 = i /\ i - 1 - 1 = i - 2
        BY <3>2
      <4>2. f1[i - 1] = f[i - 2]
        BY <4>1
      <4>3. f[i - 1] = D[i - 2][f[i - 2]]
        BY <1>7, <4>1
      <4>4. f[i - 2] \in T
        BY <4>1
      <4>5. D[i - 2][f[i - 2]] = J(f[i - 2], i)
        BY <1>5, <4>1, <4>4
      <4>6. QED
        BY <3>2, <4>2, <4>3, <4>5
    <3>3. QED
      BY <3>1, <3>2
  <2>2. QED
    BY <2>1
<1>9. strs = Def(strs)
  BY <1>8 DEF strs
<1>10. \A i \in 1 .. n : strs[i] = IF i = 1 THEN one ELSE J(strs[i - 1], i)
  BY <1>9
<1> DEFINE E == {k \in Nat : k + 1 <= n => strs[k + 1] \in T}
<1>11. 0 \in E
  BY <1>2, <1>10
<1>12. ASSUME NEW k \in Nat, k \in E PROVE k + 1 \in E
  <2>1. SUFFICES ASSUME k + 2 <= n PROVE strs[k + 2] \in T
    OBVIOUS
  <2>2. k + 2 \in 1 .. n /\ k + 2 - 1 = k + 1 /\ k + 2 # 1 /\ strs[k + 1] \in T
    BY <1>12, <2>1
  <2>3. QED
    BY <1>3, <1>10, <2>2
<1> HIDE DEF E
<1>13. \A k \in Nat : k \in E
  BY <1>11, <1>12, SetInduction
<1>14. ASSUME NEW i \in 1 .. n PROVE strs[i] \in T
  <2>1. i - 1 \in E /\ i - 1 + 1 = i /\ i - 1 + 1 <= n
    BY <1>13
  <2>2. QED
    BY <2>1 DEF E
<1>15. DOMAIN strs = 1 .. n
  BY <1>9
<1> HIDE DEF Def
<1>16. strs \in [1 .. n -> T]
  <2>1. strs = [i \in 1 .. n |-> strs[i]]
    BY <1>9 DEF Def
  <2>2. QED
    BY <1>14, <2>1
<1>17. n > 0 => strs[1] = one
  BY <1>10
<1>18. QED
  BY <1>1, <1>16, <1>17 DEF T, one

-----------------------------------------------------------------------------
(* Heaps. *)
Object == [type : Filter \cup Source \cup {"unused"}, close : BOOLEAN, dirty : BOOLEAN,
           target : Handle \cup {NULL}, fp : Fp \cup {NoFp}, readn : Nat, wrote : BOOLEAN,
           last : Byte \cup {Unknown}, data : Seq(Byte)]
File   == [open : BOOLEAN, mode : {"rb", "wb", "r+"}, disk : Disk \cup {NoFp},
           buf : Seq(Byte), pos : Nat]
Device == [data : Seq(Byte), broken : BOOLEAN]
Heap   == [obj : [Handle -> Object], file : [Fp -> File], disk : [Disk -> Device]]

(* An object is one of its type; only a filter has a target, only FILE a FILE. *)
GoodObject(o) ==
  /\ o.type = "unused" => o = Unused
  /\ o.target # NULL => o.type \in Filter
  /\ o.type = "FILE" <=> o.fp \in Fp
  /\ o.readn <= Len(o.data)

(* A FILE that is open has a device; its buffer holds what fits, and what was *)
(* written; one that is closed has nothing.                                   *)
GoodFile(f) ==
  /\ f.open => f.disk \in Disk
  /\ ~f.open => f = Closed
  /\ Len(f.buf) <= BufSize
  /\ f.mode = "rb" => f.buf = <<>>

(* The targets of an object end at some source. *)
Target(hp, k) == hp.obj[k].target
Chained(hp) ==
  /\ \A k \in Handle : Target(hp, k) \in Handle \cup {NULL}
  /\ \E c \in [Handle \cup {NULL} -> Seq(Handle)] :
       /\ c[NULL] = <<>>
       /\ \A k \in Handle : c[k] = <<k>> \o c[Target(hp, k)]

GoodHeap(hp) ==
  /\ hp \in Heap
  /\ \A h \in Handle : GoodObject(hp.obj[h])
  /\ \A f \in Fp : GoodFile(hp.file[f])
  /\ Chained(hp)

(* The recursion of Chain does what it says where targets end. *)
LEMMA ChainSteps ==
  ASSUME NEW hp, Chained(hp)
  PROVE  /\ \A k \in Handle : Chain(hp, k) \in Seq(Handle) /\ Len(Chain(hp, k)) > 0
         /\ Chain(hp, NULL) = <<>>
         /\ \A k \in Handle : Chain(hp, k) = <<k>> \o Chain(hp, Target(hp, k))
<1> DEFINE H == Handle \cup {NULL}
           Def(g) == [k \in H |-> IF k = NULL THEN <<>> ELSE <<k>> \o g[hp.obj[k].target]]
           c == CHOOSE g : g = Def(g)
<1>1. \A k : Chain(hp, k) = c[k]
  BY DEF Chain
<1>2. PICK c0 \in [H -> Seq(Handle)] :
        c0[NULL] = <<>> /\ \A k \in Handle : c0[k] = <<k>> \o c0[Target(hp, k)]
  BY DEF Chained
<1>3. \A k \in Handle : Target(hp, k) \in H
  BY DEF Chained
<1>4. c0 = Def(c0)
  BY <1>2, NullAssumption DEF Target
<1>5. c = Def(c)
  BY <1>4
<1> HIDE DEF c
<1>6. c[NULL] = <<>> /\ \A k \in Handle : c[k] = <<k>> \o c[Target(hp, k)]
  BY <1>5, NullAssumption DEF Target
<1> DEFINE J(k, x) == <<k>> \o x
<1>7. \A k \in Handle, x \in Seq(Handle) : J(k, x) \in Seq(Handle) /\ Len(J(k, x)) = Len(x) + 1
  <2>1. ASSUME NEW k \in Handle, NEW x \in Seq(Handle)
        PROVE  J(k, x) \in Seq(Handle) /\ Len(J(k, x)) = Len(x) + 1
    <3>1. <<k>> \in Seq(Handle) /\ Len(<<k>>) = 1
      OBVIOUS
    <3>2. Len(x) \in Nat
      BY LenProperties
    <3>3. QED
      BY <3>1, <3>2, ConcatProperties
  <2>2. QED
    BY <2>1
<1>8. /\ \A k \in Handle : c[k] = J(k, c[Target(hp, k)])
      /\ \A k \in Handle : c0[k] = J(k, c0[Target(hp, k)])
  BY <1>2, <1>6
<1> HIDE DEF J
<1>9. \A k \in H : Len(c0[k]) \in Nat
  BY LenProperties
<1> DEFINE E == {n \in Nat : \A k \in H : Len(c0[k]) <= n => c[k] = c0[k]}
<1>10. ASSUME NEW k \in Handle PROVE Len(c0[k]) = Len(c0[Target(hp, k)]) + 1
  <2>1. c0[k] = J(k, c0[Target(hp, k)]) /\ c0[Target(hp, k)] \in Seq(Handle)
    BY <1>2, <1>3, <1>8
  <2>2. QED
    BY <1>7, <2>1
<1>11. 0 \in E
  <2>1. ASSUME NEW k \in H, Len(c0[k]) <= 0 PROVE c[k] = c0[k]
    <3>1. k = NULL
      BY <1>3, <1>9, <1>10, <2>1
    <3>2. QED
      BY <1>2, <1>6, <3>1
  <2>2. QED
    BY <2>1
<1>12. ASSUME NEW n \in Nat, n \in E PROVE n + 1 \in E
  <2>1. ASSUME NEW k \in H, Len(c0[k]) <= n + 1 PROVE c[k] = c0[k]
    <3>1. CASE k = NULL
      BY <1>2, <1>6, <3>1
    <3>2. CASE k # NULL
      <4>1. k \in Handle /\ Target(hp, k) \in H
        BY <1>3, <3>2
      <4>2. Len(c0[Target(hp, k)]) <= n
        BY <1>9, <1>10, <2>1, <4>1
      <4>3. c[Target(hp, k)] = c0[Target(hp, k)]
        BY <1>12, <4>1, <4>2
      <4>4. QED
        BY <1>8, <4>1, <4>3
    <3>3. QED
      BY <3>1, <3>2
  <2>2. QED
    BY <2>1
<1> HIDE DEF E
<1>13. \A n \in Nat : n \in E
  BY <1>11, <1>12, SetInduction
<1>14. ASSUME NEW k \in H PROVE c[k] = c0[k]
  <2>1. Len(c0[k]) \in E /\ Len(c0[k]) <= Len(c0[k])
    BY <1>9, <1>13
  <2>2. QED
    BY <2>1 DEF E
<1>15. ASSUME NEW k \in Handle PROVE Chain(hp, k) \in Seq(Handle) /\ Len(Chain(hp, k)) > 0
  <2>1. Chain(hp, k) = c0[k]
    BY <1>1, <1>14
  <2>2. Len(c0[k]) > 0
    BY <1>3, <1>9, <1>10
  <2>3. QED
    BY <2>1, <2>2
<1>16. QED
  BY <1>1, <1>6, <1>15, Zenon

(* A chain goes from its first object by targets to one without a target. *)
LEMMA ChainLinks ==
  ASSUME NEW hp, Chained(hp), NEW h \in Handle, NEW c, c = Chain(hp, h)
  PROVE  /\ c \in Seq(Handle) /\ Len(c) > 0 /\ c[1] = h
         /\ \A i \in 1 .. Len(c) - 1 : c[i + 1] = Target(hp, c[i])
         /\ Target(hp, c[Len(c)]) = NULL
<1> DEFINE Linked(d, k) ==
             /\ d[1] = k
             /\ \A i \in 1 .. Len(d) - 1 : d[i + 1] = Target(hp, d[i])
             /\ Target(hp, d[Len(d)]) = NULL
           E == {n \in Nat : \A k \in Handle : Len(Chain(hp, k)) <= n => Linked(Chain(hp, k), k)}
<1>1. \A k \in Handle : Chain(hp, k) \in Seq(Handle) /\ Len(Chain(hp, k)) > 0 /\ Len(Chain(hp, k)) \in Nat
  BY ChainSteps, LenProperties
<1>2. \A k \in Handle : Target(hp, k) \in Handle \cup {NULL}
  BY DEF Chained
<1>3. 0 \in E
  BY <1>1
<1>4. ASSUME NEW n \in Nat, n \in E PROVE n + 1 \in E
  <2>1. ASSUME NEW k \in Handle, Len(Chain(hp, k)) <= n + 1 PROVE Linked(Chain(hp, k), k)
    <3> DEFINE t == Target(hp, k)
               d == Chain(hp, t)
               e == <<k>> \o d
    <3>1. Chain(hp, k) = e
      BY ChainSteps
    <3>2. CASE t = NULL
      <4>1. d = <<>>
        BY <3>2, ChainSteps
      <4>2. <<k>> \o <<>> = <<k>>
        BY ConcatEmptySeq
      <4>3. Chain(hp, k) = <<k>>
        BY <3>1, <4>1, <4>2
      <4>4. QED
        BY <3>2, <4>3
    <3>3. CASE t # NULL
      <4>1. t \in Handle /\ d \in Seq(Handle) /\ Len(d) > 0 /\ Len(d) \in Nat
        BY <1>1, <1>2, <3>3
      <4> HIDE DEF d
      <4>2. /\ e \in Seq(Handle) /\ Len(e) = Len(d) + 1 /\ e[1] = k
            /\ \A i \in 2 .. Len(d) + 1 : e[i] = d[i - 1]
        <5>1. <<k>> \in Seq(Handle) /\ Len(<<k>>) = 1 /\ <<k>>[1] = k
          OBVIOUS
        <5> DEFINE one == <<k>>
        <5>2. one \in Seq(Handle) /\ Len(one) = 1 /\ one[1] = k
          BY <5>1
        <5> HIDE DEF one
        <5>3. /\ one \o d \in Seq(Handle) /\ Len(one \o d) = 1 + Len(d)
              /\ \A i \in 1 .. 1 + Len(d) : (one \o d)[i] = IF i <= 1 THEN one[i] ELSE d[i - 1]
          <6>1. /\ one \o d \in Seq(Handle) /\ Len(one \o d) = Len(one) + Len(d)
                /\ \A i \in 1 .. Len(one) + Len(d) :
                     (one \o d)[i] = IF i <= Len(one) THEN one[i] ELSE d[i - Len(one)]
            BY <4>1, <5>2, ConcatProperties, Zenon
          <6>2. QED
            BY <5>2, <6>1
        <5>4. QED
          BY <4>1, <5>2, <5>3 DEF one
      <4> HIDE DEF e
      <4>3. Linked(d, t)
        BY <1>4, <2>1, <3>1, <4>1, <4>2 DEF d
      <4>4. ASSUME NEW i \in 1 .. Len(e) - 1 PROVE e[i + 1] = Target(hp, e[i])
        <5>1. CASE i = 1
          BY <4>1, <4>2, <4>3, <5>1
        <5>2. CASE i # 1
          <6>1. e[i + 1] = d[i] /\ e[i] = d[i - 1] /\ i - 1 \in 1 .. Len(d) - 1 /\ i - 1 + 1 = i
            BY <4>1, <4>2, <5>2
          <6>2. QED
            BY <4>3, <6>1
        <5>3. QED
          BY <5>1, <5>2
      <4>5. e[Len(e)] = d[Len(d)]
        BY <4>1, <4>2
      <4>6. Linked(e, k)
        BY <4>2, <4>3, <4>4, <4>5
      <4>7. QED
        BY <3>1, <4>6
    <3>4. QED
      BY <3>2, <3>3
  <2>2. QED
    BY <2>1
<1> HIDE DEF E, Linked
<1>5. \A n \in Nat : n \in E
  BY <1>3, <1>4, SetInduction
<1>6. Len(c) \in E /\ Len(c) <= Len(c)
  BY <1>1, <1>5
<1>7. Linked(c, h)
  BY <1>6 DEF E
<1>8. QED
  BY <1>1, <1>7 DEF Linked

(* A set that holds the targets of its objects holds their chains. *)
LEMMA ChainIn ==
  ASSUME NEW hp, Chained(hp), NEW S, S \subseteq Handle, NEW h \in S,
         \A k \in S : Target(hp, k) \in S \cup {NULL}
  PROVE  \A i \in 1 .. Len(Chain(hp, h)) : Chain(hp, h)[i] \in S
<1> DEFINE c == Chain(hp, h)
           E == {n \in Nat : n + 1 <= Len(c) => c[n + 1] \in S}
<1>1. /\ c \in Seq(Handle) /\ Len(c) > 0 /\ c[1] = h
      /\ \A i \in 1 .. Len(c) - 1 : c[i + 1] = Target(hp, c[i])
  <2>1. h \in Handle
    OBVIOUS
  <2>2. QED
    BY <2>1, ChainLinks
<1>2. Len(c) \in Nat /\ \A i \in 1 .. Len(c) : c[i] \in Handle
  BY <1>1, LenProperties, ElementOfSeq
<1> HIDE DEF c
<1>3. 0 \in E
  BY <1>1
<1>4. ASSUME NEW n \in Nat, n \in E PROVE n + 1 \in E
  <2>1. SUFFICES ASSUME n + 2 <= Len(c) PROVE c[n + 2] \in S
    OBVIOUS
  <2>2. n + 1 \in 1 .. Len(c) - 1 /\ n + 1 + 1 = n + 2 /\ n + 2 \in 1 .. Len(c)
    BY <1>2, <2>1
  <2>3. c[n + 1] \in S /\ c[n + 2] = Target(hp, c[n + 1]) /\ c[n + 2] \in Handle
    BY <1>1, <1>2, <1>4, <2>2
  <2>4. QED
    BY <2>3, NullAssumption
<1> HIDE DEF E
<1>5. \A n \in Nat : n \in E
  BY <1>3, <1>4, SetInduction
<1>6. ASSUME NEW i \in 1 .. Len(c) PROVE c[i] \in S
  <2>1. i - 1 \in E /\ i - 1 + 1 = i /\ i - 1 + 1 <= Len(c)
    BY <1>2, <1>5
  <2>2. QED
    BY <2>1 DEF E
<1>7. QED
  BY <1>6 DEF c

(* Chains end as long as nothing but targets matters to them... *)
LEMMA SameTargets ==
  ASSUME NEW hp, Chained(hp), NEW hq, \A k \in Handle : Target(hq, k) = Target(hp, k)
  PROVE  Chained(hq)
BY DEF Chained

(* ...as long as a new object is stacked on an old one, or on none... *)
LEMMA AllocChained ==
  ASSUME NEW hp, Chained(hp), NEW hq, NEW h \in Handle,
         \A k \in Handle \ {h} : Target(hq, k) = Target(hp, k) /\ Target(hq, k) # h,
         \A k \in Handle : Target(hq, k) \in Handle \cup {NULL},
         Target(hq, h) # h
  PROVE  Chained(hq)
<1> DEFINE H == Handle \cup {NULL}
<1>1. PICK c \in [H -> Seq(Handle)] :
        c[NULL] = <<>> /\ \A k \in Handle : c[k] = <<k>> \o c[Target(hp, k)]
  BY DEF Chained
<1> DEFINE new == <<h>> \o c[Target(hq, h)]
           g == [k \in H |-> IF k = h THEN new ELSE c[k]]
<1>2. new \in Seq(Handle)
  <2>1. <<h>> \in Seq(Handle) /\ c[Target(hq, h)] \in Seq(Handle)
    OBVIOUS
  <2>2. QED
    BY <2>1, ConcatProperties
<1>3. g \in [H -> Seq(Handle)] /\ g[NULL] = <<>>
  BY <1>1, <1>2, NullAssumption
<1>4. ASSUME NEW k \in Handle PROVE g[k] = <<k>> \o g[Target(hq, k)]
  <2>1. CASE k = h
    BY <2>1
  <2>2. CASE k # h
    <3>1. Target(hq, k) = Target(hp, k) /\ Target(hq, k) # h /\ Target(hq, k) \in H
      BY <2>2
    <3>2. g[k] = c[k] /\ g[Target(hq, k)] = c[Target(hp, k)]
      BY <2>2, <3>1
    <3> HIDE DEF g
    <3>3. QED
      BY <1>1, <3>2
  <2>3. QED
    BY <2>1, <2>2
<1> HIDE DEF g
<1>5. QED
  BY <1>3, <1>4 DEF Chained

(* ...and as long as an object goes only when nothing is left on it. *)
LEMMA FreeChained ==
  ASSUME NEW hp, Chained(hp), NEW hq, NEW gone, gone \subseteq Handle,
         \A k \in Handle : Target(hp, k) \in Handle \cup {NULL},
         \A k \in gone : Target(hq, k) = NULL,
         \A k \in Handle \ gone : Target(hq, k) = Target(hp, k) /\ Target(hp, k) \notin gone
  PROVE  Chained(hq)
<1> DEFINE H == Handle \cup {NULL}
<1>1. PICK c \in [H -> Seq(Handle)] :
        c[NULL] = <<>> /\ \A k \in Handle : c[k] = <<k>> \o c[Target(hp, k)]
  BY DEF Chained
<1> DEFINE g == [k \in H |-> IF k \in gone THEN <<k>> ELSE c[k]]
<1>2. g \in [H -> Seq(Handle)] /\ g[NULL] = <<>>
  BY <1>1, NullAssumption
<1>3. ASSUME NEW k \in Handle PROVE g[k] = <<k>> \o g[Target(hq, k)]
  <2>1. CASE k \in gone
    <3>1. <<k>> \o <<>> = <<k>>
      BY ConcatEmptySeq
    <3>2. g[k] = <<k>> /\ g[Target(hq, k)] = <<>>
      BY <1>2, <2>1
    <3>3. QED
      BY <3>1, <3>2
  <2>2. CASE k \notin gone
    <3>1. g[k] = c[k] /\ g[Target(hq, k)] = c[Target(hp, k)]
      BY <2>2
    <3> HIDE DEF g
    <3>2. QED
      BY <1>1, <3>1
  <2>3. QED
    BY <2>1, <2>2
<1> HIDE DEF g
<1>4. QED
  BY <1>2, <1>3 DEF Chained

-----------------------------------------------------------------------------
(* stdio: w is hp with buf in the buffer of f, and data on its device d. *)
FileIs(hp, w, f, d, buf, data) ==
  /\ \A g \in Fp \ {f} : w.file[g] = hp.file[g]
  /\ w.file[f] = [hp.file[f] EXCEPT !.buf = buf]
  /\ \A e \in Disk \ {d} : w.disk[e] = hp.disk[e]
  /\ w.disk[d] = [hp.disk[d] EXCEPT !.data = data]
OnlyFileIs(hp, w, f, d, buf, data) ==
  w \in Heap /\ w.obj = hp.obj /\ FileIs(hp, w, f, d, buf, data)

(* A change of one FILE and its device, and nothing else. *)
LEMMA Put ==
  ASSUME NEW hp, hp \in Heap, NEW f \in Fp, NEW d \in Disk,
         NEW buf \in Seq(Byte), NEW data \in Seq(Byte), NEW w,
         \/ w = [hp EXCEPT !.file[f].buf = buf, !.disk[d].data = data]
         \/ w = [hp EXCEPT !.file[f].buf = buf] /\ data = hp.disk[d].data
  PROVE  OnlyFileIs(hp, w, f, d, buf, data)
<1> DEFINE file == [hp.file EXCEPT ![f].buf = buf]
           disk == [hp.disk EXCEPT ![d].data = data]
<1>1. hp.obj \in [Handle -> Object] /\ hp.file \in [Fp -> File] /\ hp.disk \in [Disk -> Device]
  BY DEF Heap
<1>2. [hp.file[f] EXCEPT !.buf = buf] \in File
  BY <1>1 DEF File
<1>3. [hp.disk[d] EXCEPT !.data = data] \in Device
  BY <1>1 DEF Device
<1>4. /\ file \in [Fp -> File] /\ file[f] = [hp.file[f] EXCEPT !.buf = buf]
      /\ \A g \in Fp \ {f} : file[g] = hp.file[g]
  BY <1>1, <1>2
<1>5. /\ disk \in [Disk -> Device] /\ disk[d] = [hp.disk[d] EXCEPT !.data = data]
      /\ \A e \in Disk \ {d} : disk[e] = hp.disk[e]
  BY <1>1, <1>3
<1>6. hp = [obj |-> hp.obj, file |-> hp.file, disk |-> hp.disk]
  BY DEF Heap
<1>7. ASSUME data = hp.disk[d].data PROVE disk = hp.disk
  <2>1. [hp.disk[d] EXCEPT !.data = data] = hp.disk[d]
    BY <1>1, <1>7 DEF Device
  <2>2. \A e \in Disk : disk[e] = hp.disk[e]
    BY <1>5, <2>1
  <2> HIDE DEF disk
  <2>3. QED
    BY <1>1, <1>5, <2>2
<1>8. w = [obj |-> hp.obj, file |-> file, disk |-> disk]
  <2>1. CASE w = [hp EXCEPT !.file[f].buf = buf, !.disk[d].data = data]
    <3>1. w = [[hp EXCEPT !.file = file] EXCEPT !.disk = disk]
      BY <1>6, <2>1
    <3> HIDE DEF file, disk
    <3>2. QED
      BY <1>6, <3>1
  <2>2. CASE w = [hp EXCEPT !.file[f].buf = buf] /\ data = hp.disk[d].data
    <3>1. w = [hp EXCEPT !.file = file] /\ disk = hp.disk
      BY <1>6, <1>7, <2>2
    <3> HIDE DEF file, disk
    <3>2. QED
      BY <1>6, <3>1
  <2>3. QED
    BY <2>1, <2>2
<1> HIDE DEF file, disk
<1>9. w \in Heap /\ w.obj = hp.obj /\ w.file = file /\ w.disk = disk
  BY <1>1, <1>4, <1>5, <1>8 DEF Heap
<1>10. QED
  BY <1>4, <1>5, <1>9 DEF OnlyFileIs, FileIs

(* fflush writes the buffer out, and empties it even when the device fails. *)
LEMMA Flushed ==
  ASSUME NEW hp, hp \in Heap, NEW f \in Fp, NEW d \in Disk, hp.file[f].disk = d
  PROVE  OnlyFileIs(hp, Fflush(hp, f), f, d, <<>>,
                 IF hp.disk[d].broken THEN hp.disk[d].data ELSE hp.disk[d].data \o hp.file[f].buf)
<1> DEFINE data == IF hp.disk[d].broken THEN hp.disk[d].data
                   ELSE hp.disk[d].data \o hp.file[f].buf
<1>1. data \in Seq(Byte) /\ <<>> \in Seq(Byte)
  BY DEF Heap, File, Device
<1>2. Fflush(hp, f) = [hp EXCEPT !.file[f].buf = <<>>, !.disk[d].data = data]
  BY DEF Fflush
<1> HIDE DEF data
<1>3. OnlyFileIs(hp, Fflush(hp, f), f, d, <<>>, data)
  BY <1>1, <1>2, Put
<1>4. QED
  BY <1>3 DEF data

(* fwrite writes nothing to what was opened to be read; elsewhere it keeps, *)
(* passes on with all that was kept, or loses, what it is given.            *)
Fwritten(hp, w, f, s) ==
  LET d == hp.file[f].disk
      b == hp.file[f].buf \o s
      data == hp.disk[d].data
  IN  IF hp.file[f].mode = "rb" THEN w.file = hp.file /\ w.disk = hp.disk
      ELSE \/ Len(b) <= BufSize /\ FileIs(hp, w, f, d, b, data)
           \/ hp.disk[d].broken /\ FileIs(hp, w, f, d, <<>>, data)
           \/ ~hp.disk[d].broken /\ FileIs(hp, w, f, d, <<>>, data \o b)

(* fwrite does to a heap one of these three things. *)
LEMMA Written ==
  ASSUME NEW hp, hp \in Heap, NEW f \in Fp, hp.file[f].disk \in Disk, NEW s \in Seq(Byte)
  PROVE  LET w == Fwrite(hp, f, s).hp
         IN  w \in Heap /\ w.obj = hp.obj /\ Fwritten(hp, w, f, s)
<1> DEFINE d == hp.file[f].disk
           b == hp.file[f].buf \o s
<1>1. b \in Seq(Byte) /\ <<>> \in Seq(Byte) /\ Len(b) \in Nat
  BY LenProperties DEF Heap, File
<1>2. hp.disk[d].data \in Seq(Byte) /\ hp.disk[d].data \o b \in Seq(Byte)
  BY <1>1 DEF Heap, Device
<1> DEFINE w == Fwrite(hp, f, s).hp
<1>3. CASE hp.file[f].mode = "rb"
  BY <1>3 DEF Fwrite, Fwritten
<1>4. CASE hp.file[f].mode # "rb" /\ Len(b) <= BufSize
  <2>1. w = [hp EXCEPT !.file[f].buf = b]
    BY <1>4 DEF Fwrite
  <2>2. OnlyFileIs(hp, w, f, d, b, hp.disk[d].data)
    BY <1>1, <1>2, <2>1, Put
  <2>3. QED
    BY <1>4, <2>2 DEF Fwritten, OnlyFileIs
<1>5. CASE hp.file[f].mode # "rb" /\ Len(b) > BufSize /\ hp.disk[d].broken
  <2>1. w = [hp EXCEPT !.file[f].buf = <<>>]
    BY <1>1, <1>5, BufSizeAssumption DEF Fwrite
  <2>2. OnlyFileIs(hp, w, f, d, <<>>, hp.disk[d].data)
    BY <1>1, <1>2, <2>1, Put
  <2>3. QED
    BY <1>5, <2>2 DEF Fwritten, OnlyFileIs
<1>6. CASE hp.file[f].mode # "rb" /\ Len(b) > BufSize /\ ~hp.disk[d].broken
  <2>1. w = [hp EXCEPT !.file[f].buf = <<>>, !.disk[d].data = @ \o b]
    BY <1>1, <1>6, BufSizeAssumption DEF Fwrite
  <2>2. w = [hp EXCEPT !.file[f].buf = <<>>, !.disk[d].data = hp.disk[d].data \o b]
    BY <2>1 DEF Heap
  <2>3. OnlyFileIs(hp, w, f, d, <<>>, hp.disk[d].data \o b)
    BY <1>1, <1>2, <2>2, Put
  <2>4. QED
    BY <1>6, <2>3 DEF Fwritten, OnlyFileIs
<1>7. QED
  BY <1>1, <1>3, <1>4, <1>5, <1>6, BufSizeAssumption

(* What only fopen, fclose and a failing device change. *)
SameFiles(hp, w) ==
  /\ \A g \in Fp : /\ w.file[g].open = hp.file[g].open /\ w.file[g].mode = hp.file[g].mode
                   /\ w.file[g].disk = hp.file[g].disk
  /\ \A d \in Disk : w.disk[d].broken = hp.disk[d].broken

(* A FILE that was good stays good with a buffer that fits. *)
LEMMA FileIsGood ==
  ASSUME NEW hp, GoodHeap(hp), NEW w, NEW f \in Fp, NEW d \in Disk, hp.file[f].open,
         NEW buf, Len(buf) <= BufSize, hp.file[f].mode = "rb" => buf = <<>>, NEW data,
         FileIs(hp, w, f, d, buf, data)
  PROVE  (\A g \in Fp : GoodFile(w.file[g])) /\ SameFiles(hp, w)
<1>1. /\ w.file[f].open /\ w.file[f].disk = hp.file[f].disk
      /\ w.file[f].mode = hp.file[f].mode /\ w.file[f].buf = buf
  BY DEF FileIs, GoodHeap, Heap, File
<1>2. ASSUME NEW g \in Fp PROVE GoodFile(w.file[g])
  <2>1. CASE g = f
    <3>1. hp.file[f].disk \in Disk
      BY DEF GoodHeap, GoodFile
    <3>2. QED
      BY <1>1, <2>1, <3>1 DEF GoodFile
  <2>2. CASE g # f
    BY <2>2 DEF FileIs, GoodHeap
  <2>3. QED
    BY <2>1, <2>2
<1>3. \A g \in Fp : /\ w.file[g].open = hp.file[g].open /\ w.file[g].mode = hp.file[g].mode
                    /\ w.file[g].disk = hp.file[g].disk
  <2>1. ASSUME NEW g \in Fp, g # f PROVE w.file[g] = hp.file[g]
    BY <2>1 DEF FileIs
  <2>2. ASSUME NEW g \in Fp PROVE
          /\ w.file[g].open = hp.file[g].open /\ w.file[g].mode = hp.file[g].mode
          /\ w.file[g].disk = hp.file[g].disk
    <3>1. CASE g = f
      BY <1>1, <3>1
    <3>2. CASE g # f
      BY <2>1, <3>2
    <3>3. QED
      BY <3>1, <3>2
  <2>3. QED
    BY <2>2
<1>4. w.disk[d].broken = hp.disk[d].broken
  BY DEF FileIs, GoodHeap, Heap, Device
<1>5. \A e \in Disk : w.disk[e].broken = hp.disk[e].broken
  BY <1>4 DEF FileIs
<1>6. QED
  BY <1>2, <1>3, <1>5 DEF SameFiles

(* That is about FILEs and devices, not about objects. *)
LEMMA FwrittenSame ==
  ASSUME NEW hp, NEW v, NEW w, w.file = v.file, w.disk = v.disk, NEW f, NEW s,
         Fwritten(hp, v, f, s)
  PROVE  Fwritten(hp, w, f, s)
BY Zenon DEF Fwritten, FileIs

(* After it FILEs are good, and open on the devices they were open on. *)
LEMMA FwrittenGood ==
  ASSUME NEW hp, GoodHeap(hp), NEW w, NEW f \in Fp, hp.file[f].open, NEW s,
         Fwritten(hp, w, f, s)
  PROVE  (\A g \in Fp : GoodFile(w.file[g])) /\ SameFiles(hp, w)
<1> DEFINE d == hp.file[f].disk
           b == hp.file[f].buf \o s
<1>1. d \in Disk /\ Len(<<>>) <= BufSize
  BY BufSizeAssumption DEF GoodHeap, GoodFile
<1>2. CASE hp.file[f].mode = "rb"
  BY <1>2 DEF Fwritten, SameFiles, GoodHeap
<1>3. CASE hp.file[f].mode # "rb"
  <2>1. \E buf, data : Len(buf) <= BufSize /\ FileIs(hp, w, f, d, buf, data)
    BY <1>1, <1>3, Zenon DEF Fwritten
  <2>2. QED
    BY <1>1, <1>3, <2>1, FileIsGood
<1>4. QED
  BY <1>2, <1>3

-----------------------------------------------------------------------------
(* No object is stacked on one that is gone, and none is on a closed FILE. *)
Sound(hp) ==
  /\ GoodHeap(hp)
  /\ \A h \in Live(hp) : Target(hp, h) \in Live(hp) \cup {NULL}
  /\ \A h \in Live(hp) : hp.obj[h].type = "FILE" => hp.file[hp.obj[h].fp].open

(* What only the constructors and XIO_close change. *)
SameObject(o, q) ==
  q.type = o.type /\ q.close = o.close /\ q.target = o.target /\ q.fp = o.fp

(* Bookkeeping spoils no object, and remembers that something was written. *)
LEMMA ChargedGood ==
  ASSUME NEW o \in Object, GoodObject(o), o # Unused, NEW strs \in Seq(Seq(Byte)), NEW rets
  PROVE  /\ Charged(o, strs, rets) \in Object /\ GoodObject(Charged(o, strs, rets))
         /\ Charged(o, strs, rets) # Unused
         /\ SameObject(o, Charged(o, strs, rets))
         /\ o.dirty \/ strs # <<>> => Charged(o, strs, rets).dirty
<1> DEFINE n == Len(strs)
           upTo == IF o.type = "PASS" THEN rets[n] ELSE Len(strs[n])
           counted == IF o.type \in {"PASS", "FILE"} THEN rets
                      ELSE [i \in DOMAIN strs |-> Len(strs[i])]
           wrote == o.wrote \/ \E i \in DOMAIN counted : counted[i] > 0
           last == IF upTo \in 1 .. Len(strs[n]) THEN strs[n][upTo] ELSE Unknown
           touched == [o EXCEPT !.dirty = TRUE]
           charged == [o EXCEPT !.dirty = TRUE, !.wrote = wrote, !.last = last]
           q == Charged(o, strs, rets)
<1>1. \/ n = 0 /\ q = o
      \/ n # 0 /\ (q = touched \/ q = charged)
  BY Zenon DEF Charged
<1>2. n \in Nat /\ \A i \in 1 .. n : strs[i] \in Seq(Byte)
  BY LenProperties, ElementOfSeq
<1>3. wrote \in BOOLEAN
  OBVIOUS
<1>4. n # 0 => last \in Byte \cup {Unknown}
  <2>1. ASSUME n # 0, upTo \in 1 .. Len(strs[n]) PROVE strs[n][upTo] \in Byte
    <3>1. strs[n] \in Seq(Byte)
      BY <1>2, <2>1
    <3> HIDE DEF upTo
    <3>2. QED
      BY <2>1, <3>1, ElementOfSeq
  <2>2. QED
    BY <2>1
<1>5. n = 0 <=> strs = <<>>
  BY EmptySeq
<1> HIDE DEF wrote, last, upTo, counted, n, q
<1>6. o.type # "unused"
  BY DEF GoodObject
<1>7. CASE q = o /\ n = 0
  BY <1>5, <1>7 DEF SameObject, q
<1> DEFINE Same(p) == /\ p.type = o.type /\ p.close = o.close /\ p.target = o.target
                      /\ p.fp = o.fp /\ p.readn = o.readn /\ p.data = o.data /\ p.dirty
<1>8. touched \in Object /\ Same(touched)
  BY DEF Object
<1>9. n # 0 => charged \in Object /\ Same(charged)
  BY <1>3, <1>4 DEF Object
<1> HIDE DEF touched, charged
<1>10. ASSUME NEW p \in Object, Same(p), q = p PROVE
         q \in Object /\ GoodObject(q) /\ q # Unused /\ SameObject(o, q) /\ q.dirty
  <2>1. GoodObject(p) /\ SameObject(o, p)
    BY <1>6, <1>10 DEF GoodObject, SameObject
  <2>2. p # Unused
    BY <1>6, <1>10 DEF Unused
  <2>3. QED
    BY <1>10, <2>1, <2>2
<1>11. CASE n # 0 /\ (q = touched \/ q = charged)
  BY <1>8, <1>9, <1>10, <1>11 DEF q
<1>12. QED
  BY <1>1, <1>7, <1>11

(* A place for an object that is free has no target. *)
LEMMA UnusedType == Unused.type = "unused" /\ Unused.target = NULL
BY DEF Unused

(* Objects in which only other things have changed are alive, and sound, as before. *)
LEMMA SameSound ==
  ASSUME NEW hp, Sound(hp), NEW w, w \in Heap,
         \A k \in Handle : SameObject(hp.obj[k], w.obj[k]) /\ GoodObject(w.obj[k]),
         SameFiles(hp, w), \A g \in Fp : GoodFile(w.file[g])
  PROVE  Sound(w) /\ Live(w) = Live(hp)
<1>1. GoodHeap(w)
  <2>1. Chained(w)
    BY SameTargets DEF Sound, GoodHeap, Target, SameObject
  <2>2. QED
    BY <2>1 DEF GoodHeap
<1>2. ASSUME NEW k \in Handle PROVE w.obj[k] = Unused <=> hp.obj[k] = Unused
  <2>1. w.obj[k].type = hp.obj[k].type
    BY DEF SameObject
  <2>2. hp.obj[k] = Unused <=> hp.obj[k].type = "unused"
    BY UnusedType DEF Sound, GoodHeap, GoodObject
  <2>3. w.obj[k] = Unused <=> w.obj[k].type = "unused"
    BY UnusedType DEF GoodObject
  <2>4. QED
    BY <2>1, <2>2, <2>3
<1>3. Live(w) = Live(hp)
  BY <1>2 DEF Live
<1>4. ASSUME NEW k \in Live(w) PROVE
        /\ Target(w, k) \in Live(w) \cup {NULL}
        /\ w.obj[k].type = "FILE" => w.file[w.obj[k].fp].open
  <2>1. k \in Live(hp) /\ k \in Handle /\ SameObject(hp.obj[k], w.obj[k])
    BY <1>3 DEF Live
  <2>2. Target(w, k) = Target(hp, k)
    BY <2>1 DEF SameObject, Target
  <2>3. w.obj[k].type = "FILE" => w.obj[k].fp \in Fp
    BY <2>1 DEF GoodObject
  <2>4. w.obj[k].fp = hp.obj[k].fp /\ w.obj[k].type = hp.obj[k].type
    BY <2>1 DEF SameObject
  <2>5. QED
    BY <1>3, <2>1, <2>2, <2>3, <2>4 DEF Sound, SameFiles
<1>5. QED
  BY <1>1, <1>3, <1>4 DEF Sound

(* What reaches the source is written to its FILE, kept in its memory, or lost. *)
LEMMA SourceWrites ==
  ASSUME NEW hp, Sound(hp), NEW e \in Live(hp), NEW strs \in Seq(Seq(Byte)),
         NEW w, w = SourceWrite(hp, e, strs).hp
  PROVE  /\ w \in Heap
         /\ \A k \in Handle : /\ SameObject(hp.obj[k], w.obj[k]) /\ GoodObject(w.obj[k])
                              /\ w.obj[k].dirty = hp.obj[k].dirty
         /\ IF hp.obj[e].type = "FILE" THEN Fwritten(hp, w, hp.obj[e].fp, FlattenSeq(strs))
            ELSE w.file = hp.file /\ w.disk = hp.disk
<1> DEFINE x == FlattenSeq(strs)
<1>1. x \in Seq(Byte)
  BY FlattenType
<1>2. e \in Handle /\ hp \in Heap /\ \A k \in Handle : GoodObject(hp.obj[k])
  BY DEF Live, Sound, GoodHeap
<1>3. CASE hp.obj[e].type = "FILE"
  <2> DEFINE f == hp.obj[e].fp
  <2>1. w = Fwrite(hp, f, x).hp
    BY <1>3 DEF SourceWrite, FileWrite, Taken, Refused
  <2>2. f \in Fp /\ hp.file[f].disk \in Disk
    BY <1>2, <1>3 DEF Sound, GoodHeap, GoodObject, GoodFile
  <2> HIDE DEF x, f
  <2>3. LET v == Fwrite(hp, f, x).hp
        IN  v \in Heap /\ v.obj = hp.obj /\ Fwritten(hp, v, f, x)
    BY <1>1, <1>2, <2>2, Written, Zenon
  <2>4. QED
    BY <1>2, <1>3, <2>1, <2>3 DEF SameObject, x, f
<1>4. CASE hp.obj[e].type = "MBUILDER"
  <2> DEFINE data == hp.obj[e].data \o x
             o == [hp.obj[e] EXCEPT !.data = data]
             obj == [hp.obj EXCEPT ![e] = o]
  <2>1. w = [hp EXCEPT !.obj[e].data = @ \o x]
    BY <1>4 DEF SourceWrite, MBuilderWrite, Taken
  <2>2. hp.obj \in [Handle -> Object] /\ hp = [obj |-> hp.obj, file |-> hp.file, disk |-> hp.disk]
    BY <1>2 DEF Heap
  <2>3. hp.obj[e] \in Object
    BY <1>2, <2>2
  <2>4. data \in Seq(Byte)
    BY <1>1, <2>3, ConcatProperties DEF Object
  <2>5. Len(data) \in Nat /\ Len(data) >= Len(hp.obj[e].data)
    <3>1. hp.obj[e].data \in Seq(Byte)
      BY <2>3 DEF Object
    <3> HIDE DEF x
    <3>2. Len(data) = Len(hp.obj[e].data) + Len(x) /\ Len(x) \in Nat /\ Len(hp.obj[e].data) \in Nat
      BY <1>1, <3>1, ConcatProperties, LenProperties
    <3>3. QED
      BY <3>2
  <2>6. w = [hp EXCEPT !.obj = obj]
    BY <2>1, <2>2
  <2> HIDE DEF data, x
  <2>7. /\ o \in Object /\ SameObject(hp.obj[e], o) /\ o.dirty = hp.obj[e].dirty
        /\ o.readn = hp.obj[e].readn /\ o.data = data
    BY <2>3, <2>4 DEF Object, SameObject
  <2> HIDE DEF o
  <2>8. GoodObject(o)
    <3>1. hp.obj[e].readn <= Len(data)
      BY <1>2, <2>3, <2>5 DEF GoodObject, Object
    <3>2. QED
      BY <1>2, <1>4, <2>7, <3>1 DEF GoodObject, SameObject
  <2>9. /\ obj \in [Handle -> Object] /\ obj[e] = o
        /\ \A k \in Handle \ {e} : obj[k] = hp.obj[k]
    BY <1>2, <2>2, <2>7
  <2> HIDE DEF obj
  <2>10. w = [obj |-> obj, file |-> hp.file, disk |-> hp.disk]
    BY <2>2, <2>6
  <2>11. w \in Heap /\ w.obj = obj /\ w.file = hp.file /\ w.disk = hp.disk
    BY <1>2, <2>9, <2>10 DEF Heap
  <2>12. QED
    BY <1>2, <1>4, <2>7, <2>8, <2>9, <2>11 DEF SameObject
<1>5. CASE hp.obj[e].type \notin {"FILE", "MBUILDER"}
  <2>1. w = hp
    BY <1>5, Zenon DEF SourceWrite, MemoryWrite, NullWrite, Taken, Refused
  <2>2. QED
    BY <1>2, <1>5, <2>1 DEF SameObject
<1>6. QED
  BY <1>3, <1>4, <1>5

(* XIO_write changes no object but for its counters, its flag and what an MBUILDER *)
(* holds; what it wrote is at the end of the chain, on the FILE, and a FILE that    *)
(* may have got something remembers to flush it.                                   *)
LEMMA Writes ==
  ASSUME NEW hp, Sound(hp), NEW h \in Live(hp), NEW s \in Seq(Byte),
         NEW w, w = XIO_write(hp, h, s).hp, NEW e, e = Last(Chain(hp, h)),
         NEW x, x = FlattenSeq(Last(Handed(hp, Chain(hp, h), s)))
  PROVE  /\ Sound(w) /\ Live(w) = Live(hp) /\ SameFiles(hp, w)
         /\ \A k \in Handle : /\ SameObject(hp.obj[k], w.obj[k])
                              /\ hp.obj[k].dirty => w.obj[k].dirty
         /\ e \in Live(hp) /\ x \in Seq(Byte) /\ Target(hp, e) = NULL
         /\ IF hp.obj[e].type = "FILE"
            THEN Fwritten(hp, w, hp.obj[e].fp, x) /\ (x # <<>> => w.obj[e].dirty)
            ELSE w.file = hp.file /\ w.disk = hp.disk
<1> DEFINE c == Chain(hp, h)
           n == Len(c)
           strs == Handed(hp, c, s)
           end == SourceWrite(hp, c[n], strs[n])
           v == end.hp
           type(i) == hp.obj[c[i]].type
           Ret(g) == [i \in 1 .. n |-> IF i < n THEN FilterRets(type(i), strs[i], g[i + 1])
                                       ELSE FilterRets(type(n), strs[n], end.rets)]
           rets == CHOOSE g : g = Ret(g)
           level(k) == CHOOSE i \in 1 .. n : c[i] = k
           new(k) == IF k \in Range(c) THEN Charged(v.obj[k], strs[level(k)], rets[level(k)])
                     ELSE v.obj[k]
           obj == [k \in Handle |-> new(k)]
<1>1. /\ h \in Handle /\ h # NULL /\ hp \in Heap /\ Chained(hp)
      /\ Live(hp) \subseteq Handle /\ \A k \in Live(hp) : Target(hp, k) \in Live(hp) \cup {NULL}
  BY NullAssumption DEF Live, Sound, GoodHeap
<1>2. /\ c \in Seq(Handle) /\ n > 0 /\ c[1] = h
      /\ \A i \in 1 .. n - 1 : c[i + 1] = Target(hp, c[i])
      /\ Target(hp, c[n]) = NULL
  BY <1>1, ChainLinks
<1>3. \A i \in 1 .. n : c[i] \in Live(hp)
  BY <1>1, ChainIn
<1>4. n \in Nat /\ DOMAIN c = 1 .. n /\ e = c[n] /\ Range(c) = {c[i] : i \in 1 .. n}
  BY <1>2, LenProperties DEF Last, Range
<1>5. w = [v EXCEPT !.obj = [k \in Handle |->
             IF k \in Range(c) THEN Charged(@[k], strs[level(k)], rets[level(k)]) ELSE @[k]]]
  BY <1>1, Zenon DEF XIO_write
<1> HIDE DEF c, rets
<1>6. strs \in [1 .. n -> Seq(Seq(Byte))]
  BY <1>4, HandedBytes
<1> HIDE DEF strs
<1>7. x = FlattenSeq(strs[n]) /\ x \in Seq(Byte)
  <2>1. Last(strs) = strs[n]
    BY <1>4, <1>6 DEF Last
  <2>2. x = FlattenSeq(strs[n])
    BY <2>1 DEF strs, c
  <2>3. strs[n] \in Seq(Seq(Byte))
    BY <1>2, <1>4, <1>6
  <2>4. QED
    BY <2>2, <2>3, FlattenType
<1>8. /\ v \in Heap
      /\ \A k \in Handle : /\ SameObject(hp.obj[k], v.obj[k]) /\ GoodObject(v.obj[k])
                           /\ v.obj[k].dirty = hp.obj[k].dirty
      /\ IF hp.obj[e].type = "FILE" THEN Fwritten(hp, v, hp.obj[e].fp, x)
         ELSE v.file = hp.file /\ v.disk = hp.disk
  <2>1. e \in Live(hp) /\ strs[n] \in Seq(Seq(Byte))
    BY <1>2, <1>3, <1>4, <1>6
  <2> HIDE DEF v
  <2>2. v = SourceWrite(hp, e, strs[n]).hp
    BY <1>4 DEF v
  <2>3. QED
    BY <1>7, <2>1, <2>2, SourceWrites
<1> HIDE DEF n, v, level
<1>9. \A k \in Range(c) : level(k) \in 1 .. n /\ c[level(k)] = k
  BY <1>4 DEF level
<1>10. ASSUME NEW k \in Handle
       PROVE  /\ new(k) \in Object /\ GoodObject(new(k)) /\ SameObject(hp.obj[k], new(k))
              /\ hp.obj[k].dirty => new(k).dirty
              /\ k \in Range(c) /\ strs[level(k)] # <<>> => new(k).dirty
  <2>1. v.obj[k] \in Object
    BY <1>8 DEF Heap
  <2>2. CASE k \notin Range(c)
    BY <1>8, <2>1, <2>2
  <2>3. CASE k \in Range(c)
    <3>1. k \in Live(hp)
      BY <1>3, <1>9, <2>3
    <3>2. v.obj[k] # Unused
      <4>1. hp.obj[k].type # "unused"
        BY <3>1 DEF Sound, GoodHeap, GoodObject, Live
      <4>2. v.obj[k].type = hp.obj[k].type
        BY <1>8 DEF SameObject
      <4>3. QED
        BY <4>1, <4>2, UnusedType
    <3>3. strs[level(k)] \in Seq(Seq(Byte))
      BY <1>6, <1>9, <2>3
    <3> DEFINE o == v.obj[k]
               l == strs[level(k)]
               r == rets[level(k)]
    <3>4. GoodObject(o) /\ SameObject(hp.obj[k], o) /\ o.dirty = hp.obj[k].dirty
      BY <1>8
    <3>5. new(k) = Charged(o, l, r)
      BY <2>3
    <3> HIDE DEF o, l, r
    <3>6. /\ Charged(o, l, r) \in Object /\ GoodObject(Charged(o, l, r))
          /\ SameObject(o, Charged(o, l, r))
          /\ o.dirty \/ l # <<>> => Charged(o, l, r).dirty
      BY <2>1, <3>2, <3>3, <3>4, ChargedGood DEF o, l
    <3> HIDE DEF new
    <3>7. QED
      BY <3>4, <3>5, <3>6 DEF SameObject, l
  <2>4. QED
    BY <2>2, <2>3
<1> HIDE DEF new
<1>11. obj \in [Handle -> Object] /\ \A k \in Handle : obj[k] = new(k)
  BY <1>10
<1>12. w = [obj |-> obj, file |-> v.file, disk |-> v.disk]
  <2>1. w = [v EXCEPT !.obj = obj]
    BY <1>5 DEF new
  <2> HIDE DEF obj
  <2>2. QED
    BY <1>8, <2>1 DEF Heap
<1> HIDE DEF obj
<1>13. w \in Heap /\ w.obj = obj /\ w.file = v.file /\ w.disk = v.disk
  BY <1>8, <1>11, <1>12 DEF Heap
<1>14. \A k \in Handle : /\ SameObject(hp.obj[k], w.obj[k]) /\ GoodObject(w.obj[k])
                         /\ hp.obj[k].dirty => w.obj[k].dirty
                         /\ k \in Range(c) /\ strs[level(k)] # <<>> => w.obj[k].dirty
  BY <1>10, <1>11, <1>13
<1>15. IF hp.obj[e].type = "FILE" THEN Fwritten(hp, w, hp.obj[e].fp, x)
       ELSE w.file = hp.file /\ w.disk = hp.disk
  BY <1>8, <1>13, FwrittenSame
<1>16. (\A g \in Fp : GoodFile(w.file[g])) /\ SameFiles(hp, w)
  <2>1. e \in Live(hp)
    BY <1>2, <1>3, <1>4
  <2>2. CASE hp.obj[e].type = "FILE"
    <3>1. hp.obj[e].fp \in Fp /\ hp.file[hp.obj[e].fp].open /\ GoodHeap(hp)
      BY <2>1, <2>2 DEF Sound, GoodHeap, GoodObject, Live
    <3>2. QED
      BY <1>15, <2>2, <3>1, FwrittenGood
  <2>3. CASE hp.obj[e].type # "FILE"
    BY <1>15, <2>3 DEF Sound, GoodHeap, SameFiles
  <2>4. QED
    BY <2>2, <2>3
<1>17. Sound(w) /\ Live(w) = Live(hp)
  BY <1>13, <1>14, <1>16, SameSound
<1>18. ASSUME x # <<>> PROVE w.obj[e].dirty
  <2>1. e \in Range(c) /\ e \in Handle
    BY <1>1, <1>2, <1>3, <1>4
  <2>2. level(e) = n
    <3>1. level(e) \in 1 .. n /\ c[level(e)] = e /\ Target(hp, e) = NULL
      BY <1>2, <1>4, <1>9, <2>1
    <3>2. \A i \in 1 .. n - 1 : Target(hp, c[i]) # NULL
      <4>1. \A i \in 1 .. n - 1 : c[i + 1] \in Handle
        BY <1>1, <1>3, <1>4
      <4>2. QED
        BY <1>2, <4>1, NullAssumption
    <3>3. QED
      BY <1>4, <3>1, <3>2
  <2>3. strs[n] # <<>>
    BY <1>7, <1>18, FlattenEmpty
  <2>4. QED
    BY <1>14, <2>1, <2>2, <2>3
<1>19. QED
  <2>1. e \in Live(hp) /\ Target(hp, e) = NULL
    BY <1>2, <1>3, <1>4
  <2>2. QED
    BY <1>7, <1>14, <1>15, <1>16, <1>17, <1>18, <2>1

-----------------------------------------------------------------------------
(* One object, one FILE or one device of a heap replaced by another. *)
WithFile(hp, f, p) == [hp EXCEPT !.file[f] = p]
WithDisk(hp, d, p) == [hp EXCEPT !.disk[d] = p]

(* Another object at h... *)
LEMMA ObjectPut ==
  ASSUME NEW hp, hp \in Heap, NEW h \in Handle, NEW o \in Object,
         NEW w, w = Alloc(hp, h, o)
  PROVE  /\ w \in Heap /\ w.obj[h] = o /\ \A k \in Handle \ {h} : w.obj[k] = hp.obj[k]
         /\ w.file = hp.file /\ w.disk = hp.disk
<1> DEFINE obj == [hp.obj EXCEPT ![h] = o]
<1>1. /\ hp.obj \in [Handle -> Object] /\ hp.file \in [Fp -> File] /\ hp.disk \in [Disk -> Device]
      /\ hp = [obj |-> hp.obj, file |-> hp.file, disk |-> hp.disk]
  BY DEF Heap
<1>2. w = [hp EXCEPT !.obj = obj]
  BY <1>1 DEF Alloc
<1>3. /\ obj \in [Handle -> Object] /\ obj[h] = o
      /\ \A k \in Handle \ {h} : obj[k] = hp.obj[k]
  BY <1>1
<1> HIDE DEF obj
<1>4. w = [obj |-> obj, file |-> hp.file, disk |-> hp.disk]
  BY <1>1, <1>2
<1>5. w \in Heap /\ w.obj = obj /\ w.file = hp.file /\ w.disk = hp.disk
  BY <1>1, <1>3, <1>4 DEF Heap
<1>6. QED
  BY <1>3, <1>5

(* ...another FILE at f... *)
LEMMA FilePut ==
  ASSUME NEW hp, hp \in Heap, NEW f \in Fp, NEW p \in File,
         NEW w, w = WithFile(hp, f, p)
  PROVE  /\ w \in Heap /\ w.file[f] = p /\ \A g \in Fp \ {f} : w.file[g] = hp.file[g]
         /\ w.obj = hp.obj /\ w.disk = hp.disk
<1> DEFINE file == [hp.file EXCEPT ![f] = p]
<1>1. /\ hp.obj \in [Handle -> Object] /\ hp.file \in [Fp -> File] /\ hp.disk \in [Disk -> Device]
      /\ hp = [obj |-> hp.obj, file |-> hp.file, disk |-> hp.disk]
  BY DEF Heap
<1>2. w = [hp EXCEPT !.file = file]
  BY <1>1 DEF WithFile
<1>3. /\ file \in [Fp -> File] /\ file[f] = p
      /\ \A g \in Fp \ {f} : file[g] = hp.file[g]
  BY <1>1
<1> HIDE DEF file
<1>4. w = [obj |-> hp.obj, file |-> file, disk |-> hp.disk]
  BY <1>1, <1>2
<1>5. w \in Heap /\ w.obj = hp.obj /\ w.file = file /\ w.disk = hp.disk
  BY <1>1, <1>3, <1>4 DEF Heap
<1>6. QED
  BY <1>3, <1>5

(* ...another device at d. *)
LEMMA DiskPut ==
  ASSUME NEW hp, hp \in Heap, NEW d \in Disk, NEW p \in Device,
         NEW w, w = WithDisk(hp, d, p)
  PROVE  /\ w \in Heap /\ w.disk[d] = p /\ \A g \in Disk \ {d} : w.disk[g] = hp.disk[g]
         /\ w.obj = hp.obj /\ w.file = hp.file
<1> DEFINE disk == [hp.disk EXCEPT ![d] = p]
<1>1. /\ hp.obj \in [Handle -> Object] /\ hp.file \in [Fp -> File] /\ hp.disk \in [Disk -> Device]
      /\ hp = [obj |-> hp.obj, file |-> hp.file, disk |-> hp.disk]
  BY DEF Heap
<1>2. w = [hp EXCEPT !.disk = disk]
  BY <1>1 DEF WithDisk
<1>3. /\ disk \in [Disk -> Device] /\ disk[d] = p
      /\ \A g \in Disk \ {d} : disk[g] = hp.disk[g]
  BY <1>1
<1> HIDE DEF disk
<1>4. w = [obj |-> hp.obj, file |-> hp.file, disk |-> disk]
  BY <1>1, <1>2
<1>5. w \in Heap /\ w.obj = hp.obj /\ w.file = hp.file /\ w.disk = disk
  BY <1>1, <1>3, <1>4 DEF Heap
<1>6. QED
  BY <1>3, <1>5

(* XIO_read moves a position, of the FILE or in the memory, and nothing else. *)
LEMMA Reads ==
  ASSUME NEW hp, Sound(hp), NEW h \in Live(hp), NEW n \in Nat, NEW w, w = XIO_read(hp, h, n).hp
  PROVE  /\ Sound(w) /\ Live(w) = Live(hp) /\ SameFiles(hp, w) /\ w.disk = hp.disk
         /\ \A f \in Fp : w.file[f].buf = hp.file[f].buf
         /\ \A k \in Handle : /\ SameObject(hp.obj[k], w.obj[k])
                              /\ w.obj[k].dirty = hp.obj[k].dirty
<1> DEFINE c == Chain(hp, h)
           e == Last(c)
           o == hp.obj[e]
           f == o.fp
<1>1. /\ h \in Handle /\ h # NULL /\ hp \in Heap /\ Chained(hp)
      /\ Live(hp) \subseteq Handle /\ \A k \in Live(hp) : Target(hp, k) \in Live(hp) \cup {NULL}
  BY NullAssumption DEF Live, Sound, GoodHeap
<1>2. e \in Live(hp)
  <2>1. c \in Seq(Handle) /\ Len(c) > 0 /\ \A i \in 1 .. Len(c) : c[i] \in Live(hp)
    BY <1>1, ChainLinks, ChainIn
  <2>2. QED
    BY <2>1, LenProperties DEF Last
<1>3. \/ w = hp
      \/ o.type = "FILE" /\ w = Fread(hp, f, n).hp
      \/ o.type = "MEMORY" /\ w = [hp EXCEPT !.obj[e].readn = Moved(o, n)]
  BY <1>1, Zenon DEF XIO_read
<1> HIDE DEF e
<1>4. \A k \in Handle : GoodObject(hp.obj[k]) /\ hp.obj[k] \in Object /\ SameObject(hp.obj[k], hp.obj[k])
  BY DEF Sound, GoodHeap, Heap, SameObject
<1>5. \A g \in Fp : GoodFile(hp.file[g]) /\ hp.file[g] \in File
  BY DEF Sound, GoodHeap, Heap
<1>6. CASE w = hp
  BY <1>4, <1>6 DEF SameFiles
<1>7. CASE o.type = "FILE" /\ w = Fread(hp, f, n).hp
  <2>1. f \in Fp /\ hp.file[f].open /\ hp.file[f].disk \in Disk
    BY <1>1, <1>2, <1>4, <1>5, <1>7 DEF Sound, GoodObject, GoodFile
  <2>2. hp.disk[hp.file[f].disk].data \in Seq(Byte) /\ hp.file[f].pos \in Nat
    BY <1>1, <2>1 DEF Heap, Device, File
  <2>3. Len(hp.disk[hp.file[f].disk].data) \in Nat
    BY <2>2, LenProperties
  <2> HIDE DEF f
  <2>4. PICK r \in Nat : w = [hp EXCEPT !.file[f].pos = hp.file[f].pos + r]
    <3> DEFINE all == Len(hp.disk[hp.file[f].disk].data)
               pos == hp.file[f].pos
               rest == all - pos
               got == IF rest <= 0 \/ hp.file[f].mode # "rb" THEN 0
                      ELSE IF n < rest THEN n ELSE rest
    <3>1. w = [hp EXCEPT !.file[f].pos = hp.file[f].pos + got]
      BY <1>7, Zenon DEF Fread
    <3>2. all \in Nat /\ pos \in Nat
      BY <2>2, <2>3
    <3> HIDE DEF all, pos
    <3>3. rest \in Int
      BY <3>2
    <3> HIDE DEF rest
    <3>4. got \in Nat
      BY <3>3
    <3> HIDE DEF got
    <3>5. QED
      BY <3>1, <3>4, Zenon
  <2> DEFINE pos == hp.file[f].pos + r
  <2>12. pos \in Nat
    BY <2>2
  <2> HIDE DEF pos
  <2> DEFINE p == [hp.file[f] EXCEPT !.pos = pos]
  <2>5. /\ p \in File /\ p.open = hp.file[f].open /\ p.mode = hp.file[f].mode
        /\ p.disk = hp.file[f].disk /\ p.buf = hp.file[f].buf
    BY <1>5, <2>1, <2>12 DEF File
  <2>6. w = WithFile(hp, f, p)
    BY <2>4, Zenon DEF pos, WithFile
  <2> HIDE DEF p
  <2>7. GoodFile(p)
    BY <1>5, <2>1, <2>5 DEF GoodFile
  <2>8. /\ w \in Heap /\ w.file[f] = p /\ \A g \in Fp \ {f} : w.file[g] = hp.file[g]
        /\ w.obj = hp.obj /\ w.disk = hp.disk
    BY <1>1, <2>1, <2>5, <2>6, FilePut
  <2>9. \A g \in Fp : /\ GoodFile(w.file[g]) /\ w.file[g].buf = hp.file[g].buf
                      /\ w.file[g].open = hp.file[g].open /\ w.file[g].mode = hp.file[g].mode
                      /\ w.file[g].disk = hp.file[g].disk
    BY <1>5, <2>5, <2>7, <2>8
  <2>10. SameFiles(hp, w)
    BY <2>8, <2>9 DEF SameFiles
  <2>11. QED
    BY <1>4, <2>8, <2>9, <2>10, SameSound
<1>8. CASE o.type = "MEMORY" /\ w = [hp EXCEPT !.obj[e].readn = Moved(o, n)]
  <2> DEFINE q == [o EXCEPT !.readn = Moved(o, n)]
  <2>1. e \in Handle /\ o \in Object /\ GoodObject(o)
    BY <1>1, <1>2, <1>4
  <2> HIDE DEF o
  <2>2. Moved(o, n) \in Nat /\ Moved(o, n) <= Len(o.data)
    <3>1. o.readn \in Nat /\ o.readn <= Len(o.data) /\ o.data \in Seq(Byte)
      BY <2>1 DEF GoodObject, Object
    <3>2. Len(o.data) \in Nat
      BY <3>1, LenProperties
    <3>3. QED
      BY <3>1, <3>2 DEF Moved, Served
  <2>3. /\ q \in Object /\ q.type = o.type /\ q.close = o.close /\ q.target = o.target
        /\ q.fp = o.fp /\ q.dirty = o.dirty /\ q.readn = Moved(o, n) /\ q.data = o.data
    BY <2>1, <2>2 DEF Object
  <2>4. w = Alloc(hp, e, q)
    BY <1>8 DEF o, Alloc
  <2> HIDE DEF q
  <2>5. GoodObject(q) /\ SameObject(o, q)
    BY <1>8, <2>1, <2>2, <2>3 DEF GoodObject, SameObject
  <2>6. /\ w \in Heap /\ w.obj[e] = q /\ \A k \in Handle \ {e} : w.obj[k] = hp.obj[k]
        /\ w.file = hp.file /\ w.disk = hp.disk
    <3>1. hp \in Heap /\ e \in Handle /\ q \in Object
      BY <1>1, <2>1, <2>3
    <3>2. QED
      BY <2>4, <3>1, ObjectPut
  <2>7. \A k \in Handle : /\ SameObject(hp.obj[k], w.obj[k]) /\ GoodObject(w.obj[k])
                          /\ w.obj[k].dirty = hp.obj[k].dirty
    BY <1>4, <2>3, <2>5, <2>6 DEF o
  <2>8. SameFiles(hp, w)
    BY <2>6 DEF SameFiles
  <2>9. QED
    BY <1>5, <2>6, <2>7, <2>8, SameSound
<1>9. QED
  BY <1>3, <1>6, <1>7, <1>8

(* What is written out when the buffer of f is. *)
AfterFlush(hp, f) ==
  LET d == hp.file[f].disk
  IN  IF hp.disk[d].broken THEN hp.disk[d].data ELSE hp.disk[d].data \o hp.file[f].buf

(* XIO_flush gives the buffer of a FILE to its device, if the object says it must. *)
LEMMA Flushes ==
  ASSUME NEW hp, Sound(hp), NEW h \in Live(hp), NEW w, w = XIO_flush(hp, h)
  PROVE  /\ Sound(w) /\ Live(w) = Live(hp) /\ SameFiles(hp, w)
         /\ \A k \in Handle : /\ SameObject(hp.obj[k], w.obj[k])
                              /\ k # h => w.obj[k] = hp.obj[k]
         /\ IF hp.obj[h].dirty /\ hp.obj[h].type = "FILE"
            THEN FileIs(hp, w, hp.obj[h].fp, hp.file[hp.obj[h].fp].disk, <<>>, AfterFlush(hp, hp.obj[h].fp))
            ELSE w.file = hp.file /\ w.disk = hp.disk
<1> DEFINE o == hp.obj[h]
           f == o.fp
           q == [o EXCEPT !.dirty = FALSE]
           d == hp.file[f].disk
<1>1. /\ h \in Handle /\ h # NULL /\ hp \in Heap /\ o \in Object /\ GoodObject(o)
      /\ hp.obj \in [Handle -> Object]
  BY NullAssumption DEF Live, Sound, GoodHeap, Heap
<1>2. \A k \in Handle : GoodObject(hp.obj[k]) /\ SameObject(hp.obj[k], hp.obj[k])
  BY DEF Sound, GoodHeap, SameObject
<1>3. \A g \in Fp : GoodFile(hp.file[g])
  BY DEF Sound, GoodHeap
<1>4. /\ q \in Object /\ q.type = o.type /\ q.close = o.close /\ q.target = o.target
      /\ q.fp = o.fp /\ q.readn = o.readn /\ q.data = o.data
  BY <1>1 DEF Object
<1>5. o.type # "unused"
  BY <1>1 DEF Live, GoodObject
<1>6. GoodObject(q) /\ SameObject(o, q)
  BY <1>1, <1>4, <1>5 DEF GoodObject, SameObject
<1>7. CASE ~o.dirty
  <2>1. w = hp
    BY <1>1, <1>7 DEF XIO_flush
  <2>2. QED
    BY <1>2, <1>7, <2>1 DEF SameFiles
<1>8. ASSUME NEW v, v \in Heap, v.obj = hp.obj, w = [v EXCEPT !.obj[h].dirty = FALSE]
      PROVE  /\ w \in Heap /\ w.file = v.file /\ w.disk = v.disk
             /\ \A k \in Handle : /\ SameObject(hp.obj[k], w.obj[k]) /\ GoodObject(w.obj[k])
                                  /\ k # h => w.obj[k] = hp.obj[k]
  <2> HIDE DEF o
  <2>1. v.obj[h] = o
    BY <1>8 DEF o
  <2>2. w = Alloc(v, h, q)
    BY <1>8, <2>1 DEF Alloc
  <2> HIDE DEF q
  <2>3. /\ w \in Heap /\ w.obj[h] = q /\ \A k \in Handle \ {h} : w.obj[k] = v.obj[k]
        /\ w.file = v.file /\ w.disk = v.disk
    <3>1. h \in Handle /\ q \in Object /\ v \in Heap
      BY <1>1, <1>4, <1>8
    <3>2. QED
      BY <2>2, <3>1, ObjectPut
  <2>4. QED
    BY <1>2, <1>6, <1>8, <2>3 DEF o
<1>9. CASE o.dirty /\ o.type # "FILE"
  <2>1. w = [hp EXCEPT !.obj[h].dirty = FALSE]
    BY <1>1, <1>9 DEF XIO_flush
  <2>2. /\ w \in Heap /\ w.file = hp.file /\ w.disk = hp.disk
        /\ \A k \in Handle : /\ SameObject(hp.obj[k], w.obj[k]) /\ GoodObject(w.obj[k])
                             /\ k # h => w.obj[k] = hp.obj[k]
    BY <1>1, <1>8, <2>1
  <2>3. SameFiles(hp, w)
    BY <2>2 DEF SameFiles
  <2>4. QED
    BY <1>3, <1>9, <2>2, <2>3, SameSound
<1>10. CASE o.dirty /\ o.type = "FILE"
  <2> DEFINE v == Fflush(hp, f)
  <2>1. w = [v EXCEPT !.obj[h].dirty = FALSE]
    BY <1>1, <1>10 DEF XIO_flush
  <2>2. f \in Fp /\ hp.file[f].open /\ d \in Disk
    BY <1>1, <1>3, <1>10 DEF Sound, GoodObject, GoodFile
  <2>3. v \in Heap /\ v.obj = hp.obj /\ FileIs(hp, v, f, d, <<>>, AfterFlush(hp, f))
    <3> HIDE DEF f, d
    <3>1. OnlyFileIs(hp, v, f, d, <<>>, AfterFlush(hp, f))
      BY <1>1, <2>2, Flushed DEF AfterFlush, d
    <3>2. QED
      BY <3>1 DEF OnlyFileIs
  <2> HIDE DEF v
  <2>4. /\ w \in Heap /\ w.file = v.file /\ w.disk = v.disk
        /\ \A k \in Handle : /\ SameObject(hp.obj[k], w.obj[k]) /\ GoodObject(w.obj[k])
                             /\ k # h => w.obj[k] = hp.obj[k]
    BY <1>8, <2>1, <2>3
  <2>5. FileIs(hp, w, f, d, <<>>, AfterFlush(hp, f))
    BY <2>3, <2>4, Zenon DEF FileIs
  <2>6. (\A g \in Fp : GoodFile(w.file[g])) /\ SameFiles(hp, w)
    <3>1. GoodHeap(hp) /\ Len(<<>>) <= BufSize
      BY BufSizeAssumption DEF Sound
    <3> HIDE DEF f, d
    <3>2. QED
      BY <2>2, <2>5, <3>1, FileIsGood
  <2>7. QED
    BY <1>10, <2>4, <2>5, <2>6, SameSound
<1>11. QED
  BY <1>7, <1>9, <1>10

(* The objects that go with h: h, and what is below a closing one that goes. *)
LEMMA Gone ==
  ASSUME NEW hp, Sound(hp), NEW h \in Live(hp), NEW gone, gone = ClosedWith(hp, h),
         NEW e, e = XIO_get_source(hp, h)
  PROVE  /\ h \in gone /\ gone \subseteq Live(hp) /\ e \in Live(hp)
         /\ \A z \in gone : hp.obj[z].close => Target(hp, z) \in gone \cup {NULL}
         /\ \A k \in gone : k = h \/ \E z \in gone : hp.obj[z].close /\ Target(hp, z) = k
         /\ \A k \in gone : Target(hp, k) = NULL => k = e
<1> DEFINE c == Chain(hp, h)
           n == Len(c)
           With(i) == \A j \in 1 .. i - 1 : hp.obj[c[j]].close
<1>1. /\ h \in Handle /\ hp \in Heap /\ Chained(hp)
      /\ Live(hp) \subseteq Handle /\ \A k \in Live(hp) : Target(hp, k) \in Live(hp) \cup {NULL}
  BY DEF Live, Sound, GoodHeap
<1>2. /\ c \in Seq(Handle) /\ n > 0 /\ c[1] = h
      /\ \A i \in 1 .. n - 1 : c[i + 1] = Target(hp, c[i])
      /\ Target(hp, c[n]) = NULL
  BY <1>1, ChainLinks
<1>3. \A i \in 1 .. n : c[i] \in Live(hp)
  BY <1>1, ChainIn
<1>4. n \in Nat /\ DOMAIN c = 1 .. n /\ e = c[n]
  BY <1>2, LenProperties DEF Last, XIO_get_source
<1>5. gone = {c[i] : i \in {i \in 1 .. n : With(i)}}
  BY <1>4 DEF ClosedWith
<1> HIDE DEF c, n
<1>6. \A k : k \in gone <=> \E i \in 1 .. n : With(i) /\ k = c[i]
  BY <1>5
<1>7. h \in gone
  BY <1>2, <1>4, <1>6
<1>8. gone \subseteq Live(hp) /\ e \in Live(hp)
  BY <1>2, <1>3, <1>4, <1>6
<1>9. ASSUME NEW z \in gone, hp.obj[z].close PROVE Target(hp, z) \in gone \cup {NULL}
  <2>1. PICK i \in 1 .. n : With(i) /\ z = c[i]
    BY <1>6
  <2>2. CASE i = n
    BY <1>2, <2>1, <2>2
  <2>3. CASE i # n
    <3>1. i + 1 \in 1 .. n /\ i \in 1 .. n - 1
      BY <1>4, <2>3
    <3>2. With(i + 1)
      BY <1>9, <2>1, <3>1
    <3> HIDE DEF With
    <3>3. QED
      BY <1>2, <1>6, <2>1, <3>1, <3>2
  <2>4. QED
    BY <2>2, <2>3
<1>10. ASSUME NEW k \in gone, k # h
       PROVE  \E z \in gone : hp.obj[z].close /\ Target(hp, z) = k
  <2>1. PICK i \in 1 .. n : With(i) /\ k = c[i]
    BY <1>6
  <2>2. i # 1
    BY <1>2, <1>10, <2>1
  <2>3. i - 1 \in 1 .. n - 1 /\ i - 1 \in 1 .. n /\ i - 1 + 1 = i
    BY <1>4, <2>2
  <2>4. With(i - 1) /\ hp.obj[c[i - 1]].close
    BY <2>1, <2>3
  <2> HIDE DEF With
  <2>5. c[i - 1] \in gone /\ Target(hp, c[i - 1]) = k
    BY <1>2, <1>6, <2>1, <2>3, <2>4
  <2>6. QED
    BY <2>4, <2>5
<1>11. ASSUME NEW k \in gone, Target(hp, k) = NULL PROVE k = e
  <2>1. PICK i \in 1 .. n : k = c[i]
    BY <1>6
  <2>2. ASSUME i # n PROVE FALSE
    <3>1. i \in 1 .. n - 1 /\ i + 1 \in 1 .. n
      BY <1>4, <2>2
    <3>2. c[i + 1] = NULL /\ c[i + 1] \in Handle
      BY <1>1, <1>2, <1>3, <1>11, <2>1, <3>1
    <3>3. QED
      BY <3>2, NullAssumption
  <2>3. QED
    BY <1>4, <2>1, <2>2
<1>12. QED
  BY <1>7, <1>8, <1>9, <1>10, <1>11

(* Freed objects... *)
LEMMA UnusedGood == Unused \in Object /\ GoodObject(Unused)
<1>1. <<>> \in Seq(Byte) /\ Len(<<>>) = 0
  OBVIOUS
<1>2. Unused \in Object
  BY <1>1 DEF Unused, Object
<1>3. QED
  BY <1>1, <1>2, NullAssumption DEF Unused, GoodObject, Filter

(* ...and closed FILEs are good ones. *)
LEMMA ClosedGood == Closed \in File /\ GoodFile(Closed) /\ ~Closed.open
<1>1. <<>> \in Seq(Byte) /\ Len(<<>>) = 0
  OBVIOUS
<1>2. QED
  BY <1>1, BufSizeAssumption DEF Closed, File, GoodFile

(* fclose writes the buffer out, and the FILE is gone. *)
ClosedFileIs(hp, w, f, d) ==
  /\ \A g \in Fp \ {f} : w.file[g] = hp.file[g]
  /\ w.file[f] = Closed
  /\ \A e \in Disk \ {d} : w.disk[e] = hp.disk[e]
  /\ w.disk[d] = [hp.disk[d] EXCEPT !.data = AfterFlush(hp, f)]

(* Neither effect on a FILE is about objects. *)
LEMMA FileIsSame ==
  ASSUME NEW hp, NEW v, NEW w, w.file = v.file, w.disk = v.disk, NEW f, NEW d
  PROVE  /\ ClosedFileIs(hp, v, f, d) => ClosedFileIs(hp, w, f, d)
         /\ \A buf, data : FileIs(hp, v, f, d, buf, data) => FileIs(hp, w, f, d, buf, data)
<1>1. ClosedFileIs(hp, v, f, d) => ClosedFileIs(hp, w, f, d)
  BY Zenon DEF ClosedFileIs
<1>2. \A buf, data : FileIs(hp, v, f, d, buf, data) => FileIs(hp, w, f, d, buf, data)
  BY Zenon DEF FileIs
<1>3. QED
  BY <1>1, <1>2

(* That is what fclose does. *)
LEMMA Fclosed ==
  ASSUME NEW hp, hp \in Heap, NEW f \in Fp, NEW d \in Disk, hp.file[f].disk = d,
         NEW w, w = Fclose(hp, f)
  PROVE  w \in Heap /\ w.obj = hp.obj /\ ClosedFileIs(hp, w, f, d)
<1> DEFINE v == Fflush(hp, f)
<1>1. v \in Heap /\ v.obj = hp.obj /\ FileIs(hp, v, f, d, <<>>, AfterFlush(hp, f))
  BY Flushed DEF AfterFlush, OnlyFileIs
<1>2. w = WithFile(v, f, Closed)
  BY DEF Fclose, WithFile
<1> HIDE DEF v
<1>3. /\ w \in Heap /\ w.file[f] = Closed /\ \A g \in Fp \ {f} : w.file[g] = v.file[g]
      /\ w.obj = v.obj /\ w.disk = v.disk
  BY <1>1, <1>2, ClosedGood, FilePut
<1>4. QED
  BY <1>1, <1>3 DEF ClosedFileIs, FileIs

(* XIO_close frees what goes, and nothing else; the FILE of a source that goes is *)
(* closed if the source owns it, and else flushed if it must be.                   *)
LEMMA Closes ==
  ASSUME NEW hp, Sound(hp), NEW h \in Live(hp), NEW w, w = XIO_close(hp, h),
         NEW gone, gone = ClosedWith(hp, h), NEW e, e = XIO_get_source(hp, h),
         NEW o, o = hp.obj[e],
         \A k \in Live(hp) \ gone : Target(hp, k) \notin gone,
         e \in gone => \A k \in Live(hp) \ gone : hp.obj[k].type = "FILE" => hp.obj[k].fp # o.fp
  PROVE  /\ Sound(w) /\ Live(w) = Live(hp) \ gone
         /\ \A k \in Handle \ gone : w.obj[k] = hp.obj[k]
         /\ \A d \in Disk : w.disk[d].broken = hp.disk[d].broken
         /\ IF e \in gone /\ o.type = "FILE" /\ o.close
            THEN ClosedFileIs(hp, w, o.fp, hp.file[o.fp].disk)
            ELSE IF e \in gone /\ o.type = "FILE" /\ o.dirty
            THEN FileIs(hp, w, o.fp, hp.file[o.fp].disk, <<>>, AfterFlush(hp, o.fp))
            ELSE w.file = hp.file /\ w.disk = hp.disk
<1> DEFINE f == o.fp
           d == hp.file[f].disk
           v == IF e \notin gone \/ o.type # "FILE" THEN hp
                ELSE IF o.close THEN Fclose(hp, f) ELSE XIO_flush(hp, e)
           obj == [k \in Handle |-> IF k \in gone THEN Unused ELSE v.obj[k]]
<1>1. /\ h \in Handle /\ h # NULL /\ hp \in Heap /\ Chained(hp) /\ GoodHeap(hp)
      /\ Live(hp) \subseteq Handle /\ hp.obj \in [Handle -> Object]
      /\ \A k \in Handle : Target(hp, k) \in Handle \cup {NULL}
  BY NullAssumption DEF Live, Sound, GoodHeap, Heap, Object, Target
<1>2. h \in gone /\ gone \subseteq Live(hp) /\ e \in Live(hp)
  BY Gone
<1>3. w = [v EXCEPT !.obj = obj]
  <2> DEFINE V(g, x, y) == IF x \notin g \/ y.type # "FILE" THEN hp
                          ELSE IF y.close THEN Fclose(hp, y.fp) ELSE XIO_flush(hp, x)
             W(g, u) == [u EXCEPT !.obj = [k \in Handle |-> IF k \in g THEN Unused ELSE @[k]]]
             X(g, x, y) == W(g, V(g, x, y))
  <2>3. XIO_close(hp, h) = X(ClosedWith(hp, h), XIO_get_source(hp, h), hp.obj[XIO_get_source(hp, h)])
    BY <1>1, Zenon DEF XIO_close
  <2> HIDE DEF X
  <2>4. w = X(gone, e, o)
    BY <2>3, Zenon
  <2>1. w = [v EXCEPT !.obj = [k \in Handle |-> IF k \in gone THEN Unused ELSE @[k]]]
    BY <2>4, Zenon DEF X
  <2> HIDE DEF v
  <2>2. QED
    BY <2>1
<1>4. /\ e \in gone /\ o.type = "FILE" /\ o.close => v = Fclose(hp, f)
      /\ e \in gone /\ o.type = "FILE" /\ ~o.close => v = XIO_flush(hp, e)
      /\ e \notin gone \/ o.type # "FILE" => v = hp
  OBVIOUS
<1>5. o.type = "FILE" => f \in Fp /\ hp.file[f].open /\ d \in Disk
  BY <1>1, <1>2 DEF Sound, GoodHeap, GoodObject, GoodFile
<1>6. \A g \in Fp : GoodFile(hp.file[g])
  BY <1>1 DEF GoodHeap
<1> HIDE DEF v
(* What becomes of the FILE. *)
<1> DEFINE Files(x) ==
             IF e \in gone /\ o.type = "FILE" /\ o.close THEN ClosedFileIs(hp, x, f, d)
             ELSE IF e \in gone /\ o.type = "FILE" /\ o.dirty THEN FileIs(hp, x, f, d, <<>>, AfterFlush(hp, f))
             ELSE x.file = hp.file /\ x.disk = hp.disk
           Shut(g) == e \in gone /\ o.type = "FILE" /\ o.close /\ g = f
           Rest(x) == /\ \A g \in Fp : /\ GoodFile(x.file[g])
                                       /\ x.file[g].open <=> hp.file[g].open /\ ~Shut(g)
                      /\ \A b \in Disk : x.disk[b].broken = hp.disk[b].broken
<1>7. v \in Heap /\ (\A k \in Handle \ gone : v.obj[k] = hp.obj[k]) /\ Files(v) /\ Rest(v)
  <2>1. CASE e \in gone /\ o.type = "FILE" /\ o.close
    <3>1. v \in Heap /\ v.obj = hp.obj /\ ClosedFileIs(hp, v, f, d)
      BY <1>1, <1>4, <1>5, <2>1, Fclosed
    <3>2. ASSUME NEW g \in Fp
          PROVE  GoodFile(v.file[g]) /\ (v.file[g].open <=> hp.file[g].open /\ g # f)
      <4>1. CASE g = f
        BY <3>1, <4>1, ClosedGood DEF ClosedFileIs
      <4>2. CASE g # f
        BY <1>6, <3>1, <4>2 DEF ClosedFileIs
      <4>3. QED
        BY <4>1, <4>2
    <3>3. v.disk[d].broken = hp.disk[d].broken
      <4>1. hp.disk[d] \in Device
        BY <1>1, <1>5, <2>1 DEF Heap
      <4>2. QED
        BY <3>1, <4>1 DEF ClosedFileIs, Device
    <3>4. \A b \in Disk : v.disk[b].broken = hp.disk[b].broken
      BY <3>1, <3>3 DEF ClosedFileIs
    <3>5. QED
      BY <2>1, <3>1, <3>2, <3>4
  <2>2. CASE e \in gone /\ o.type = "FILE" /\ ~o.close
    <3>1. v = XIO_flush(hp, e)
      BY <1>4, <2>2
    <3>2. /\ Sound(v) /\ SameFiles(hp, v)
          /\ \A k \in Handle : k # e => v.obj[k] = hp.obj[k]
          /\ IF o.dirty /\ o.type = "FILE" THEN FileIs(hp, v, f, d, <<>>, AfterFlush(hp, f))
             ELSE v.file = hp.file /\ v.disk = hp.disk
      BY <1>2, <3>1, Flushes
    <3>3. QED
      BY <2>2, <3>2 DEF SameFiles, Sound, GoodHeap
  <2>3. CASE e \notin gone \/ o.type # "FILE"
    <3>1. v = hp
      BY <1>4, <2>3
    <3>2. Rest(hp)
      <4>1. \A g \in Fp : GoodFile(hp.file[g]) /\ (hp.file[g].open <=> hp.file[g].open /\ ~Shut(g))
        BY <1>6, <2>3
      <4>2. QED
        BY <4>1
    <3>3. Files(hp)
      BY <2>3
    <3> HIDE DEF Files, Rest
    <3>4. QED
      BY <1>1, <3>1, <3>2, <3>3
  <2>4. QED
    BY <2>1, <2>2, <2>3
<1> HIDE DEF Files, Rest
<1>8. obj \in [Handle -> Object] /\ \A k \in Handle : obj[k] = IF k \in gone THEN Unused ELSE v.obj[k]
  BY <1>7, UnusedGood DEF Heap
<1> HIDE DEF obj
<1>9. w \in Heap /\ w.obj = obj /\ w.file = v.file /\ w.disk = v.disk
  <2>1. w = [obj |-> obj, file |-> v.file, disk |-> v.disk]
    BY <1>3, <1>7 DEF Heap
  <2>2. QED
    BY <1>7, <1>8, <2>1 DEF Heap
<1>10. Files(w) /\ Rest(w)
  <2>1. Rest(w)
    BY <1>7, <1>9 DEF Rest
  <2>2. Files(w)
    BY <1>7, <1>9, FileIsSame, ZenonT(40) DEF Files
  <2>3. QED
    BY <2>1, <2>2
<1>11. /\ \A k \in gone : w.obj[k] = Unused
       /\ \A k \in Handle \ gone : w.obj[k] = hp.obj[k]
  BY <1>1, <1>2, <1>7, <1>8, <1>9
<1>12. \A k \in Handle \ gone : Target(hp, k) \notin gone
  <2>1. ASSUME NEW k \in Handle, k \notin Live(hp) PROVE Target(hp, k) = NULL
    BY <2>1, UnusedType DEF Live, Target
  <2>2. QED
    BY <1>1, <1>2, <2>1, NullAssumption
<1>13. Chained(w)
  <2>1. \A k \in gone : Target(w, k) = NULL
    BY <1>11, UnusedType DEF Target
  <2>2. \A k \in Handle \ gone : Target(w, k) = Target(hp, k)
    BY <1>11 DEF Target
  <2>3. gone \subseteq Handle
    BY <1>1, <1>2
  <2>4. QED
    BY <1>1, <1>12, <2>1, <2>2, <2>3, FreeChained
<1>14. Live(w) = Live(hp) \ gone
  BY <1>1, <1>2, <1>11 DEF Live
<1>15. GoodHeap(w)
  <2>1. \A k \in Handle : GoodObject(w.obj[k])
    BY <1>1, <1>11, UnusedGood DEF GoodHeap
  <2>2. QED
    BY <1>9, <1>10, <1>13, <2>1 DEF GoodHeap, Rest
<1>16. ASSUME NEW k \in Live(w) PROVE
         /\ Target(w, k) \in Live(w) \cup {NULL}
         /\ w.obj[k].type = "FILE" => w.file[w.obj[k].fp].open
  <2>1. k \in Live(hp) /\ k \notin gone /\ k \in Handle /\ w.obj[k] = hp.obj[k]
    BY <1>1, <1>11, <1>14
  <2>2. Target(w, k) = Target(hp, k) /\ Target(hp, k) \in Live(hp) \cup {NULL}
    BY <2>1 DEF Target, Sound
  <2>3. Target(w, k) \in Live(w) \cup {NULL}
    BY <1>14, <2>1, <2>2
  <2>4. ASSUME w.obj[k].type = "FILE" PROVE w.file[w.obj[k].fp].open
    <3>1. w.obj[k].fp \in Fp /\ hp.file[w.obj[k].fp].open
      BY <1>1, <2>1, <2>4 DEF Sound, GoodHeap, GoodObject
    <3>2. e \in gone => w.obj[k].fp # f
      BY <2>1, <2>4
    <3>3. QED
      BY <1>10, <3>1, <3>2 DEF Rest
  <2>5. QED
    BY <2>3, <2>4
<1>17. Sound(w)
  BY <1>15, <1>16 DEF Sound
<1>18. QED
  BY <1>10, <1>11, <1>14, <1>17 DEF Files, Rest

-----------------------------------------------------------------------------
(* A constructor adds its object, h, and nothing else. *)
NewObject(hp, w, h, o) ==
  /\ w.obj[h] = o /\ \A k \in Handle \ {h} : w.obj[k] = hp.obj[k]
  /\ Live(w) = Live(hp) \cup {h}

(* Alloc does, and the heap stays sound if the object is stacked on a live one or on *)
(* none, and is on an open FILE or on none.                                            *)
LEMMA Allocs ==
  ASSUME NEW hp, Sound(hp), NEW h \in FreeObj(hp), NEW o \in Object, GoodObject(o), o # Unused,
         o.target \in Live(hp) \cup {NULL}, o.type = "FILE" => hp.file[o.fp].open,
         NEW w, w = Alloc(hp, h, o)
  PROVE  Sound(w) /\ NewObject(hp, w, h, o) /\ w.file = hp.file /\ w.disk = hp.disk
<1>1. /\ h \in Handle /\ h \notin Live(hp) /\ hp \in Heap /\ GoodHeap(hp) /\ Live(hp) \subseteq Handle
      /\ \A k \in Handle : Target(hp, k) \in Handle \cup {NULL}
  BY DEF FreeObj, Live, Sound, GoodHeap, Heap, Object, Target
<1>2. /\ w \in Heap /\ w.obj[h] = o /\ \A k \in Handle \ {h} : w.obj[k] = hp.obj[k]
      /\ w.file = hp.file /\ w.disk = hp.disk
  BY <1>1, ObjectPut
<1>3. Live(w) = Live(hp) \cup {h}
  BY <1>1, <1>2 DEF Live
<1>4. Chained(w)
  <2>1. \A k \in Handle \ {h} : Target(w, k) = Target(hp, k) /\ Target(w, k) # h
    <3>1. ASSUME NEW k \in Handle, k # h PROVE Target(hp, k) # h
      <4>1. CASE k \in Live(hp)
        BY <1>1, <4>1, NullAssumption DEF Sound
      <4>2. CASE k \notin Live(hp)
        BY <1>1, <4>2, UnusedType, NullAssumption DEF Live, Target
      <4>3. QED
        BY <4>1, <4>2
    <3>2. QED
      BY <1>2, <3>1 DEF Target
  <2>2. Target(w, h) # h /\ Target(w, h) \in Handle \cup {NULL}
    BY <1>1, <1>2, NullAssumption DEF Target
  <2>3. \A k \in Handle : Target(w, k) \in Handle \cup {NULL}
    BY <1>1, <2>1, <2>2
  <2>4. QED
    BY <1>1, <2>1, <2>2, <2>3, AllocChained DEF GoodHeap
<1>5. GoodHeap(w)
  BY <1>1, <1>2, <1>4 DEF GoodHeap
<1>6. ASSUME NEW k \in Live(w) PROVE
        /\ Target(w, k) \in Live(w) \cup {NULL}
        /\ w.obj[k].type = "FILE" => w.file[w.obj[k].fp].open
  <2>1. CASE k = h
    BY <1>2, <1>3, <2>1 DEF Target
  <2>2. CASE k # h
    <3>1. k \in Live(hp) /\ w.obj[k] = hp.obj[k]
      BY <1>1, <1>2, <1>3, <2>2
    <3>2. QED
      BY <1>2, <1>3, <3>1 DEF Sound, Target
  <2>3. QED
    BY <2>1, <2>2
<1>7. Sound(w)
  BY <1>5, <1>6 DEF Sound
<1>8. QED
  BY <1>2, <1>3, <1>7 DEF NewObject

(* A FILE that is opened is nobody's yet. *)
LEMMA Opens ==
  ASSUME NEW hp, Sound(hp), NEW f \in FreeFp(hp), NEW w, w \in Heap, w.obj = hp.obj,
         GoodFile(w.file[f]), \A g \in Fp \ {f} : w.file[g] = hp.file[g]
  PROVE  Sound(w) /\ Live(w) = Live(hp)
<1>1. f \in Fp /\ ~hp.file[f].open /\ GoodHeap(hp) /\ Live(hp) \subseteq Handle
  BY DEF FreeFp, Sound, Live
<1>2. Live(w) = Live(hp)
  BY DEF Live
<1>3. GoodHeap(w)
  <2>1. Chained(w)
    BY <1>1, SameTargets DEF GoodHeap, Target
  <2>2. \A g \in Fp : GoodFile(w.file[g])
    BY <1>1 DEF GoodHeap
  <2>3. QED
    BY <1>1, <2>1, <2>2 DEF GoodHeap
<1>4. ASSUME NEW k \in Live(w) PROVE
        /\ Target(w, k) \in Live(w) \cup {NULL}
        /\ w.obj[k].type = "FILE" => w.file[w.obj[k].fp].open
  <2>1. Target(w, k) \in Live(w) \cup {NULL}
    BY <1>2 DEF Sound, Target
  <2>2. ASSUME w.obj[k].type = "FILE" PROVE w.file[w.obj[k].fp].open
    <3>1. hp.file[hp.obj[k].fp].open /\ hp.obj[k].fp \in Fp
      BY <1>1, <1>2, <2>2 DEF Sound, GoodHeap, GoodObject
    <3>2. QED
      BY <1>1, <3>1
  <2>3. QED
    BY <2>1, <2>2
<1>5. QED
  BY <1>2, <1>3, <1>4 DEF Sound

(* fopen, and its truncation. *)
Opened(hp, w, f, p, d, data) ==
  /\ w.obj = hp.obj /\ Live(w) = Live(hp)
  /\ w.file[f] = p /\ \A g \in Fp \ {f} : w.file[g] = hp.file[g]
  /\ w.disk[d] = [hp.disk[d] EXCEPT !.data = data]
  /\ \A e \in Disk \ {d} : w.disk[e] = hp.disk[e]

OpenFp(mode, d) == [Closed EXCEPT !.open = TRUE, !.mode = mode, !.disk = d]

(* A FILE just opened is good and holds nothing. *)
LEMMA OpenFpGood ==
  ASSUME NEW mode \in {"rb", "wb", "r+"}, NEW d \in Disk
  PROVE  /\ OpenFp(mode, d) \in File /\ GoodFile(OpenFp(mode, d))
         /\ OpenFp(mode, d).open /\ OpenFp(mode, d).mode = mode
         /\ OpenFp(mode, d).disk = d /\ OpenFp(mode, d).buf = <<>>
<1> DEFINE p == OpenFp(mode, d)
<1>1. <<>> \in Seq(Byte) /\ Len(<<>>) = 0
  OBVIOUS
<1>2. /\ p \in File /\ p.open = TRUE /\ p.mode = mode /\ p.disk = d /\ p.buf = <<>>
  BY <1>1 DEF OpenFp, Closed, File
<1> HIDE DEF p
<1>3. GoodFile(p)
  BY <1>1, <1>2, BufSizeAssumption DEF GoodFile
<1>4. QED
  BY <1>2, <1>3 DEF p

(* A file opened to be written is empty, one opened to be read is as it was. *)
LEMMA Fopens ==
  ASSUME NEW hp, Sound(hp), NEW f \in FreeFp(hp), NEW d \in Disk, NEW mode \in {"rb", "wb"},
         NEW w, w = Fopen(hp, f, d, mode)
  PROVE  Sound(w) /\ Opened(hp, w, f, OpenFp(mode, d), d, IF mode = "wb" THEN <<>> ELSE hp.disk[d].data)
<1> DEFINE data == IF mode = "wb" THEN <<>> ELSE hp.disk[d].data
           v == WithFile(hp, f, OpenFp(mode, d))
           p == [hp.disk[d] EXCEPT !.data = data]
<1>1. hp \in Heap /\ f \in Fp
  BY DEF Sound, GoodHeap, FreeFp
<1>2. hp.disk[d] \in Device
  BY <1>1 DEF Heap
<1>3. p \in Device
  <2>1. data \in Seq(Byte)
    BY <1>2, EmptySeq DEF Device
  <2> HIDE DEF data
  <2>2. QED
    BY <1>2, <2>1 DEF Device
<1>4. OpenFp(mode, d) \in File /\ GoodFile(OpenFp(mode, d))
  BY OpenFpGood
<1> HIDE DEF v
<1>5. /\ v \in Heap /\ v.file[f] = OpenFp(mode, d) /\ \A g \in Fp \ {f} : v.file[g] = hp.file[g]
      /\ v.obj = hp.obj /\ v.disk = hp.disk
  <2>1. v = WithFile(hp, f, OpenFp(mode, d))
    BY DEF v
  <2>2. QED
    BY <1>1, <1>4, <2>1, FilePut
<1>6. w = WithDisk(v, d, p)
  <2>1. w = [v EXCEPT !.disk[d].data = IF mode = "wb" THEN <<>> ELSE @]
    BY Zenon DEF Fopen, WithFile, OpenFp, v
  <2>2. w = [v EXCEPT !.disk[d] = [hp.disk[d] EXCEPT !.data = IF mode = "wb" THEN <<>> ELSE hp.disk[d].data]]
    BY <1>1, <1>2, <1>5, <2>1 DEF Heap, Device
  <2>3. QED
    BY <2>2, Zenon DEF WithDisk, p
<1> HIDE DEF p
<1>7. /\ w \in Heap /\ w.disk[d] = p /\ \A g \in Disk \ {d} : w.disk[g] = v.disk[g]
      /\ w.obj = v.obj /\ w.file = v.file
  BY <1>3, <1>5, <1>6, DiskPut
<1>8. Sound(w) /\ Live(w) = Live(hp)
  BY <1>4, <1>5, <1>7, Opens
<1>9. QED
  BY <1>5, <1>7, <1>8 DEF Opened, p

(* The objects the constructors make. *)
IsNew(o, type, close, target, fp) ==
  /\ o \in Object /\ GoodObject(o) /\ o # Unused /\ ~o.dirty
  /\ o.type = type /\ o.close = close /\ o.target = target /\ o.fp = fp

(* They are good, have nothing to flush, and are of the kind asked for. *)
LEMMA NewObjects ==
  /\ \A f \in Fp, close \in BOOLEAN :
       IsNew([Unused EXCEPT !.type = "FILE", !.fp = f, !.close = close], "FILE", close, NULL, f)
  /\ \A s \in Seq(Byte) :
       IsNew([Unused EXCEPT !.type = "MEMORY", !.data = s], "MEMORY", FALSE, NULL, NoFp)
  /\ \A s \in Seq(Byte) :
       IsNew([Unused EXCEPT !.type = "MBUILDER", !.data = s], "MBUILDER", FALSE, NULL, NoFp)
  /\ IsNew([Unused EXCEPT !.type = "MBUILDER"], "MBUILDER", FALSE, NULL, NoFp)
  /\ IsNew([Unused EXCEPT !.type = "NULL", !.close = TRUE], "NULL", TRUE, NULL, NoFp)
  /\ \A type \in Filter, close \in BOOLEAN, target \in Handle :
       IsNew([Unused EXCEPT !.type = type, !.close = close, !.target = target],
             type, close, target, NoFp)
<1> DEFINE New(o, type, close, target, fp, data) ==
             /\ o \in Object /\ o.type = type /\ o.close = close /\ o.target = target
             /\ o.fp = fp /\ o.data = data /\ o.readn = 0 /\ ~o.dirty
<1>1. ASSUME NEW o, NEW type \in Filter \cup Source, NEW close, NEW target, NEW fp,
             NEW data \in Seq(Byte), New(o, type, close, target, fp, data),
             target # NULL => type \in Filter, type = "FILE" <=> fp \in Fp
      PROVE  IsNew(o, type, close, target, fp)
  <2>1. type # "unused" /\ Len(data) \in Nat
    BY LenProperties DEF Filter, Source
  <2>2. GoodObject(o)
    BY <1>1, <2>1 DEF GoodObject
  <2>3. o # Unused
    BY <1>1, <2>1, UnusedType
  <2>4. QED
    BY <1>1, <2>2, <2>3 DEF IsNew
<1>2. /\ <<>> \in Seq(Byte) /\ {"FILE", "MEMORY", "MBUILDER", "NULL"} \subseteq Source
      /\ "FILE" \notin Filter /\ NoFp \notin Fp /\ Unused \in Object
  BY UnusedGood, NullAssumption DEF Source, Filter
<1>3. ASSUME NEW f \in Fp, NEW close \in BOOLEAN
      PROVE  IsNew([Unused EXCEPT !.type = "FILE", !.fp = f, !.close = close], "FILE", close, NULL, f)
  <2> DEFINE o == [Unused EXCEPT !.type = "FILE", !.fp = f, !.close = close]
  <2>1. New(o, "FILE", close, NULL, f, <<>>)
    BY <1>2 DEF Unused, Object, Source
  <2> HIDE DEF o, New
  <2>2. IsNew(o, "FILE", close, NULL, f)
    BY <1>1, <1>2, <2>1
  <2>3. QED
    BY <2>2 DEF o
<1>4. ASSUME NEW s \in Seq(Byte), NEW type \in {"MEMORY", "MBUILDER"}
      PROVE  IsNew([Unused EXCEPT !.type = type, !.data = s], type, FALSE, NULL, NoFp)
  <2> DEFINE o == [Unused EXCEPT !.type = type, !.data = s]
  <2>1. New(o, type, FALSE, NULL, NoFp, s)
    BY <1>2 DEF Unused, Object, Source
  <2> HIDE DEF o, New
  <2>2. IsNew(o, type, FALSE, NULL, NoFp)
    BY <1>1, <1>2, <2>1 DEF Source
  <2>3. QED
    BY <2>2 DEF o
<1>5. IsNew([Unused EXCEPT !.type = "MBUILDER"], "MBUILDER", FALSE, NULL, NoFp)
  <2> DEFINE o == [Unused EXCEPT !.type = "MBUILDER"]
  <2>1. New(o, "MBUILDER", FALSE, NULL, NoFp, <<>>)
    BY <1>2 DEF Unused, Object, Source
  <2> HIDE DEF o, New
  <2>2. IsNew(o, "MBUILDER", FALSE, NULL, NoFp)
    BY <1>1, <1>2, <2>1
  <2>3. QED
    BY <2>2 DEF o
<1>6. IsNew([Unused EXCEPT !.type = "NULL", !.close = TRUE], "NULL", TRUE, NULL, NoFp)
  <2> DEFINE o == [Unused EXCEPT !.type = "NULL", !.close = TRUE]
  <2>1. New(o, "NULL", TRUE, NULL, NoFp, <<>>)
    BY <1>2 DEF Unused, Object, Source
  <2> HIDE DEF o, New
  <2>2. IsNew(o, "NULL", TRUE, NULL, NoFp)
    BY <1>1, <1>2, <2>1
  <2>3. QED
    BY <2>2 DEF o
<1>7. ASSUME NEW type \in Filter, NEW close \in BOOLEAN, NEW target \in Handle
      PROVE  IsNew([Unused EXCEPT !.type = type, !.close = close, !.target = target],
                   type, close, target, NoFp)
  <2> DEFINE o == [Unused EXCEPT !.type = type, !.close = close, !.target = target]
  <2>1. New(o, type, close, target, NoFp, <<>>)
    BY <1>2 DEF Unused, Object
  <2> HIDE DEF o, New
  <2>2. IsNew(o, type, close, target, NoFp)
    BY <1>1, <1>2, <2>1
  <2>3. QED
    BY <2>2 DEF o
<1>8. \A s \in Seq(Byte) :
        /\ IsNew([Unused EXCEPT !.type = "MEMORY", !.data = s], "MEMORY", FALSE, NULL, NoFp)
        /\ IsNew([Unused EXCEPT !.type = "MBUILDER", !.data = s], "MBUILDER", FALSE, NULL, NoFp)
  BY <1>4
<1>9. QED
  BY <1>3, <1>5, <1>6, <1>7, <1>8
=============================================================================
