---------------------------- MODULE CodecsProofs ----------------------------
(* What the codecs write keeps to the lines and the buffer it was given, and   *)
(* what they wrote means the bytes it was made from, whatever these are and   *)
(* however many.                                                               *)
EXTENDS Codecs, Induction

Byte == 0 .. 255

(* A string is bytes, as it grows. *)
Typed == trial \in Trials /\ str \in Seq(Byte)

LEMMA StringTyped == Spec => []Typed
<1>1. Init => Typed
  BY EmptySeq DEF Init, Typed
<1>2. Typed /\ [Next]_vars => Typed'
  <2> SUFFICES ASSUME Typed, [Next]_vars PROVE Typed'
    OBVIOUS
  <2>1. CASE UNCHANGED vars
    BY <2>1 DEF vars, Typed
  <2>2. ASSUME NEW c \in trial.chars, Type(c) PROVE Typed'
    <3>1. c \in Byte
      BY TrialAssumption DEF Typed, Byte
    <3>2. QED
      BY <2>2, <3>1, AppendProperties DEF Type, Typed
  <2>3. QED
    BY <2>1, <2>2 DEF Next
<1>3. QED
  BY <1>1, <1>2, PTL DEF Spec

-----------------------------------------------------------------------------
(* Lines.  In s every line is within len, and the last, open one has k chars *)
(* at most.                                                                  *)
Within(s, len, k) ==
  /\ k \in 0 .. len
  /\ \A b \in 0 .. Len(s) :
       b >= Len(s) - k \/ \E e \in 1 .. Len(s) : b < e /\ e <= b + len + 1 /\ s[e] = LF

LEMMA WithinStart == ASSUME NEW len \in Nat PROVE Within(<<>>, len, 0)
  BY EmptySeq DEF Within

LEMMA WithinMore ==
  ASSUME NEW s \in Seq(Int), NEW t \in Seq(Int), NEW len \in Nat, NEW k, Within(s, len, k),
         k + Len(t) <= len
  PROVE  Within(s \o t, len, k + Len(t))
<1>1. /\ Len(s) \in Nat /\ Len(t) \in Nat /\ Len(s \o t) = Len(s) + Len(t)
      /\ \A e \in 1 .. Len(s) : (s \o t)[e] = s[e]
  BY ConcatProperties, LenProperties
<1>2. k \in 0 .. len
  BY DEF Within
<1>3. ASSUME NEW b \in 0 .. Len(s) + Len(t), ~(b >= Len(s) - k)
      PROVE  \E e \in 1 .. Len(s) + Len(t) : b < e /\ e <= b + len + 1 /\ (s \o t)[e] = LF
  <2>1. b \in 0 .. Len(s)
    BY <1>1, <1>2, <1>3
  <2>2. PICK e \in 1 .. Len(s) : b < e /\ e <= b + len + 1 /\ s[e] = LF
    BY <1>3, <2>1 DEF Within
  <2>3. QED
    BY <1>1, <2>2
<1>4. \A b \in 0 .. Len(s) + Len(t) : b >= Len(s) - k => b >= Len(s) + Len(t) - (k + Len(t))
  BY <1>1, <1>2
<1>5. QED
  BY <1>1, <1>2, <1>3, <1>4 DEF Within

LEMMA WithinEnd ==
  ASSUME NEW s \in Seq(Int), NEW len \in Nat, NEW k, Within(s, len, k)
  PROVE  Within(s \o <<LF>>, len, 0)
<1> DEFINE t == s \o <<LF>>
<1>1. /\ Len(s) \in Nat /\ Len(t) = Len(s) + 1 /\ t[Len(s) + 1] = LF
      /\ \A e \in 1 .. Len(s) : t[e] = s[e]
  BY AppendIsConcat, AppendProperties, LenProperties DEF LF
<1> HIDE DEF t
<1>2. k \in 0 .. len
  BY DEF Within
<1>3. ASSUME NEW b \in 0 .. Len(s)
      PROVE  \E e \in 1 .. Len(t) : b < e /\ e <= b + len + 1 /\ t[e] = LF
  <2>1. CASE b >= Len(s) - k
    BY <1>1, <1>2, <2>1
  <2>2. CASE \E e \in 1 .. Len(s) : b < e /\ e <= b + len + 1 /\ s[e] = LF
    BY <1>1, <2>2
  <2>3. QED
    BY <2>1, <2>2 DEF Within
<1>4. QED
  BY <1>1, <1>3 DEF Within, t

(* So no line is longer. *)
LEMMA WithinLines ==
  ASSUME NEW s \in Seq(Int), NEW len \in Nat, NEW k, Within(s, len, k)
  PROVE  \A n \in LineLengths(s) : n <= len
<1> DEFINE ends == {0, Len(s) + 1} \cup {i \in DOMAIN s : s[i] = LF}
           after(b) == {e \in ends : e > b}
<1>1. Len(s) \in Nat /\ DOMAIN s = 1 .. Len(s) /\ k \in 0 .. len
  BY LenProperties DEF Within
<1>2. ASSUME NEW b \in ends \ {Len(s) + 1} PROVE Min(after(b)) - b - 1 <= len
  <2>1. b \in 0 .. Len(s)
    BY <1>1
  <2>2. \E e \in after(b) : e <= b + len + 1
    <3>1. CASE b >= Len(s) - k
      BY <1>1, <2>1, <3>1
    <3>2. CASE \E e \in 1 .. Len(s) : b < e /\ e <= b + len + 1 /\ s[e] = LF
      BY <1>1, <2>1, <3>2
    <3>3. QED
      BY <2>1, <3>1, <3>2 DEF Within
  <2>3. after(b) \in SUBSET Nat
    BY <1>1
  <2> HIDE DEF after
  <2>4. \E x \in after(b) : \A y \in after(b) : x <= y
    BY <2>2, <2>3, LeastMember
  <2>5. Min(after(b)) \in after(b) /\ \A y \in after(b) : Min(after(b)) <= y
    BY <2>4 DEF Min
  <2>6. QED
    BY <2>1, <2>2, <2>3, <2>5
<1>3. QED
  BY <1>2 DEF LineLengths

-----------------------------------------------------------------------------
(* The FlattenSeq of the codecs is the one of this module. *)
LEMMA SameFlatten ==
  ASSUME NEW ss
  PROVE  Hex!FlattenSeq(ss) = FlattenSeq(ss) /\ B64!FlattenSeq(ss) = FlattenSeq(ss)
  BY DEF Hex!FlattenSeq, B64!FlattenSeq, FlattenSeq

(* Texts put together one way or the other. *)
Associates(s, x, y) == s \o (x \o y) = (s \o x) \o y

LEMMA Associative ==
  ASSUME NEW S, NEW s \in Seq(S), NEW x \in Seq(S), NEW y \in Seq(S) PROVE Associates(s, x, y)
  BY ConcatAssociative, SMT DEF Associates

(* Texts in hex. *)
LEMMA HexByteType ==
  ASSUME NEW b \in Byte, NEW up \in BOOLEAN
  PROVE  /\ Hex!HexByte(b, up) \in Seq(Byte) /\ Len(Hex!HexByte(b, up)) = 2
         /\ Hex!HexByte(b, up)[1] = Hex!HexDigit(b \div 16, up)
         /\ Hex!HexByte(b, up)[2] = Hex!HexDigit(b % 16, up)
         /\ b \div 16 \in 0 .. 15 /\ b % 16 \in 0 .. 15
<1>1. b \div 16 \in 0 .. 15 /\ b % 16 \in 0 .. 15
  BY DEF Byte
<1>2. \A n \in 0 .. 15 : Hex!HexDigit(n, up) \in Byte
  BY DEF Hex!HexDigit, Byte
<1>3. QED
  BY <1>1, <1>2 DEF Hex!HexByte

(* What is written for the i-th byte. *)
HexPiece(bytes, i, len, up) ==
  Hex!HexByte(bytes[i], up) \o IF Hex!LineEnds(i, Len(bytes), len) THEN <<LF>> ELSE <<>>

LEMMA HexSteps ==
  ASSUME NEW bytes \in Seq(Byte), bytes # <<>>, NEW len \in Nat, len % 2 = 0, NEW up \in BOOLEAN
  PROVE  \E f \in [Nat -> Seq(Byte)] :
           /\ f[0] = <<>>
           /\ \A i \in 1 .. Len(bytes) : f[i] = f[i - 1] \o HexPiece(bytes, i, len, up)
           /\ Hex!cc_hex_encode(bytes, len, up) = f[Len(bytes)]
<1> DEFINE P(i) == HexPiece(bytes, i, len, up)
           ss == [i \in 1 .. Len(bytes) |-> P(i)]
<1>1. Len(bytes) \in Nat /\ DOMAIN bytes = 1 .. Len(bytes) /\ \A i \in 1 .. Len(bytes) : bytes[i] \in Byte
  BY LenProperties, ElementOfSeq
<1>2. ASSUME NEW i \in 1 .. Len(bytes) PROVE P(i) \in Seq(Byte)
  <2>1. Hex!HexByte(bytes[i], up) \in Seq(Byte)
    BY <1>1, HexByteType
  <2>2. <<LF>> \in Seq(Byte) /\ <<>> \in Seq(Byte)
    BY DEF LF, Byte
  <2> DEFINE u == IF Hex!LineEnds(i, Len(bytes), len) THEN <<LF>> ELSE <<>>
  <2>3. u \in Seq(Byte)
    BY <2>2
  <2> HIDE DEF u
  <2>4. Hex!HexByte(bytes[i], up) \o u \in Seq(Byte)
    BY <2>1, <2>3, ConcatProperties
  <2>5. QED
    BY <2>4 DEF u, HexPiece
<1>3. Hex!cc_hex_encode(bytes, len, up) = FlattenSeq(ss)
  BY <1>1, SameFlatten DEF Hex!cc_hex_encode, HexPiece, Hex!Newline, LF
<1> HIDE DEF P
<1>4. ss \in Seq(Seq(Byte)) /\ Len(ss) = Len(bytes) /\ \A i \in 1 .. Len(bytes) : ss[i] = P(i)
  BY <1>1, <1>2
<1> HIDE DEF ss
<1>5. PICK f \in [Nat -> Seq(Byte)] :
        /\ f[0] = <<>> /\ \A i \in 1 .. Len(ss) : f[i] = f[i - 1] \o ss[i]
        /\ FlattenSeq(ss) = f[Len(ss)]
  BY <1>4, FlattenSteps
<1>6. QED
  BY <1>3, <1>4, <1>5 DEF P

(* The lines that i bytes fill, and the chars of the next. *)
HexRows(i, len) == (2 * i) \div len
HexRest(i, len) == (2 * i) % len

LEMMA EvenRest ==
  ASSUME NEW len \in Nat \ {0}, len % 2 = 0, NEW i \in Nat \ {0}
  PROVE  /\ HexRest(i - 1, len) \in 0 .. len /\ HexRest(i - 1, len) + 2 <= len
         /\ HexRows(i - 1, len) \in Nat /\ HexRows(i, len) \in Nat
         /\ HexRest(i, len) = 0 => HexRows(i, len) = HexRows(i - 1, len) + 1
         /\ HexRest(i, len) # 0 => /\ HexRows(i, len) = HexRows(i - 1, len)
                                   /\ HexRest(i, len) = HexRest(i - 1, len) + 2
<1> DEFINE j == i - 1
           r == HexRest(j, len)
           d == HexRows(j, len)
           s == HexRest(i, len)
           e == HexRows(i, len)
           h == len \div 2
<1>0. j \in Nat /\ i = j + 1
  OBVIOUS
<1> HIDE DEF j
<1>d. /\ r = (2 * j) % len /\ d = (2 * j) \div len
      /\ s = (2 * (j + 1)) % len /\ e = (2 * (j + 1)) \div len
  BY <1>0 DEF HexRest, HexRows
<1> HIDE DEF r, d, s, e
<1>1. h \in Nat \ {0} /\ len = 2 * h
  BY SMT
<1> HIDE DEF h
<1> DEFINE q == j \div h
           t == j % h
<1>2. q \in Nat /\ t \in 0 .. h - 1 /\ j = h * q + t
  BY <1>0, <1>1, SMT
<1> HIDE DEF q, t
<1>3. 2 * j = len * q + 2 * t /\ 2 * t \in 0 .. len - 1 /\ 2 * j \in Nat
  BY <1>0, <1>1, <1>2, SMT
<1>4. r = 2 * t /\ d = q
  BY <1>1, <1>2, <1>3, <1>d, SMT
<1> DEFINE Goal == /\ r \in 0 .. len /\ r + 2 <= len /\ d \in Nat /\ e \in Nat
                   /\ s = 0 => e = d + 1
                   /\ s # 0 => e = d /\ s = r + 2
<1>5. ASSUME t + 1 < h PROVE Goal
  <2>1. 2 * (j + 1) = len * q + 2 * (t + 1) /\ 2 * (t + 1) \in 1 .. len - 1
    BY <1>0, <1>1, <1>2, <1>3, <1>5, SMT
  <2>2. s = 2 * (t + 1) /\ e = q
    BY <1>1, <1>2, <1>d, <2>1, SMT
  <2>3. QED
    BY <1>1, <1>2, <1>4, <1>5, <2>1, <2>2, SMT
<1>6. ASSUME t + 1 = h PROVE Goal
  <2>1. 2 * (j + 1) = len * (q + 1)
    BY <1>0, <1>1, <1>2, <1>3, <1>6, SMT
  <2>2. s = 0 /\ e = q + 1
    BY <1>1, <1>2, <1>d, <2>1, SMT
  <2>3. QED
    BY <1>1, <1>2, <1>4, <1>6, <2>1, <2>2, SMT
<1>7. Goal
  BY <1>1, <1>2, <1>5, <1>6, SMT
<1>8. QED
  BY <1>7 DEF r, d, s, e, j

(* t is s, x, and perhaps the end of a line. *)
Extends(t, s, x, ends) ==
  /\ s \o x \in Seq(Byte) /\ Len(s \o x) = Len(s) + Len(x)
  /\ (s \o x) \o <<LF>> \in Seq(Byte) /\ Len((s \o x) \o <<LF>>) = Len(s) + Len(x) + 1
  /\ ends => t = (s \o x) \o <<LF>>
  /\ ~ends => t = s \o x

LEMMA Extension ==
  ASSUME NEW s \in Seq(Byte), NEW x \in Seq(Byte), NEW ends \in BOOLEAN
  PROVE  Extends(s \o (x \o IF ends THEN <<LF>> ELSE <<>>), s, x, ends)
<1> DEFINE nl == <<LF>>
           nil == <<>>
           u == s \o x
<1>1. nl \in Seq(Byte) /\ nil \in Seq(Byte) /\ Len(nl) = 1
  BY DEF LF, Byte
<1>2. u \in Seq(Byte) /\ Len(u) = Len(s) + Len(x)
  BY ConcatProperties
<1>3. x \o nil = x
  BY ConcatEmptySeq
<1> HIDE DEF nl, u
<1>4. u \o nl \in Seq(Byte) /\ Len(u \o nl) = Len(u) + 1
  <2>1. u \o nl \in Seq(Byte) /\ Len(u \o nl) = Len(u) + Len(nl)
    BY <1>1, <1>2, ConcatProperties, Zenon
  <2>2. QED
    BY <1>1, <2>1, Zenon
<1>5. s \o (x \o nl) = u \o nl
  <2>1. (s \o x) \o nl = s \o (x \o nl)
    BY <1>1, ConcatAssociative
  <2>2. QED
    BY <2>1, Zenon DEF u
<1>6. CASE ends
  BY <1>2, <1>4, <1>5, <1>6, Zenon DEF u, nl, Extends
<1>7. CASE ~ends
  BY <1>2, <1>3, <1>4, <1>7, Zenon DEF u, nl, Extends
<1>8. QED
  BY <1>6, <1>7

LEMMA HexPieceParts ==
  ASSUME NEW bytes \in Seq(Byte), NEW i \in 1 .. Len(bytes), NEW len \in Nat, NEW up \in BOOLEAN,
         NEW s \in Seq(Byte)
  PROVE  /\ Extends(s \o HexPiece(bytes, i, len, up), s, Hex!HexByte(bytes[i], up),
                    Hex!LineEnds(i, Len(bytes), len))
         /\ Hex!HexByte(bytes[i], up) \in Seq(Byte) /\ Len(Hex!HexByte(bytes[i], up)) = 2
<1> DEFINE x == Hex!HexByte(bytes[i], up)
           ends == Hex!LineEnds(i, Len(bytes), len)
<1>1. bytes[i] \in Byte
  BY ElementOfSeq
<1>2. x \in Seq(Byte) /\ Len(x) = 2
  BY <1>1, HexByteType
<1>3. ends \in BOOLEAN
  BY DEF Hex!LineEnds
<1>4. HexPiece(bytes, i, len, up) = x \o IF ends THEN <<LF>> ELSE <<>>
  BY DEF HexPiece
<1> HIDE DEF x, ends
<1>5. Extends(s \o HexPiece(bytes, i, len, up), s, x, ends)
  BY <1>2, <1>3, <1>4, Extension, Zenon
<1>6. QED
  BY <1>2, <1>5 DEF x, ends

(* Bytes are numbers. *)
LEMMA ByteText == ASSUME NEW s \in Seq(Byte) PROVE s \in Seq(Int)
<1>1. Byte \subseteq Int
  BY DEF Byte
<1>2. QED
  BY <1>1, SeqMonotonic

(* How far a text in hex is after i of n bytes: its open line holds the rest. *)
HexFar(s, i, n, len) ==
  /\ s \in Seq(Byte)
  /\ len = 0 => Len(s) = 2 * i
  /\ len # 0 /\ i = n => Len(s) <= 2 * n + HexRows(n, len) + 1 /\ Within(s, len, 0)
  /\ len # 0 /\ i # n => Len(s) = 2 * i + HexRows(i, len) /\ Within(s, len, HexRest(i, len))

LEMMA HexFurther ==
  ASSUME NEW bytes \in Seq(Byte), NEW i \in 1 .. Len(bytes), NEW len \in Nat, len % 2 = 0,
         NEW up \in BOOLEAN, NEW s, HexFar(s, i - 1, Len(bytes), len)
  PROVE  HexFar(s \o HexPiece(bytes, i, len, up), i, Len(bytes), len)
<1> DEFINE n == Len(bytes)
           t == s \o HexPiece(bytes, i, len, up)
           x == Hex!HexByte(bytes[i], up)
           u == s \o x
           r == HexRest(i - 1, len)
           d == HexRows(i - 1, len)
           r1 == HexRest(i, len)
           d1 == HexRows(i, len)
           ends == len > 0 /\ (r1 = 0 \/ i = n)
<1>1. n \in Nat /\ i \in Nat /\ 0 < i /\ i <= n
  BY LenProperties
<1>2. s \in Seq(Byte) /\ Len(s) \in Nat
  BY LenProperties DEF HexFar
<1>3. /\ x \in Seq(Byte) /\ Len(x) = 2 /\ u \in Seq(Byte) /\ Len(u) = Len(s) + 2
      /\ ends => t = u \o <<LF>>
      /\ ~ends => t = u
  <2>1. Hex!LineEnds(i, n, len) <=> ends
    BY DEF Hex!LineEnds, HexRest
  <2>2. /\ x \in Seq(Byte) /\ Len(x) = 2
        /\ Hex!LineEnds(i, n, len) => t = u \o <<LF>>
        /\ ~Hex!LineEnds(i, n, len) => t = u
        /\ u \in Seq(Byte) /\ Len(u) = Len(s) + 2
    <3>1. Extends(t, s, x, Hex!LineEnds(i, n, len)) /\ x \in Seq(Byte) /\ Len(x) = 2
      BY <1>2, HexPieceParts, Zenon
    <3>2. QED
      BY <3>1, Zenon DEF Extends
  <2>3. QED
    BY <2>1, <2>2
<1>4. ends <=> len > 0 /\ (r1 = 0 \/ i = n)
  OBVIOUS
<1> HIDE DEF n, t, x, u, ends, r, d, r1, d1
<1>5. /\ u \o <<LF>> \in Seq(Byte) /\ Len(u \o <<LF>>) = Len(s) + 3
  <2>1. LF \in Byte
    BY DEF LF, Byte
  <2>2. QED
    BY <1>2, <1>3, <2>1, AppendProperties, AppendIsConcat
<1>6. ASSUME len = 0 PROVE HexFar(t, i, n, len)
  <2>1. Len(s) = 2 * (i - 1)
    BY <1>6 DEF HexFar
  <2>2. t \in Seq(Byte) /\ Len(t) = 2 * i
    BY <1>1, <1>2, <1>3, <1>4, <1>6, <2>1
  <2>3. QED
    BY <1>6, <2>2 DEF HexFar
<1>7. ASSUME len # 0 PROVE HexFar(t, i, n, len)
  <2>1. Len(s) = 2 * (i - 1) + d /\ Within(s, len, r)
    BY <1>1, <1>7 DEF HexFar, n, d, r
  <2>2. /\ r \in 0 .. len /\ r + 2 <= len /\ d \in Nat /\ d1 \in Nat
        /\ r1 = 0 => d1 = d + 1
        /\ r1 # 0 => d1 = d /\ r1 = r + 2
    <3>1. len \in Nat \ {0} /\ i \in Nat \ {0}
      BY <1>1, <1>7
    <3>2. QED
      BY <3>1, EvenRest DEF r, d, r1, d1
  <2>3. s \in Seq(Int) /\ x \in Seq(Int) /\ u \in Seq(Int)
    BY <1>2, <1>3, ByteText
  <2>4. Within(u, len, r + 2)
    BY <1>3, <2>1, <2>2, <2>3, WithinMore DEF u
  <2>5. CASE ends
    <3>1. Within(t, len, 0)
      BY <1>3, <2>3, <2>4, <2>5, WithinEnd
    <3>2. t \in Seq(Byte) /\ Len(t) = 2 * i + d + 1
      <4>1. t = u \o <<LF>>
        BY <1>3, <2>5
      <4>2. t \in Seq(Byte) /\ Len(t) = Len(s) + 3
        BY <1>5, <4>1, Zenon
      <4>3. QED
        BY <1>1, <2>1, <2>2, <4>2
    <3>3. CASE i = n
      <4>1. Len(t) <= 2 * n + d1 + 1
        BY <1>1, <2>2, <3>2, <3>3
      <4>2. QED
        BY <1>7, <3>1, <3>2, <3>3, <4>1 DEF HexFar, d1
    <3>4. CASE i # n
      <4>1. r1 = 0
        BY <1>4, <2>5, <3>4
      <4>2. Len(t) = 2 * i + d1 /\ Within(t, len, r1)
        BY <1>1, <2>2, <3>1, <3>2, <4>1
      <4>3. QED
        BY <1>7, <3>2, <3>4, <4>2 DEF HexFar, d1, r1
    <3>5. QED
      BY <3>3, <3>4
  <2>6. CASE ~ends
    <3>1. t = u /\ r1 # 0 /\ i # n
      BY <1>3, <1>4, <1>7, <2>6
    <3>2. r1 = r + 2 /\ d1 = d
      BY <2>2, <3>1
    <3>3. Within(t, len, r1)
      BY <2>4, <3>1, <3>2
    <3>4. t \in Seq(Byte) /\ Len(t) = 2 * i + d1
      BY <1>1, <1>2, <1>3, <2>1, <2>2, <3>1, <3>2
    <3>5. QED
      BY <1>7, <3>1, <3>3, <3>4 DEF HexFar, d1, r1
  <2>7. QED
    BY <2>5, <2>6
<1>8. QED
  BY <1>6, <1>7 DEF t, n

LEMMA HexEncoded ==
  ASSUME NEW bytes \in Seq(Byte), bytes # <<>>, NEW len \in Nat, len % 2 = 0, NEW up \in BOOLEAN
  PROVE  HexFar(Hex!cc_hex_encode(bytes, len, up), Len(bytes), Len(bytes), len)
<1> DEFINE n == Len(bytes)
           P(i) == HexPiece(bytes, i, len, up)
<1>1. n \in Nat \ {0}
  BY EmptySeq, LenProperties
<1>2. PICK f \in [Nat -> Seq(Byte)] :
        /\ f[0] = <<>>
        /\ \A i \in 1 .. n : f[i] = f[i - 1] \o P(i)
        /\ Hex!cc_hex_encode(bytes, len, up) = f[n]
  BY HexSteps
<1> DEFINE E == {i \in Nat : i <= n => HexFar(f[i], i, n, len)}
<1>3. 0 \in E
  <2>1. len # 0 => HexRows(0, len) = 0 /\ HexRest(0, len) = 0
    BY SMT DEF HexRows, HexRest
  <2>2. <<>> \in Seq(Byte) /\ Len(<<>>) = 0
    BY EmptySeq
  <2>3. HexFar(<<>>, 0, n, len)
    BY <1>1, <2>1, <2>2, WithinStart DEF HexFar
  <2>4. QED
    BY <1>2, <2>3
<1>4. ASSUME NEW i \in Nat, i \in E PROVE i + 1 \in E
  <2>1. ASSUME i + 1 <= n PROVE HexFar(f[i + 1], i + 1, n, len)
    <3>1. i + 1 \in 1 .. n /\ i = (i + 1) - 1
      BY <1>1, <2>1
    <3>2. HexFar(f[(i + 1) - 1], (i + 1) - 1, n, len)
      BY <1>1, <1>4, <2>1
    <3>3. f[i + 1] = f[(i + 1) - 1] \o P(i + 1)
      BY <1>2, <3>1
    <3>4. HexFar(f[(i + 1) - 1] \o P(i + 1), i + 1, n, len)
      BY <3>1, <3>2, HexFurther, Zenon
    <3>5. QED
      BY <3>3, <3>4
  <2>2. QED
    BY <2>1
<1> HIDE DEF E
<1>5. \A i \in Nat : i \in E
  BY <1>3, <1>4, SetInduction
<1>6. HexFar(f[n], n, n, len)
  BY <1>1, <1>5 DEF E
<1>7. QED
  BY <1>2, <1>6

-----------------------------------------------------------------------------
(* Texts in base64. *)
LEMMA LetterByte ==
  ASSUME NEW v \in 0 .. 63, NEW url \in BOOLEAN PROVE B64!Letter(v, url) \in Byte
<1>1. B64!Letter(v, TRUE) \in Byte
  BY DEF B64!Letter, Byte
<1>2. B64!Letter(v, FALSE) \in Byte
  BY DEF B64!Letter, Byte
<1>3. QED
  BY <1>1, <1>2

(* The sextets of a group; bytes it lacks are zero. *)
GroupByte(g, i) == IF i <= Len(g) THEN g[i] ELSE 0
GroupNumber(g)  == (GroupByte(g, 1) * 256 + GroupByte(g, 2)) * 256 + GroupByte(g, 3)
Sextet(g) ==
  <<GroupNumber(g) \div 262144, (GroupNumber(g) \div 4096) % 64,
    (GroupNumber(g) \div 64) % 64, GroupNumber(g) % 64>>

LEMMA GroupForm ==
  ASSUME NEW g, NEW url
  PROVE  B64!Group(g, url) =
           [i \in 1 .. 4 |-> IF i <= Len(g) + 1 THEN B64!Letter(Sextet(g)[i], url) ELSE 61]
<1> DEFINE byte(i) == IF i <= Len(g) THEN g[i] ELSE 0
           v == (byte(1) * 256 + byte(2)) * 256 + byte(3)
           sextet == <<v \div 262144, (v \div 4096) % 64, (v \div 64) % 64, v % 64>>
           char(i) == IF i <= Len(g) + 1 THEN B64!Letter(sextet[i], url) ELSE 61
<1>1. B64!Group(g, url) = [i \in 1 .. 4 |-> char(i)]
  BY SMT DEF B64!Group
<1>2. sextet = Sextet(g)
  BY DEF Sextet, GroupNumber, GroupByte
<1> HIDE DEF sextet
<1>3. QED
  BY <1>1, <1>2

(* Six bits each. *)
LEMMA SixBits ==
  ASSUME NEW a \in Byte, NEW b \in Byte, NEW c \in Byte, NEW v, v = (a * 256 + b) * 256 + c
  PROVE  /\ v \div 262144 \in 0 .. 63 /\ (v \div 4096) % 64 \in 0 .. 63
         /\ (v \div 64) % 64 \in 0 .. 63 /\ v % 64 \in 0 .. 63
<1>1. v \in Int /\ 0 <= v /\ v < 64 * 262144
  BY SMT DEF Byte
<1>2. v \div 262144 \in 0 .. 63
  BY <1>1, SMT
<1>3. v \div 4096 \in Int /\ v \div 64 \in Int
  BY <1>1, SMT
<1>4. QED
  BY <1>1, <1>2, <1>3, SMT

LEMMA GroupBytes ==
  ASSUME NEW g \in Seq(Byte) PROVE \A i \in 1 .. 3 : GroupByte(g, i) \in Byte
<1>1. Len(g) \in Nat /\ \A i \in 1 .. Len(g) : g[i] \in Byte
  BY LenProperties, ElementOfSeq
<1>2. 0 \in Byte
  BY DEF Byte
<1>3. ASSUME NEW i \in 1 .. 3 PROVE GroupByte(g, i) \in Byte
  <2>1. CASE i <= Len(g)
    BY <1>1, <2>1 DEF GroupByte
  <2>2. CASE ~(i <= Len(g))
    BY <1>2, <2>2 DEF GroupByte
  <2>3. QED
    BY <2>1, <2>2
<1>4. QED
  BY <1>3

LEMMA SextetRange ==
  ASSUME NEW g \in Seq(Byte) PROVE \A i \in 1 .. 4 : Sextet(g)[i] \in 0 .. 63
<1> DEFINE v == GroupNumber(g)
<1>1. /\ Sextet(g)[1] = v \div 262144 /\ Sextet(g)[2] = (v \div 4096) % 64
      /\ Sextet(g)[3] = (v \div 64) % 64 /\ Sextet(g)[4] = v % 64
  BY SMT DEF Sextet
<1>2. /\ GroupByte(g, 1) \in Byte /\ GroupByte(g, 2) \in Byte /\ GroupByte(g, 3) \in Byte
      /\ v = (GroupByte(g, 1) * 256 + GroupByte(g, 2)) * 256 + GroupByte(g, 3)
  BY GroupBytes DEF GroupNumber
<1> HIDE DEF v
<1>3. /\ v \div 262144 \in 0 .. 63 /\ (v \div 4096) % 64 \in 0 .. 63
      /\ (v \div 64) % 64 \in 0 .. 63 /\ v % 64 \in 0 .. 63
  BY <1>2, SixBits, SMT
<1>4. /\ Sextet(g)[1] \in 0 .. 63 /\ Sextet(g)[2] \in 0 .. 63
      /\ Sextet(g)[3] \in 0 .. 63 /\ Sextet(g)[4] \in 0 .. 63
  BY <1>1, <1>3, SMT
<1>5. \A i \in 1 .. 4 : i = 1 \/ i = 2 \/ i = 3 \/ i = 4
  OBVIOUS
<1>6. QED
  BY <1>4, <1>5, Zenon

(* So a group is four bytes. *)
LEMMA GroupType ==
  ASSUME NEW g \in Seq(Byte), NEW url \in BOOLEAN
  PROVE  B64!Group(g, url) \in Seq(Byte) /\ Len(B64!Group(g, url)) = 4
<1> DEFINE L(i) == B64!Letter(Sextet(g)[i], url)
           C(i) == IF i <= Len(g) + 1 THEN L(i) ELSE 61
<1>1. \A i \in 1 .. 4 : L(i) \in Byte
  BY SextetRange, LetterByte, Zenon
<1>2. B64!Group(g, url) = [i \in 1 .. 4 |-> C(i)]
  BY GroupForm, Zenon
<1> HIDE DEF L
<1>3. \A i \in 1 .. 4 : C(i) \in Byte
  <2>1. 61 \in Byte
    BY DEF Byte
  <2>2. QED
    BY <1>1, <2>1
<1> HIDE DEF C
<1>4. [i \in 1 .. 4 |-> C(i)] \in Seq(Byte) /\ Len([i \in 1 .. 4 |-> C(i)]) = 4
  BY <1>3
<1>5. QED
  BY <1>2, <1>4, Zenon

(* What is written for the g-th three bytes. *)
Base64Piece(bytes, g, len, url) ==
  B64!Group(SubSeq(bytes, 3 * g - 2, 3 * g), url) \o
    IF len > 0 /\ g % (len \div 4) = 0 THEN <<LF>> ELSE <<>>

(* What is written for the bytes after them, and the newline at the end. *)
Base64Tail(bytes, url) ==
  LET rest == SubSeq(bytes, 3 * (Len(bytes) \div 3) + 1, Len(bytes))
  IN  IF rest = <<>> THEN <<>> ELSE B64!Group(rest, url)
Base64End(bytes, len) ==
  IF len > 0 /\ (Len(bytes) \div 3) % (len \div 4) # 0 THEN <<LF>> ELSE <<>>

LEMMA Base64PieceType ==
  ASSUME NEW bytes \in Seq(Byte), NEW g \in 1 .. Len(bytes) \div 3, NEW len \in Nat,
         NEW url \in BOOLEAN
  PROVE  /\ SubSeq(bytes, 3 * g - 2, 3 * g) \in Seq(Byte)
         /\ Base64Piece(bytes, g, len, url) \in Seq(Byte)
<1> DEFINE b == SubSeq(bytes, 3 * g - 2, 3 * g)
           x == B64!Group(b, url)
           e == IF len > 0 /\ g % (len \div 4) = 0 THEN <<LF>> ELSE <<>>
<1>1. Len(bytes) \in Nat /\ 1 <= 3 * g - 2 /\ 3 * g <= Len(bytes) /\ 3 * g \in Int
  BY LenProperties
<1>2. b \in Seq(Byte)
  <2>1. \A i \in 3 * g - 2 .. 3 * g : bytes[i] \in Byte
    BY <1>1, ElementOfSeq
  <2>2. QED
    BY <1>1, <2>1, SubSeqProperties
<1> HIDE DEF b
<1>3. x \in Seq(Byte)
  BY <1>2, GroupType
<1>4. e \in Seq(Byte)
  <2>1. <<LF>> \in Seq(Byte) /\ <<>> \in Seq(Byte)
    BY DEF LF, Byte
  <2>2. QED
    BY <2>1, Zenon
<1> HIDE DEF x, e
<1>5. x \o e \in Seq(Byte)
  BY <1>3, <1>4, ConcatProperties
<1>6. QED
  BY <1>2, <1>5 DEF Base64Piece, b, x, e

LEMMA Base64Steps ==
  ASSUME NEW bytes \in Seq(Byte), bytes # <<>>, NEW len \in Nat, len % 4 = 0, NEW url \in BOOLEAN
  PROVE  \E f \in [Nat -> Seq(Byte)] :
           /\ f[0] = <<>>
           /\ \A g \in 1 .. Len(bytes) \div 3 : f[g] = f[g - 1] \o Base64Piece(bytes, g, len, url)
           /\ B64!cc_base64_encode(bytes, len, url) =
                (f[Len(bytes) \div 3] \o Base64Tail(bytes, url)) \o Base64End(bytes, len)
<1> DEFINE full == Len(bytes) \div 3
           P(g) == Base64Piece(bytes, g, len, url)
           ss == [g \in 1 .. full |-> P(g)]
<1>1. full \in Nat
  BY LenProperties
<1>2. \A g \in 1 .. full : P(g) \in Seq(Byte)
  BY Base64PieceType
<1>3. B64!cc_base64_encode(bytes, len, url) =
        (FlattenSeq(ss) \o Base64Tail(bytes, url)) \o Base64End(bytes, len)
  <2>1. B64!cc_base64_encode(bytes, len, url) =
          (B64!FlattenSeq(ss) \o Base64Tail(bytes, url)) \o Base64End(bytes, len)
    <3> DEFINE X == (B64!FlattenSeq(ss) \o Base64Tail(bytes, url)) \o Base64End(bytes, len)
    <3>1. B64!cc_base64_encode(bytes, len, url) =
            IF bytes = <<>> \/ len % 4 # 0 THEN B64!Failed ELSE X
      BY Zenon DEF B64!cc_base64_encode, Base64Piece, Base64Tail, Base64End, B64!Newline, LF
    <3> HIDE DEF X
    <3>2. B64!cc_base64_encode(bytes, len, url) = X
      BY <3>1
    <3>3. QED
      BY <3>2 DEF X
  <2>2. B64!FlattenSeq(ss) = FlattenSeq(ss)
    BY SameFlatten
  <2>3. QED
    BY <2>1, <2>2, Zenon
<1> HIDE DEF P, full
<1>4. ss \in Seq(Seq(Byte)) /\ Len(ss) = full /\ \A g \in 1 .. full : ss[g] = P(g)
  BY <1>1, <1>2
<1> HIDE DEF ss
<1>5. PICK f \in [Nat -> Seq(Byte)] :
        /\ f[0] = <<>> /\ \A g \in 1 .. Len(ss) : f[g] = f[g - 1] \o ss[g]
        /\ FlattenSeq(ss) = f[Len(ss)]
  BY <1>4, FlattenSteps
<1>6. QED
  <2>1. \A g \in 1 .. full : f[g] = f[g - 1] \o P(g)
    BY <1>4, <1>5
  <2>2. FlattenSeq(ss) = f[full]
    BY <1>4, <1>5
  <2>3. QED
    BY <1>3, <1>5, <2>1, <2>2, Zenon DEF P, full

(* The lines that g groups fill, and the chars of the next. *)
GroupRows(g, len) == g \div (len \div 4)
GroupRest(g, len) == 4 * (g % (len \div 4))

LEMMA FourRest ==
  ASSUME NEW len \in Nat \ {0}, len % 4 = 0, NEW g \in Nat \ {0}
  PROVE  /\ GroupRest(g - 1, len) \in 0 .. len /\ GroupRest(g - 1, len) + 4 <= len
         /\ GroupRows(g - 1, len) \in Nat /\ GroupRows(g, len) \in Nat
         /\ GroupRest(g, len) = 0 => GroupRows(g, len) = GroupRows(g - 1, len) + 1
         /\ GroupRest(g, len) # 0 => /\ GroupRows(g, len) = GroupRows(g - 1, len)
                                     /\ GroupRest(g, len) = GroupRest(g - 1, len) + 4
<1> DEFINE j == g - 1
           h == len \div 4
           r == GroupRest(j, len)
           d == GroupRows(j, len)
           s == GroupRest(g, len)
           e == GroupRows(g, len)
<1>0. j \in Nat /\ g = j + 1
  OBVIOUS
<1> HIDE DEF j
<1>d. r = 4 * (j % h) /\ d = j \div h /\ s = 4 * ((j + 1) % h) /\ e = (j + 1) \div h
  BY <1>0 DEF GroupRest, GroupRows
<1> HIDE DEF r, d, s, e
<1>1. h \in Nat \ {0} /\ len = 4 * h
  BY SMT
<1> HIDE DEF h
<1> DEFINE q == j \div h
           t == j % h
<1>2. q \in Nat /\ t \in 0 .. h - 1 /\ j = h * q + t
  BY <1>0, <1>1, SMT
<1>3. r = 4 * t /\ d = q
  BY <1>d
<1> HIDE DEF q, t
<1> DEFINE Goal == /\ r \in 0 .. len /\ r + 4 <= len /\ d \in Nat /\ e \in Nat
                   /\ s = 0 => e = d + 1
                   /\ s # 0 => e = d /\ s = r + 4
<1>5. ASSUME t + 1 < h PROVE Goal
  <2>1. j + 1 = h * q + (t + 1) /\ t + 1 \in 1 .. h - 1
    BY <1>0, <1>1, <1>2, <1>5, SMT
  <2>2. s = 4 * (t + 1) /\ e = q
    BY <1>1, <1>2, <1>d, <2>1, SMT
  <2>3. QED
    BY <1>1, <1>2, <1>3, <1>5, <2>1, <2>2, SMT
<1>6. ASSUME t + 1 = h PROVE Goal
  <2>1. j + 1 = h * (q + 1)
    BY <1>0, <1>1, <1>2, <1>6, SMT
  <2>2. s = 0 /\ e = q + 1
    BY <1>1, <1>2, <1>d, <2>1, SMT
  <2>3. QED
    BY <1>1, <1>2, <1>3, <1>6, <2>1, <2>2, SMT
<1>7. Goal
  BY <1>1, <1>2, <1>5, <1>6, SMT
<1>8. QED
  BY <1>7 DEF r, d, s, e, j

(* How far a text in base64 is after g groups of three bytes. *)
Base64Far(s, g, len) ==
  /\ s \in Seq(Byte)
  /\ len = 0 => Len(s) = 4 * g
  /\ len # 0 => Len(s) = 4 * g + GroupRows(g, len) /\ Within(s, len, GroupRest(g, len))

LEMMA Base64Further ==
  ASSUME NEW bytes \in Seq(Byte), NEW g \in 1 .. Len(bytes) \div 3, NEW len \in Nat, len % 4 = 0,
         NEW url \in BOOLEAN, NEW s, Base64Far(s, g - 1, len)
  PROVE  Base64Far(s \o Base64Piece(bytes, g, len, url), g, len)
<1> DEFINE b == SubSeq(bytes, 3 * g - 2, 3 * g)
           t == s \o Base64Piece(bytes, g, len, url)
           x == B64!Group(b, url)
           u == s \o x
           r == GroupRest(g - 1, len)
           d == GroupRows(g - 1, len)
           r1 == GroupRest(g, len)
           d1 == GroupRows(g, len)
           ends == len > 0 /\ g % (len \div 4) = 0
<1>1. g \in Nat /\ 0 < g
  BY LenProperties
<1>2. s \in Seq(Byte) /\ Len(s) \in Nat
  BY LenProperties DEF Base64Far
<1>3. x \in Seq(Byte) /\ Len(x) = 4
  <2>1. b \in Seq(Byte)
    BY Base64PieceType, Zenon
  <2> HIDE DEF b
  <2>2. QED
    BY <2>1, GroupType, Zenon
<1>4. Extends(t, s, x, ends)
  <2>1. ends \in BOOLEAN
    OBVIOUS
  <2>2. Base64Piece(bytes, g, len, url) = x \o IF ends THEN <<LF>> ELSE <<>>
    BY Zenon DEF Base64Piece
  <2> HIDE DEF x, ends
  <2>3. QED
    BY <1>2, <1>3, <2>1, <2>2, Extension, Zenon
<1>5. ends <=> len # 0 /\ r1 = 0
  <2>1. len # 0 => (g % (len \div 4) \in Nat)
    BY <1>1, SMT
  <2>2. QED
    BY <2>1 DEF GroupRest
<1> HIDE DEF b, t, x, u, ends, r, d, r1, d1
<1>6. /\ u \in Seq(Byte) /\ Len(u) = Len(s) + 4
      /\ u \o <<LF>> \in Seq(Byte) /\ Len(u \o <<LF>>) = Len(s) + 5
      /\ ends => t = u \o <<LF>>
      /\ ~ends => t = u
  <2>1. /\ u \in Seq(Byte) /\ Len(u) = Len(s) + Len(x)
        /\ u \o <<LF>> \in Seq(Byte) /\ Len(u \o <<LF>>) = Len(s) + Len(x) + 1
        /\ ends => t = u \o <<LF>>
        /\ ~ends => t = u
    BY <1>4, Zenon DEF Extends, u
  <2>2. Len(s) + 4 + 1 = Len(s) + 5
    BY <1>2
  <2>3. QED
    BY <1>3, <2>1, <2>2, Zenon
<1>7. ASSUME len = 0 PROVE Base64Far(t, g, len)
  <2>1. Len(s) = 4 * (g - 1)
    BY <1>7 DEF Base64Far
  <2>2. t = u
    BY <1>5, <1>6, <1>7
  <2>3. Len(u) = 4 * g
    BY <1>1, <1>6, <2>1
  <2>4. QED
    BY <1>6, <1>7, <2>2, <2>3 DEF Base64Far
<1>8. ASSUME len # 0 PROVE Base64Far(t, g, len)
  <2>1. Len(s) = 4 * (g - 1) + d /\ Within(s, len, r)
    BY <1>8 DEF Base64Far, d, r
  <2>2. /\ r \in 0 .. len /\ r + 4 <= len /\ d \in Nat /\ d1 \in Nat
        /\ r1 = 0 => d1 = d + 1
        /\ r1 # 0 => d1 = d /\ r1 = r + 4
    <3>1. len \in Nat \ {0} /\ g \in Nat \ {0}
      BY <1>1, <1>8
    <3>2. QED
      BY <3>1, FourRest DEF r, d, r1, d1
  <2>3. s \in Seq(Int) /\ x \in Seq(Int) /\ u \in Seq(Int)
    BY <1>2, <1>3, <1>6, ByteText
  <2>4. Within(u, len, r + 4)
    BY <1>3, <2>1, <2>2, <2>3, WithinMore DEF u
  <2>5. CASE r1 = 0
    <3>1. t = u \o <<LF>>
      BY <1>5, <1>6, <1>8, <2>5
    <3>2. Within(t, len, r1)
      BY <2>3, <2>4, <2>5, <3>1, WithinEnd
    <3>3. t \in Seq(Byte) /\ Len(t) = Len(s) + 5
      BY <1>6, <3>1, Zenon
    <3>4. Len(t) = 4 * g + d1
      BY <1>1, <2>1, <2>2, <2>5, <3>3
    <3>5. QED
      BY <1>8, <3>2, <3>3, <3>4 DEF Base64Far, d1, r1
  <2>6. CASE r1 # 0
    <3>1. t = u
      BY <1>5, <1>6, <2>6
    <3>2. Within(t, len, r1)
      BY <2>2, <2>4, <2>6, <3>1
    <3>3. Len(t) = 4 * g + d1
      BY <1>1, <1>2, <1>6, <2>1, <2>2, <2>6, <3>1
    <3>4. QED
      BY <1>6, <1>8, <3>1, <3>2, <3>3 DEF Base64Far, d1, r1
  <2>7. QED
    BY <2>5, <2>6
<1>9. QED
  BY <1>7, <1>8 DEF t

(* What follows the full groups is a group or nothing. *)
LEMMA Base64TailType ==
  ASSUME NEW bytes \in Seq(Byte), NEW url \in BOOLEAN
  PROVE  /\ Base64Tail(bytes, url) \in Seq(Byte)
         /\ Len(Base64Tail(bytes, url)) =
              4 * ((Len(bytes) + 2) \div 3) - 4 * (Len(bytes) \div 3)
<1> DEFINE n == Len(bytes)
           first == 3 * (n \div 3) + 1
           rest == SubSeq(bytes, first, n)
           x == B64!Group(rest, url)
<1>1. n \in Nat /\ n \div 3 \in Nat /\ first \in 1 .. n + 1
  BY LenProperties
<1>2. n % 3 = 0 => n < first /\ (n + 2) \div 3 = n \div 3
  BY <1>1
<1>3. n % 3 # 0 => first <= n /\ (n + 2) \div 3 = n \div 3 + 1
  BY <1>1
<1>4. rest \in Seq(Byte) /\ (n < first => rest = <<>>) /\ (first <= n => Len(rest) = n - first + 1)
  <2>1. \A i \in first .. n : bytes[i] \in Byte
    BY <1>1, ElementOfSeq
  <2> HIDE DEF n, first
  <2>2. QED
    BY <1>1, <2>1, SubSeqProperties
<1>5. x \in Seq(Byte) /\ Len(x) = 4
  BY <1>4, GroupType
<1>6. Base64Tail(bytes, url) = IF rest = <<>> THEN <<>> ELSE x
  BY DEF Base64Tail
<1> HIDE DEF rest, x, first
<1>7. CASE n % 3 = 0
  <2>1. Base64Tail(bytes, url) = <<>> /\ <<>> \in Seq(Byte) /\ Len(<<>>) = 0
    BY <1>2, <1>4, <1>6, <1>7, EmptySeq
  <2>2. QED
    BY <1>1, <1>2, <1>7, <2>1
<1>8. CASE n % 3 # 0
  <2>1. rest # <<>>
    BY <1>1, <1>3, <1>4, <1>8, EmptySeq
  <2>2. Base64Tail(bytes, url) = x
    BY <1>6, <2>1
  <2>3. 4 * ((n + 2) \div 3) - 4 * (n \div 3) = 4
    BY <1>1, <1>3, <1>8
  <2>4. QED
    BY <1>5, <2>2, <2>3, Zenon
<1>9. QED
  BY <1>7, <1>8

LEMMA FourTimes == ASSUME NEW m \in Nat, NEW r, r = 4 * m PROVE m # 0 <=> r # 0
  OBVIOUS

LEMMA Joined ==
  ASSUME NEW s \in Seq(Byte), NEW x \in Seq(Byte)
  PROVE  /\ s \o x \in Seq(Byte) /\ Len(s \o x) = Len(s) + Len(x)
         /\ s \o <<LF>> \in Seq(Byte) /\ Len(s \o <<LF>>) = Len(s) + 1
         /\ s \o <<>> = s
<1>1. s \o x \in Seq(Byte) /\ Len(s \o x) = Len(s) + Len(x)
  BY ConcatProperties
<1>2. LF \in Byte
  BY DEF LF, Byte
<1>3. s \o <<LF>> \in Seq(Byte) /\ Len(s \o <<LF>>) = Len(s) + 1
  BY <1>2, AppendProperties, AppendIsConcat
<1>4. s \o <<>> = s
  BY ConcatEmptySeq
<1>5. QED
  BY <1>1, <1>3, <1>4, Zenon

(* More groups fill no fewer lines. *)
RowsGrow(g, q, h) ==
  g \div h \in Nat /\ q \div h \in Nat /\ g % h \in 0 .. h - 1 /\ g \div h <= q \div h

LEMMA MoreRows ==
  ASSUME NEW g \in Nat, NEW q \in Nat, g <= q, NEW h \in Nat \ {0} PROVE RowsGrow(g, q, h)
<1> DEFINE a == g \div h
           b == q \div h
           c == g % h
           e == q % h
<1>1. /\ a \in Nat /\ c \in 0 .. h - 1 /\ g = h * a + c
      /\ b \in Nat /\ e \in 0 .. h - 1 /\ q = h * b + e
  BY SMT
<1> HIDE DEF a, b, c, e
<1>2. a <= b
  <2>1. SUFFICES ASSUME a >= b + 1 PROVE FALSE
    BY <1>1
  <2>2. h * a >= h * (b + 1)
    BY <1>1, <2>1, SMT
  <2>3. h * (b + 1) = h * b + h
    BY <1>1, SMT
  <2>4. QED
    BY <1>1, <2>2, <2>3, SMT
<1>3. QED
  BY <1>1, <1>2 DEF a, b, c, e, RowsGrow

(* The whole text in base64, of q groups: its lines and its length. *)
LEMMA Base64Encoded ==
  ASSUME NEW bytes \in Seq(Byte), bytes # <<>>, NEW len \in Nat, len % 4 = 0,
         NEW url \in BOOLEAN, NEW q, q = (Len(bytes) + 2) \div 3
  PROVE  LET s == B64!cc_base64_encode(bytes, len, url)
         IN  /\ s \in Seq(Byte)
             /\ len = 0 => Len(s) = 4 * q
             /\ len # 0 => /\ Len(s) <= 4 * q + GroupRows(q, len) + 1
                           /\ \E k : Within(s, len, k)
<1> DEFINE s == B64!cc_base64_encode(bytes, len, url)
           n == Len(bytes)
           full == n \div 3
           tail == Base64Tail(bytes, url)
           end == Base64End(bytes, len)
           P(g) == Base64Piece(bytes, g, len, url)
<1>1. n \in Nat /\ full \in Nat /\ q \in Nat /\ full <= q /\ q <= full + 1
  BY LenProperties
<1>2. PICK f \in [Nat -> Seq(Byte)] :
        /\ f[0] = <<>>
        /\ \A g \in 1 .. full : f[g] = f[g - 1] \o P(g)
        /\ s = (f[full] \o tail) \o end
  BY Base64Steps
<1> DEFINE E == {g \in Nat : g <= full => Base64Far(f[g], g, len)}
<1>3. 0 \in E
  <2>1. len # 0 => GroupRows(0, len) = 0 /\ GroupRest(0, len) = 0
    <3>1. len # 0 => len \div 4 \in Nat \ {0}
      BY SMT
    <3>2. \A h \in Nat \ {0} : 0 \div h = 0 /\ 0 % h = 0
      BY SMT
    <3>3. QED
      BY <3>1, <3>2 DEF GroupRows, GroupRest
  <2>2. <<>> \in Seq(Byte) /\ Len(<<>>) = 0
    BY EmptySeq
  <2>3. Base64Far(<<>>, 0, len)
    BY <2>1, <2>2, WithinStart DEF Base64Far
  <2>4. QED
    BY <1>2, <2>3
<1>4. ASSUME NEW g \in Nat, g \in E PROVE g + 1 \in E
  <2>1. ASSUME g + 1 <= full PROVE Base64Far(f[g + 1], g + 1, len)
    <3>1. g + 1 \in 1 .. full /\ g = (g + 1) - 1
      BY <1>1, <2>1
    <3>2. Base64Far(f[(g + 1) - 1], (g + 1) - 1, len)
      BY <1>1, <1>4, <2>1
    <3>3. f[g + 1] = f[(g + 1) - 1] \o P(g + 1)
      BY <1>2, <3>1
    <3>4. Base64Far(f[(g + 1) - 1] \o P(g + 1), g + 1, len)
      BY <3>1, <3>2, Base64Further, Zenon
    <3>5. QED
      BY <3>3, <3>4
  <2>2. QED
    BY <2>1
<1> HIDE DEF E
<1>5. \A g \in Nat : g \in E
  BY <1>3, <1>4, SetInduction
<1> DEFINE t == f[full]
           u == t \o tail
           d == GroupRows(full, len)
           r == GroupRest(full, len)
           rows == GroupRows(q, len)
<1>6. Base64Far(t, full, len)
  BY <1>1, <1>5 DEF E
<1>7. tail \in Seq(Byte) /\ Len(tail) = 4 * q - 4 * full
  BY Base64TailType
<1>8. s = u \o end
  BY <1>2
<1>9. end = IF len # 0 /\ r # 0 THEN <<LF>> ELSE <<>>
  <2> DEFINE m == full % (len \div 4)
  <2>1. len # 0 => m \in Nat
    BY <1>1, SMT
  <2>2. r = 4 * m
    BY DEF GroupRest
  <2>3. end = IF len > 0 /\ m # 0 THEN <<LF>> ELSE <<>>
    BY DEF Base64End
  <2> HIDE DEF m, r
  <2>4. len > 0 /\ m # 0 <=> len # 0 /\ r # 0
    <3>1. ASSUME len # 0 PROVE m # 0 <=> r # 0
      BY <2>1, <2>2, <3>1, FourTimes, Zenon
    <3>2. len > 0 <=> len # 0
      OBVIOUS
    <3>3. QED
      BY <3>1, <3>2, Zenon
  <2> HIDE DEF end
  <2>5. QED
    BY <2>3, <2>4
<1>10. t \in Seq(Byte) /\ Len(t) \in Nat
  BY <1>6, LenProperties DEF Base64Far
<1> HIDE DEF s, n, full, tail, end, t, u, P, d, r, rows
<1>11. u \in Seq(Byte) /\ Len(u) = Len(t) + (4 * q - 4 * full) /\ u \o <<>> = u
  <2>1. u \in Seq(Byte) /\ Len(u) = Len(t) + Len(tail)
    BY <1>7, <1>10, Joined, Zenon DEF u
  <2>2. u \o <<>> = u
    BY <2>1, Joined, Zenon
  <2>3. QED
    BY <1>7, <2>1, <2>2, Zenon
<1>12. u \o <<LF>> \in Seq(Byte) /\ Len(u \o <<LF>>) = Len(u) + 1
  BY <1>11, Joined, Zenon
<1> DEFINE Goal == /\ s \in Seq(Byte)
                   /\ len = 0 => Len(s) = 4 * q
                   /\ len # 0 => Len(s) <= 4 * q + rows + 1 /\ \E k : Within(s, len, k)
<1>13. ASSUME len = 0 PROVE Goal
  <2>1. s = u
    BY <1>8, <1>9, <1>11, <1>13
  <2>2. Len(t) = 4 * full
    BY <1>6, <1>13 DEF Base64Far
  <2>3. Len(u) = 4 * q
    BY <1>1, <1>11, <2>2
  <2>4. QED
    BY <1>11, <1>13, <2>1, <2>3
<1>14. ASSUME len # 0 PROVE Goal
  <2>1. Len(t) = 4 * full + d /\ Within(t, len, r)
    BY <1>6, <1>14 DEF Base64Far, d, r
  <2>2. d \in Nat /\ rows \in Nat /\ d <= rows /\ r \in Nat /\ r + 4 <= len
    <3>1. PICK h \in Nat \ {0} : h = len \div 4 /\ len = 4 * h
      BY <1>14, SMT
    <3>2. d = full \div h /\ rows = q \div h /\ r = 4 * (full % h)
      BY <3>1 DEF d, rows, r, GroupRows, GroupRest
    <3>3. /\ full \div h \in Nat /\ q \div h \in Nat /\ full % h \in 0 .. h - 1
          /\ full \div h <= q \div h
      <4>1. RowsGrow(full, q, h)
        BY <1>1, MoreRows
      <4>2. QED
        BY <4>1, Zenon DEF RowsGrow
    <3> DEFINE m == full % h
    <3>4. m \in 0 .. h - 1 /\ r = 4 * m /\ d \in Nat /\ rows \in Nat /\ d <= rows
      BY <3>2, <3>3, Zenon
    <3> HIDE DEF m
    <3>5. QED
      BY <3>1, <3>4
  <2>3. t \in Seq(Int) /\ tail \in Seq(Int) /\ u \in Seq(Int)
    BY <1>7, <1>10, <1>11, ByteText
  <2>4. Within(u, len, r + Len(tail))
    <3>1. r + Len(tail) <= len
      BY <1>1, <1>7, <2>2
    <3>2. QED
      BY <2>1, <2>3, <3>1, WithinMore DEF u
  <2>5. CASE r # 0
    <3>1. s = u \o <<LF>>
      BY <1>8, <1>9, <1>14, <2>5
    <3>2. Within(s, len, 0)
      BY <2>3, <2>4, <3>1, WithinEnd
    <3>3. s \in Seq(Byte) /\ Len(s) = Len(u) + 1
      BY <1>12, <3>1, Zenon
    <3>4. Len(u) <= 4 * q + rows
      <4>1. Len(u) = Len(t) + (4 * q - 4 * full) /\ Len(t) = 4 * full + d
        BY <1>11, <2>1
      <4>2. QED
        BY <1>1, <2>2, <4>1
    <3>5. Len(u) \in Nat
      BY <1>11, LenProperties
    <3>6. Len(s) <= 4 * q + rows + 1
      BY <1>1, <2>2, <3>3, <3>4, <3>5
    <3>7. QED
      BY <1>14, <3>2, <3>3, <3>6
  <2>6. CASE r = 0
    <3>1. s = u
      BY <1>8, <1>9, <1>11, <2>6
    <3>2. Len(u) <= 4 * q + rows + 1
      BY <1>1, <1>11, <2>1, <2>2
    <3>3. QED
      BY <1>11, <1>14, <2>4, <3>1, <3>2
  <2>7. QED
    BY <2>5, <2>6
<1>15. QED
  BY <1>13, <1>14, Zenon DEF s, rows

-----------------------------------------------------------------------------
(* What is written in hex or base64 keeps to the line length, and to the     *)
(* memory that was allocated for it before.                                  *)
THEOREM CodecsFit == Spec => []LinesFit
<1>1. Typed => LinesFit
  <2> SUFFICES ASSUME str \in Seq(Byte), TriedAs({"hex", "bytes"}), NEW len \in LineLens
               PROVE  LET h    == Hex!cc_hex_encode(str, len, FALSE)
                          b    == B64!cc_base64_encode(str, len, FALSE)
                          size == ((Len(str) + 2) \div 3) * 4
                          Need(n) == IF len > 0 THEN n + 1 + (n \div len) + 1 ELSE n + 1
                      IN  /\ len % 2 = 0 => /\ Len(h) + 1 <= Need(2 * Len(str))
                                            /\ len > 0 => \A n \in LineLengths(h) : n <= len
                          /\ len % 4 = 0 => /\ Len(b) + 1 <= Need(size)
                                            /\ len > 0 => \A n \in LineLengths(b) : n <= len
    BY Zenon DEF LinesFit, Typed
  <2> DEFINE h == Hex!cc_hex_encode(str, len, FALSE)
             b == B64!cc_base64_encode(str, len, FALSE)
             n == Len(str)
             q == (n + 2) \div 3
             size == q * 4
             Need(m) == IF len > 0 THEN m + 1 + (m \div len) + 1 ELSE m + 1
  <2>1. len \in Nat /\ str # <<>> /\ n \in Nat /\ q \in Nat
    <3>1. len \in Nat
      BY LineAssumption
    <3>2. str # <<>>
      BY DEF TriedAs
    <3>3. n \in Nat
      BY LenProperties
    <3> HIDE DEF n
    <3>4. QED
      BY <3>1, <3>2, <3>3
  <2> HIDE DEF h, b, n, q
  <2>2. ASSUME len % 2 = 0
        PROVE  Len(h) + 1 <= Need(2 * n) /\ (len > 0 => \A m \in LineLengths(h) : m <= len)
    <3>1. HexFar(h, n, n, len)
      BY <2>1, <2>2, HexEncoded DEF h, n
    <3>2. CASE len = 0
      <4>1. Len(h) = 2 * n
        BY <3>1, <3>2 DEF HexFar
      <4>2. QED
        BY <2>1, <3>2, <4>1
    <3>3. CASE len # 0
      <4>1. h \in Seq(Int) /\ Len(h) \in Nat /\ Within(h, len, 0) /\ Len(h) <= 2 * n + (2 * n) \div len + 1
        BY <3>1, <3>3, ByteText, LenProperties DEF HexFar, HexRows
      <4>2. (2 * n) \div len \in Nat
        BY <2>1, <3>3, SMT
      <4>3. Len(h) + 1 <= Need(2 * n)
        <5> DEFINE rows == (2 * n) \div len
        <5>1. Need(2 * n) = 2 * n + 1 + rows + 1
          BY <2>1, <3>3
        <5>2. rows \in Nat /\ Len(h) <= 2 * n + rows + 1
          BY <4>1, <4>2
        <5> HIDE DEF Need, rows
        <5>3. QED
          BY <2>1, <4>1, <5>1, <5>2
      <4>4. QED
        BY <2>1, <4>1, <4>3, WithinLines
    <3>4. QED
      BY <3>2, <3>3
  <2>3. ASSUME len % 4 = 0
        PROVE  Len(b) + 1 <= Need(size) /\ (len > 0 => \A m \in LineLengths(b) : m <= len)
    <3>1. /\ b \in Seq(Byte)
          /\ len = 0 => Len(b) = 4 * q
          /\ len # 0 => Len(b) <= 4 * q + GroupRows(q, len) + 1 /\ \E k : Within(b, len, k)
      BY <2>1, <2>3, Base64Encoded, Zenon DEF b, q, n
    <3>2. CASE len = 0
      BY <2>1, <3>1, <3>2
    <3>3. CASE len # 0
      <4>1. b \in Seq(Int) /\ Len(b) \in Nat
        BY <3>1, ByteText, LenProperties
      <4>2. GroupRows(q, len) = size \div len /\ size \div len \in Nat
        <5>1. PICK p \in Nat \ {0} : p = len \div 4 /\ len = 4 * p
          BY <2>1, <2>3, <3>3, SMT
        <5>2. q \div p = (4 * q) \div (4 * p) /\ q \div p \in Nat
          BY <2>1, SMT
        <5>3. QED
          BY <2>1, <5>1, <5>2 DEF GroupRows
      <4>3. Len(b) + 1 <= Need(size)
        <5> DEFINE rows == size \div len
        <5>1. Need(size) = size + 1 + rows + 1
          BY <2>1, <3>3
        <5>2. rows \in Nat /\ Len(b) <= 4 * q + rows + 1
          BY <3>1, <3>3, <4>2
        <5> HIDE DEF Need, rows
        <5>3. size = 4 * q
          BY <2>1
        <5>4. QED
          BY <2>1, <4>1, <5>1, <5>2, <5>3
      <4>4. QED
        BY <2>1, <3>1, <3>3, <4>1, <4>3, WithinLines
    <3>4. QED
      BY <3>2, <3>3
  <2>4. QED
    BY <2>2, <2>3 DEF h, b, n, q
<1>2. QED
  BY <1>1, StringTyped, PTL

-----------------------------------------------------------------------------
(* The hex decoder.  What it knows between two characters. *)
Reader == [out : Seq(Byte), b : Byte, part : BOOLEAN, failed : BOOLEAN]

At(st, out, b, part) ==
  st \in Reader /\ st.out = out /\ st.b = b /\ st.part = part /\ st.failed = FALSE

(* What a character is to the decoder. *)
Skips(c, ig) == c \in Hex!Space \/ (ig /\ ~Hex!cc_is_hex_char(c))

LEMMA DigitType ==
  ASSUME NEW c \in Byte
  PROVE  /\ Hex!Digit(c) \in Byte /\ ~(Hex!Digit(c) < 0)
         /\ Hex!cc_is_hex_char(c) => Hex!Digit(c) \in 0 .. 15
         /\ ~Hex!cc_is_hex_char(c) => Hex!Digit(c) = 255
<1>1. CASE c \in 48 .. 57
  <2>1. Hex!hexchar2int(c) = c - 48
    BY <1>1 DEF Hex!hexchar2int
  <2>2. QED
    BY <1>1, <2>1 DEF Hex!Digit, Hex!cc_is_hex_char, Byte
<1>2. CASE c \in 97 .. 102
  <2>1. Hex!hexchar2int(c) = c - 97 + 10
    BY <1>2 DEF Hex!hexchar2int
  <2>2. QED
    BY <1>2, <2>1 DEF Hex!Digit, Hex!cc_is_hex_char, Byte
<1>3. CASE c \in 65 .. 70
  <2>1. Hex!hexchar2int(c) = c - 65 + 10
    BY <1>3 DEF Hex!hexchar2int
  <2>2. QED
    BY <1>3, <2>1 DEF Hex!Digit, Hex!cc_is_hex_char, Byte
<1>4. CASE c \notin 48 .. 57 /\ c \notin 97 .. 102 /\ c \notin 65 .. 70
  <2>1. Hex!hexchar2int(c) = -1
    BY <1>4 DEF Hex!hexchar2int
  <2> DEFINE x == Hex!hexchar2int(c)
  <2>2. x \in Int /\ x + 1 = 0
    BY <2>1
  <2> HIDE DEF x
  <2>3. x % 256 = 255
    BY <2>2
  <2>4. Hex!Digit(c) = 255
    BY <2>3, Zenon DEF Hex!Digit, x
  <2>5. ~Hex!cc_is_hex_char(c) /\ 255 \in Byte /\ ~(255 < 0)
    BY <1>4 DEF Hex!cc_is_hex_char, Byte
  <2>6. QED
    BY <2>4, <2>5, Zenon
<1>5. QED
  BY <1>1, <1>2, <1>3, <1>4

(* The character of a digit. *)
LEMMA DigitOfNumber ==
  ASSUME NEW n \in 0 .. 15, NEW up \in BOOLEAN
  PROVE  LET c == Hex!HexDigit(n, up)
         IN  /\ c \in Byte /\ Hex!cc_is_hex_char(c) /\ c \notin Hex!Space
             /\ Hex!Digit(c) = n
<1> DEFINE c == Hex!HexDigit(n, up)
           Goal == /\ c \in Byte /\ Hex!cc_is_hex_char(c) /\ c \notin Hex!Space
                   /\ Hex!Digit(c) = n
<1>1. ASSUME n < 10 PROVE Goal
  <2>1. c = 48 + n
    BY <1>1 DEF Hex!HexDigit
  <2> HIDE DEF c
  <2>2. c \in 48 .. 57
    BY <1>1, <2>1
  <2>3. Hex!hexchar2int(c) = c - 48
    BY <2>2 DEF Hex!hexchar2int
  <2>4. QED
    BY <1>1, <2>1, <2>2, <2>3 DEF Byte, Hex!Digit, Hex!cc_is_hex_char, Hex!Space
<1>2. ASSUME ~(n < 10), up PROVE Goal
  <2>1. c = 55 + n
    BY <1>2 DEF Hex!HexDigit
  <2> HIDE DEF c
  <2>2. c \in 65 .. 70
    BY <1>2, <2>1
  <2>3. Hex!hexchar2int(c) = c - 65 + 10
    BY <2>2 DEF Hex!hexchar2int
  <2>4. QED
    BY <1>2, <2>1, <2>2, <2>3 DEF Byte, Hex!Digit, Hex!cc_is_hex_char, Hex!Space
<1>3. ASSUME ~(n < 10), ~up PROVE Goal
  <2>1. c = 87 + n
    BY <1>3 DEF Hex!HexDigit
  <2> HIDE DEF c
  <2>2. c \in 97 .. 102
    BY <1>3, <2>1
  <2>3. Hex!hexchar2int(c) = c - 97 + 10
    BY <2>2 DEF Hex!hexchar2int
  <2>4. QED
    BY <1>3, <2>1, <2>2, <2>3 DEF Byte, Hex!Digit, Hex!cc_is_hex_char, Hex!Space
<1>4. QED
  BY <1>1, <1>2, <1>3

(* A turn of the decoder's loop, case by case. *)
LEMMA DecodeStepSkips ==
  ASSUME NEW st, NEW c, NEW ig, Skips(c, ig) PROVE Hex!DecodeStep(st, c, ig) = st
  BY Zenon DEF Hex!DecodeStep, Skips

(* The byte that a second digit completes. *)
Joins(b, t) == IF t > 15 THEN t ELSE ((b * 16) % 256) + t

LEMMA DecodeStepParts ==
  ASSUME NEW st, NEW c \in Byte, NEW ig, ~Skips(c, ig)
  PROVE  /\ st.part => Hex!DecodeStep(st, c, ig) =
              [st EXCEPT !.out = Append(st.out, Joins(st.b, Hex!Digit(c))), !.b = 0, !.part = FALSE]
         /\ ~st.part => Hex!DecodeStep(st, c, ig) = [st EXCEPT !.b = Hex!Digit(c), !.part = TRUE]
<1>1. ~(Hex!Digit(c) < 0)
  BY DigitType, Zenon
<1>2. QED
  BY <1>1, Zenon DEF Hex!DecodeStep, Skips, Joins

LEMMA DecodeStepType ==
  ASSUME NEW st \in Reader, NEW c \in Byte, NEW ig \in BOOLEAN PROVE Hex!DecodeStep(st, c, ig) \in Reader
<1> DEFINE t == Hex!Digit(c)
           y == Joins(st.b, t)
           s2 == [st EXCEPT !.out = Append(st.out, y), !.b = 0, !.part = FALSE]
           s1 == [st EXCEPT !.b = t, !.part = TRUE]
<1>1. t \in Byte /\ (t > 15 \/ t \in 0 .. 15)
  <2>1. t \in Byte
    BY DigitType, Zenon
  <2> HIDE DEF t
  <2>2. QED
    BY <2>1 DEF Byte
<1>2. y \in Byte
  <2>1. st.b \in Byte
    BY DEF Reader
  <2>2. (st.b * 16) % 256 \in 0 .. 240
    <3>1. (st.b * 16) % 256 = 16 * (st.b % 16)
      BY <2>1, SMT DEF Byte
    <3>2. QED
      BY <2>1, <3>1, SMT DEF Byte
  <2> HIDE DEF t
  <2>3. QED
    BY <1>1, <2>2 DEF Byte, Joins
<1> HIDE DEF y, t
<1>3. Append(st.out, y) \in Seq(Byte)
  BY <1>2, AppendProperties DEF Reader
<1>4. 0 \in Byte
  BY DEF Byte
<1>5. s2 \in Reader
  BY <1>3, <1>4 DEF Reader
<1>6. s1 \in Reader
  BY <1>1 DEF Reader
<1>7. CASE Skips(c, ig)
  BY <1>7, DecodeStepSkips, Zenon
<1>8. ASSUME ~Skips(c, ig) PROVE Hex!DecodeStep(st, c, ig) \in {s1, s2}
  <2>1. CASE st.part
    <3>1. Hex!DecodeStep(st, c, ig) = s2
      BY <1>8, <2>1, DecodeStepParts, Zenon DEF t, y
    <3>2. QED
      BY <3>1, Zenon
  <2>2. CASE ~st.part
    <3>1. Hex!DecodeStep(st, c, ig) = s1
      BY <1>8, <2>2, DecodeStepParts, Zenon DEF t
    <3>2. QED
      BY <3>1, Zenon
  <2>3. QED
    BY <2>1, <2>2
<1> HIDE DEF s1, s2
<1>9. QED
  BY <1>5, <1>6, <1>7, <1>8

LEMMA DecodeStepFirst ==
  ASSUME NEW st, NEW out, NEW b, At(st, out, b, FALSE), NEW c \in Byte, NEW ig \in BOOLEAN, ~Skips(c, ig)
  PROVE  At(Hex!DecodeStep(st, c, ig), out, Hex!Digit(c), TRUE)
<1> DEFINE d == Hex!Digit(c)
           s1 == [st EXCEPT !.b = d, !.part = TRUE]
<1>1. st \in Reader /\ ~st.part /\ st.out = out /\ st.failed = FALSE
  BY DEF At
<1>2. Hex!DecodeStep(st, c, ig) = s1
  BY <1>1, DecodeStepParts, Zenon
<1>3. s1 \in Reader
  BY <1>1, <1>2, DecodeStepType, Zenon
<1> HIDE DEF d
<1>4. s1.out = out /\ s1.b = d /\ s1.part = TRUE /\ s1.failed = FALSE
  BY <1>1 DEF Reader
<1> HIDE DEF s1
<1>5. QED
  BY <1>2, <1>3, <1>4, Zenon DEF At, d

LEMMA DecodeStepSecond ==
  ASSUME NEW st, NEW out, NEW b \in 0 .. 15, At(st, out, b, TRUE), NEW c \in Byte, NEW ig \in BOOLEAN,
         ~Skips(c, ig), Hex!cc_is_hex_char(c)
  PROVE  At(Hex!DecodeStep(st, c, ig), Append(out, 16 * b + Hex!Digit(c)), 0, FALSE)
<1> DEFINE y == Joins(b, Hex!Digit(c))
           o == Append(out, y)
           s1 == [st EXCEPT !.out = o, !.b = 0, !.part = FALSE]
<1>1. st \in Reader /\ st.part /\ st.out = out /\ st.b = b /\ st.failed = FALSE
  BY DEF At
<1>2. Hex!DecodeStep(st, c, ig) = s1
  <2>1. Hex!DecodeStep(st, c, ig) =
          [st EXCEPT !.out = Append(st.out, Joins(st.b, Hex!Digit(c))), !.b = 0, !.part = FALSE]
    BY <1>1, DecodeStepParts, ZenonT(40)
  <2>2. st.out = out /\ st.b = b
    BY <1>1, Zenon
  <2>3. QED
    BY <2>1, <2>2, Zenon
<1>3. s1 \in Reader
  <2>1. Hex!DecodeStep(st, c, ig) \in Reader
    BY <1>1, DecodeStepType, Zenon
  <2> HIDE DEF s1
  <2>2. QED
    BY <1>2, <2>1, Zenon
<1>4. y = 16 * b + Hex!Digit(c)
  <2>1. Hex!Digit(c) \in 0 .. 15
    BY DigitType, Zenon
  <2>2. (b * 16) % 256 = 16 * b
    BY SMT
  <2>3. QED
    BY <2>1, <2>2 DEF Joins
<1> HIDE DEF o
<1>5. s1.out = o /\ s1.b = 0 /\ s1.part = FALSE /\ s1.failed = FALSE
  BY <1>1 DEF Reader
<1> HIDE DEF s1, y
<1>6. QED
  BY <1>2, <1>3, <1>4, <1>5, Zenon DEF At, o

(* The decoder's state after a text. *)
After(s, ig) == Hex!DecodeLoop(s, ig)[Len(s)]

(* It is the last of as many states as there are characters. *)
LEMMA DecodeSteps ==
  ASSUME NEW s \in Seq(Byte), NEW ig \in BOOLEAN
  PROVE  \E f \in [Nat -> Reader] :
           /\ f[0] = Hex!DecodeStart
           /\ \A i \in 1 .. Len(s) : f[i] = Hex!DecodeStep(f[i - 1], s[i], ig)
           /\ After(s, ig) = f[Len(s)]
<1> DEFINE n == Len(s)
           S(m, i) == Hex!DecodeStep(m, s[i], ig)
           D == [i \in Nat |-> [m \in Reader |-> IF i < n THEN S(m, i + 1) ELSE m]]
           Def(g) == [i \in 0 .. n |-> IF i = 0 THEN Hex!DecodeStart ELSE S(g[i - 1], i)]
           c == CHOOSE g : g = Def(g)
<1>1. n \in Nat /\ \A i \in 1 .. n : s[i] \in Byte
  BY LenProperties, ElementOfSeq
<1>2. Hex!DecodeStart \in Reader
  <2>1. <<>> \in Seq(Byte) /\ 0 \in Byte
    BY DEF Byte
  <2>2. QED
    BY <2>1 DEF Hex!DecodeStart, Reader
<1>3. ASSUME NEW m \in Reader, NEW i \in 1 .. n PROVE S(m, i) \in Reader
  BY <1>1, DecodeStepType, Zenon
<1>4. Hex!DecodeLoop(s, ig) = c
  BY Zenon DEF Hex!DecodeLoop
<1> HIDE DEF S, n
<1>5. D \in [Nat -> [Reader -> Reader]]
  <2>1. \A i \in Nat : i < n => i + 1 \in 1 .. n
    BY <1>1
  <2>2. \A i \in Nat, m \in Reader : (IF i < n THEN S(m, i + 1) ELSE m) \in Reader
    BY <1>3, <2>1
  <2>3. QED
    BY <2>2
<1>6. \A i \in Nat, m \in Reader : i < n => D[i][m] = S(m, i + 1)
  OBVIOUS
<1> HIDE DEF D
<1>7. PICK f : GoesOn(f, Reader, Hex!DecodeStart, D)
  BY <1>2, <1>5, Recursion
<1>8. /\ f \in [Nat -> Reader] /\ f[0] = Hex!DecodeStart
      /\ \A i \in 1 .. n : f[i] = S(f[i - 1], i)
  <2>1. f \in [Nat -> Reader] /\ f[0] = Hex!DecodeStart /\ \A i \in Nat : f[i + 1] = D[i][f[i]]
    BY <1>7 DEF GoesOn
  <2>2. ASSUME NEW i \in 1 .. n PROVE f[i] = S(f[i - 1], i)
    <3>1. i - 1 \in Nat /\ i - 1 < n /\ i - 1 + 1 = i
      BY <1>1
    <3>2. f[i] = D[i - 1][f[i - 1]] /\ f[i - 1] \in Reader
      BY <2>1, <3>1
    <3>3. D[i - 1][f[i - 1]] = S(f[i - 1], i - 1 + 1)
      BY <1>6, <3>1, <3>2
    <3>4. QED
      BY <3>1, <3>2, <3>3
  <2>3. QED
    BY <2>1, <2>2
<1> DEFINE r == [i \in 0 .. n |-> f[i]]
<1>9. r = Def(r)
  <2>1. ASSUME NEW i \in 0 .. n
        PROVE  f[i] = IF i = 0 THEN Hex!DecodeStart ELSE S(r[i - 1], i)
    <3>1. CASE i = 0
      BY <1>8, <3>1
    <3>2. CASE i # 0
      <4>1. i \in 1 .. n /\ i - 1 \in 0 .. n
        BY <1>1, <3>2
      <4>2. f[i] = S(f[i - 1], i) /\ r[i - 1] = f[i - 1]
        BY <1>8, <4>1
      <4>3. QED
        BY <3>2, <4>2
    <3>3. QED
      BY <3>1, <3>2
  <2>2. QED
    BY <2>1
<1> HIDE DEF r
<1>10. c = Def(c)
  BY <1>9
<1> HIDE DEF c
<1>11. \A i \in 0 .. n : c[i] = IF i = 0 THEN Hex!DecodeStart ELSE S(c[i - 1], i)
  BY <1>10
<1> DEFINE E == {i \in Nat : i <= n => c[i] = f[i]}
<1>12. 0 \in E
  BY <1>1, <1>8, <1>11
<1>13. ASSUME NEW i \in Nat, i \in E PROVE i + 1 \in E
  <2>1. SUFFICES ASSUME i + 1 <= n PROVE c[i + 1] = f[i + 1]
    OBVIOUS
  <2>2. c[i] = f[i] /\ i + 1 \in 1 .. n /\ i + 1 \in 0 .. n /\ i + 1 # 0 /\ (i + 1) - 1 = i
    BY <1>1, <1>13, <2>1
  <2>3. c[i + 1] = S(c[(i + 1) - 1], i + 1)
    BY <1>11, <2>2
  <2>4. f[i + 1] = S(f[(i + 1) - 1], i + 1)
    BY <1>8, <2>2
  <2>5. QED
    BY <2>2, <2>3, <2>4
<1> HIDE DEF E
<1>14. \A i \in Nat : i \in E
  BY <1>12, <1>13, SetInduction
<1>15. c[n] = f[n]
  BY <1>1, <1>14 DEF E
<1>16. QED
  BY <1>4, <1>8, <1>15 DEF After, S, n

LEMMA DecodeNothing == ASSUME NEW ig \in BOOLEAN PROVE At(After(<<>>, ig), <<>>, 0, FALSE)
<1>1. <<>> \in Seq(Byte) /\ Len(<<>>) = 0 /\ 0 \in Byte
  BY EmptySeq DEF Byte
<1>2. PICK f \in [Nat -> Reader] : f[0] = Hex!DecodeStart /\ After(<<>>, ig) = f[Len(<<>>)]
  BY <1>1, DecodeSteps
<1>3. After(<<>>, ig) = Hex!DecodeStart
  BY <1>1, <1>2
<1>4. At(Hex!DecodeStart, <<>>, 0, FALSE)
  BY <1>1 DEF At, Hex!DecodeStart, Reader
<1>5. QED
  BY <1>3, <1>4

(* One more character is one more step. *)
LEMMA DecodeAppend ==
  ASSUME NEW s \in Seq(Byte), NEW c \in Byte, NEW ig \in BOOLEAN
  PROVE  After(s \o <<c>>, ig) = Hex!DecodeStep(After(s, ig), c, ig) /\ After(s, ig) \in Reader
<1> DEFINE t == s \o <<c>>
           n == Len(s)
<1>1. n \in Nat
  BY LenProperties
<1>2. t \in Seq(Byte) /\ Len(t) = n + 1 /\ t[n + 1] = c /\ \A i \in 1 .. n : t[i] = s[i]
  BY AppendIsConcat, AppendProperties
<1>3. PICK f \in [Nat -> Reader] :
        /\ f[0] = Hex!DecodeStart /\ \A i \in 1 .. n : f[i] = Hex!DecodeStep(f[i - 1], s[i], ig)
        /\ After(s, ig) = f[n]
  BY DecodeSteps
<1> HIDE DEF t
<1>4. PICK g \in [Nat -> Reader] :
        /\ g[0] = Hex!DecodeStart /\ \A i \in 1 .. Len(t) : g[i] = Hex!DecodeStep(g[i - 1], t[i], ig)
        /\ After(t, ig) = g[Len(t)]
  BY <1>2, DecodeSteps
<1> HIDE DEF n
<1> DEFINE E == {i \in Nat : i <= n => f[i] = g[i]}
<1>5. 0 \in E
  BY <1>3, <1>4
<1>6. ASSUME NEW i \in Nat, i \in E PROVE i + 1 \in E
  <2>1. SUFFICES ASSUME i + 1 <= n PROVE f[i + 1] = g[i + 1]
    OBVIOUS
  <2>2. i + 1 \in 1 .. n /\ i + 1 \in 1 .. Len(t) /\ (i + 1) - 1 = i /\ f[i] = g[i]
    BY <1>1, <1>2, <1>6, <2>1
  <2>3. f[i + 1] = Hex!DecodeStep(f[(i + 1) - 1], s[i + 1], ig)
    BY <1>3, <2>2
  <2>4. g[i + 1] = Hex!DecodeStep(g[(i + 1) - 1], t[i + 1], ig)
    BY <1>4, <2>2
  <2>5. t[i + 1] = s[i + 1]
    BY <1>2, <2>2
  <2>6. QED
    BY <2>2, <2>3, <2>4, <2>5
<1> HIDE DEF E
<1>7. \A i \in Nat : i \in E
  BY <1>5, <1>6, SetInduction
<1>8. f[n] = g[n] /\ n + 1 \in 1 .. Len(t) /\ (n + 1) - 1 = n
  BY <1>1, <1>2, <1>7 DEF E
<1>9. g[n + 1] = Hex!DecodeStep(g[(n + 1) - 1], t[n + 1], ig)
  BY <1>4, <1>8
<1>10. QED
  BY <1>1, <1>2, <1>3, <1>4, <1>8, <1>9 DEF t, n

(* The decoder has read all of out, and is between two bytes. *)
Whole(s, out, ig) == s \in Seq(Byte) /\ At(After(s, ig), out, 0, FALSE)

(* It reads a byte's two digits... *)
LEMMA DecodeByte ==
  ASSUME NEW s, NEW out, NEW ig \in BOOLEAN, Whole(s, out, ig), NEW v \in Byte, NEW up \in BOOLEAN
  PROVE  Whole(s \o Hex!HexByte(v, up), Append(out, v), ig)
<1> DEFINE c == Hex!HexDigit(v \div 16, up)
           d == Hex!HexDigit(v % 16, up)
           s1 == s \o <<c>>
           s2 == s1 \o <<d>>
<1>1. v \div 16 \in 0 .. 15 /\ v % 16 \in 0 .. 15 /\ 16 * (v \div 16) + (v % 16) = v
  BY DEF Byte
<1>2. /\ c \in Byte /\ Hex!cc_is_hex_char(c) /\ c \notin Hex!Space /\ Hex!Digit(c) = v \div 16
      /\ d \in Byte /\ Hex!cc_is_hex_char(d) /\ d \notin Hex!Space /\ Hex!Digit(d) = v % 16
  BY <1>1, DigitOfNumber, Zenon
<1>3. s \o Hex!HexByte(v, up) = s2
  <2>1. Hex!HexByte(v, up) = <<c>> \o <<d>>
    BY DEF Hex!HexByte
  <2>2. <<c>> \in Seq(Byte) /\ <<d>> \in Seq(Byte) /\ s \in Seq(Byte)
    BY <1>2 DEF Whole
  <2> HIDE DEF c, d
  <2>3. (s \o <<c>>) \o <<d>> = s \o (<<c>> \o <<d>>)
    BY <2>2, ConcatAssociative
  <2>4. QED
    BY <2>1, <2>3
<1> HIDE DEF c, d
<1>4. ~Skips(c, ig) /\ ~Skips(d, ig)
  BY <1>2 DEF Skips
<1>5. s \in Seq(Byte) /\ s1 \in Seq(Byte) /\ s2 \in Seq(Byte)
  BY <1>2, AppendIsConcat, AppendProperties DEF Whole
<1> HIDE DEF s1, s2
<1>6. At(After(s1, ig), out, v \div 16, TRUE)
  <2>1. After(s1, ig) = Hex!DecodeStep(After(s, ig), c, ig)
    BY <1>2, <1>5, DecodeAppend, Zenon DEF s1
  <2>2. At(Hex!DecodeStep(After(s, ig), c, ig), out, Hex!Digit(c), TRUE)
    BY <1>2, <1>4, DecodeStepFirst, Zenon DEF Whole
  <2>3. QED
    BY <1>2, <2>1, <2>2, Zenon
<1>7. At(After(s2, ig), Append(out, v), 0, FALSE)
  <2>1. After(s2, ig) = Hex!DecodeStep(After(s1, ig), d, ig)
    BY <1>2, <1>5, DecodeAppend, Zenon DEF s2
  <2>2. At(Hex!DecodeStep(After(s1, ig), d, ig), Append(out, 16 * (v \div 16) + Hex!Digit(d)), 0, FALSE)
    BY <1>1, <1>2, <1>4, <1>6, DecodeStepSecond, Zenon
  <2>3. QED
    BY <1>1, <1>2, <2>1, <2>2
<1>8. QED
  BY <1>3, <1>5, <1>7, Zenon DEF Whole

(* ...and passes over what is no digit. *)
LEMMA DecodeSkipped ==
  ASSUME NEW s, NEW out, NEW ig \in BOOLEAN, Whole(s, out, ig), NEW c \in Byte, Skips(c, ig)
  PROVE  Whole(s \o <<c>>, out, ig)
<1>1. s \o <<c>> \in Seq(Byte)
  BY AppendIsConcat, AppendProperties DEF Whole
<1>2. After(s \o <<c>>, ig) = After(s, ig)
  <2>1. After(s \o <<c>>, ig) = Hex!DecodeStep(After(s, ig), c, ig)
    BY DecodeAppend, Zenon DEF Whole
  <2>2. Hex!DecodeStep(After(s, ig), c, ig) = After(s, ig)
    BY DecodeStepSkips, Zenon
  <2>3. QED
    BY <2>1, <2>2, Zenon
<1>3. QED
  BY <1>1, <1>2, Zenon DEF Whole

(* So the result is what has been read. *)
LEMMA DecodeWhole ==
  ASSUME NEW s, NEW out, NEW ig \in BOOLEAN, Whole(s, out, ig), s # <<>>
  PROVE  Hex!cc_hex_decode(s, ig) = out
  BY Zenon DEF Whole, At, After, Hex!cc_hex_decode

(* The first characters of a string. *)
First(s, i) == [j \in 1 .. i |-> s[j]]

LEMMA FirstSteps ==
  ASSUME NEW S, NEW s \in Seq(S)
  PROVE  /\ First(s, 0) = <<>> /\ First(s, Len(s)) = s
         /\ \A i \in 1 .. Len(s) : /\ First(s, i) = Append(First(s, i - 1), s[i])
                                   /\ First(s, i - 1) \in Seq(S) /\ s[i] \in S
<1>1. Len(s) \in Nat /\ \A i \in 1 .. Len(s) : s[i] \in S
  BY LenProperties, ElementOfSeq
<1>2. First(s, 0) = <<>> /\ First(s, Len(s)) = s
  BY DEF First
<1>3. ASSUME NEW i \in 1 .. Len(s)
      PROVE  First(s, i) = Append(First(s, i - 1), s[i]) /\ First(s, i - 1) \in Seq(S)
  <2> DEFINE k == i - 1
             f == [j \in 1 .. k |-> s[j]]
  <2>1. k \in Nat /\ i = k + 1 /\ \A j \in 1 .. k : s[j] \in S
    BY <1>1
  <2> HIDE DEF k
  <2>2. f \in Seq(S) /\ Len(f) = k /\ \A j \in 1 .. k : f[j] = s[j]
    BY <2>1
  <2> HIDE DEF f
  <2>3. Append(f, s[i]) = [j \in 1 .. k + 1 |-> IF j <= k THEN f[j] ELSE s[i]]
    BY <1>1, <2>1, <2>2
  <2>4. [j \in 1 .. k + 1 |-> IF j <= k THEN f[j] ELSE s[i]] = [j \in 1 .. k + 1 |-> s[j]]
    BY <2>1, <2>2
  <2>5. Append(f, s[i]) = First(s, i)
    BY <2>1, <2>3, <2>4, Zenon DEF First
  <2>6. f = First(s, i - 1)
    BY DEF First, f, k
  <2>7. QED
    BY <2>2, <2>5, <2>6
<1>4. QED
  BY <1>1, <1>2, <1>3

(* Text in hex reads back. *)
LEMMA HexReads ==
  ASSUME NEW bytes \in Seq(Byte), bytes # <<>>, NEW len \in Nat, len % 2 = 0, NEW up \in BOOLEAN,
         NEW ig \in BOOLEAN
  PROVE  Hex!cc_hex_decode(Hex!cc_hex_encode(bytes, len, up), ig) = bytes
<1> DEFINE n == Len(bytes)
           P(i) == HexPiece(bytes, i, len, up)
           text == Hex!cc_hex_encode(bytes, len, up)
<1>1. n \in Nat
  BY LenProperties
<1>2. PICK f \in [Nat -> Seq(Byte)] :
        /\ f[0] = <<>>
        /\ \A i \in 1 .. n : f[i] = f[i - 1] \o P(i)
        /\ text = f[n]
  BY HexSteps
<1> DEFINE E == {i \in Nat : i <= n => Whole(f[i], First(bytes, i), ig)}
<1>3. 0 \in E
  <2>1. Whole(<<>>, <<>>, ig)
    BY DecodeNothing, EmptySeq DEF Whole
  <2>2. First(bytes, 0) = <<>>
    BY FirstSteps
  <2>3. QED
    BY <1>2, <2>1, <2>2
<1>4. ASSUME NEW k \in Nat, k \in E PROVE k + 1 \in E
  <2> DEFINE i == k + 1
             s == f[i - 1]
             x == Hex!HexByte(bytes[i], up)
             ends == Hex!LineEnds(i, n, len)
             out == First(bytes, i)
  <2>1. SUFFICES ASSUME i <= n PROVE Whole(f[i], out, ig)
    OBVIOUS
  <2>2. i \in 1 .. n /\ i - 1 = k /\ Whole(f[k], First(bytes, k), ig)
    BY <1>1, <1>4, <2>1
  <2>3. bytes[i] \in Byte /\ out = Append(First(bytes, i - 1), bytes[i])
    BY <2>2, FirstSteps
  <2>4. s \in Seq(Byte) /\ Whole(s, First(bytes, i - 1), ig)
    BY <2>2 DEF Whole
  <2>5. Whole(s \o x, out, ig)
    BY <2>3, <2>4, DecodeByte
  <2>6. Extends(s \o P(i), s, x, ends)
    BY <2>2, <2>4, HexPieceParts, Zenon
  <2>7. f[i] = s \o P(i)
    BY <1>2, <2>2
  <2>8. CASE ends
    <3>1. LF \in Byte /\ Skips(LF, ig)
      BY DEF LF, Byte, Skips, Hex!Space
    <3>2. Whole((s \o x) \o <<LF>>, out, ig)
      BY <2>5, <3>1, DecodeSkipped, Zenon
    <3>3. f[i] = (s \o x) \o <<LF>>
      BY <2>6, <2>7, <2>8, Zenon DEF Extends
    <3>4. QED
      BY <3>2, <3>3, Zenon
  <2>9. CASE ~ends
    <3>1. f[i] = s \o x
      BY <2>6, <2>7, <2>9, Zenon DEF Extends
    <3>2. QED
      BY <2>5, <3>1, Zenon
  <2>10. QED
    BY <2>8, <2>9, Zenon
<1> HIDE DEF E
<1>5. \A i \in Nat : i \in E
  BY <1>3, <1>4, SetInduction
<1>6. Whole(text, bytes, ig)
  <2>1. Whole(f[n], First(bytes, n), ig)
    BY <1>1, <1>5 DEF E
  <2>2. First(bytes, n) = bytes
    BY FirstSteps
  <2>3. QED
    BY <1>2, <2>1, <2>2
<1>7. text # <<>>
  <2>1. SUFFICES ASSUME text = <<>> PROVE FALSE
    OBVIOUS
  <2>2. After(text, ig).out = bytes /\ After(<<>>, ig).out = <<>>
    BY <1>6, DecodeNothing, Zenon DEF Whole, At
  <2>3. QED
    BY <2>1, <2>2, Zenon
<1>8. QED
  BY <1>6, <1>7, DecodeWhole, Zenon

(* Hex text with anything between its digits. *)
HexChars == {c \in Byte : Hex!cc_is_hex_char(c)}

LEMMA DigitIsValue ==
  ASSUME NEW c \in HexChars PROVE DigitValue(c) = Hex!Digit(c) /\ DigitValue(c) \in 0 .. 15
<1> DEFINE Means(n) == c \in {Hex!HexDigit(n, TRUE), Hex!HexDigit(n, FALSE)}
<1>1. c \in 48 .. 57 \/ c \in 65 .. 70 \/ c \in 97 .. 102
  BY DEF HexChars, Hex!cc_is_hex_char
<1>2. \E n \in 0 .. 15 : Means(n)
  <2>1. CASE c \in 48 .. 57
    <3>1. c - 48 \in 0 .. 15 /\ Hex!HexDigit(c - 48, TRUE) = c
      BY <2>1 DEF Hex!HexDigit
    <3>2. QED
      BY <3>1
  <2>2. CASE c \in 65 .. 70
    <3>1. c - 55 \in 0 .. 15 /\ Hex!HexDigit(c - 55, TRUE) = c
      BY <2>2 DEF Hex!HexDigit
    <3>2. QED
      BY <3>1
  <2>3. CASE c \in 97 .. 102
    <3>1. c - 87 \in 0 .. 15 /\ Hex!HexDigit(c - 87, FALSE) = c
      BY <2>3 DEF Hex!HexDigit
    <3>2. QED
      BY <3>1
  <2>4. QED
    BY <1>1, <2>1, <2>2, <2>3
<1>3. ASSUME NEW n \in 0 .. 15, Means(n) PROVE Hex!Digit(c) = n
  BY <1>3, DigitOfNumber, Zenon
<1> HIDE DEF Means
<1> DEFINE v == CHOOSE n \in 0 .. 15 : Means(n)
<1>4. v \in 0 .. 15 /\ Means(v)
  BY <1>2
<1>5. v = DigitValue(c)
  BY DEF DigitValue, Means
<1>6. QED
  BY <1>3, <1>4, <1>5

AppendIs(p, y, k) == Append(p, y) = [i \in 1 .. k + 1 |-> IF i <= k THEN p[i] ELSE y]

LEMMA AppendForm ==
  ASSUME NEW S, NEW p \in Seq(S), NEW y \in S, NEW k, k = Len(p) PROVE AppendIs(p, y, k)
<1> DEFINE a == Append(p, y)
           f == [i \in 1 .. k + 1 |-> IF i <= k THEN p[i] ELSE y]
<1>1. k \in Nat
  BY LenProperties
<1>2. a \in Seq(S) /\ Len(a) = k + 1 /\ a[k + 1] = y /\ \A i \in 1 .. k : a[i] = p[i]
  BY AppendProperties
<1> HIDE DEF a
<1>3. a = [i \in 1 .. k + 1 |-> a[i]]
  BY <1>2, LenProperties
<1>4. \A i \in 1 .. k + 1 : a[i] = IF i <= k THEN p[i] ELSE y
  BY <1>1, <1>2
<1>5. [i \in 1 .. k + 1 |-> a[i]] = f
  BY <1>4
<1>6. QED
  BY <1>3, <1>5, Zenon DEF a, AppendIs

LEMMA TwoDigits == ASSUME NEW d \in 0 .. 15, NEW e \in 0 .. 15 PROVE 16 * d + e \in Nat
  OBVIOUS

(* A digit more completes a pair, or begins one. *)
LEMMA PairsMore ==
  ASSUME NEW w \in Seq(HexChars), NEW c \in HexChars
  PROVE  /\ w \o <<c>> \in Seq(HexChars) /\ Len(w \o <<c>>) = Len(w) + 1
         /\ (w \o <<c>>)[Len(w) + 1] = c
         /\ Len(w) % 2 = 0 => Pairs(w \o <<c>>) = Pairs(w)
         /\ Len(w) % 2 # 0 =>
              Pairs(w \o <<c>>) = Append(Pairs(w), 16 * DigitValue(w[Len(w)]) + DigitValue(c))
         /\ Pairs(w) \in Seq(Nat)
<1> DEFINE t == w \o <<c>>
           n == Len(w)
           V(s, i) == 16 * DigitValue(s[2 * i - 1]) + DigitValue(s[2 * i])
<1>1. n \in Nat /\ \A i \in 1 .. n : w[i] \in HexChars
  BY LenProperties, ElementOfSeq
<1>2. t \in Seq(HexChars) /\ Len(t) = n + 1 /\ t[n + 1] = c /\ \A i \in 1 .. n : t[i] = w[i]
  BY AppendIsConcat, AppendProperties
<1>3. Pairs(w) = [i \in 1 .. n \div 2 |-> V(w, i)] /\ Pairs(t) = [i \in 1 .. (n + 1) \div 2 |-> V(t, i)]
  BY <1>2 DEF Pairs
<1> HIDE DEF t, n
<1>4. \A i \in 1 .. n \div 2 : 2 * i - 1 \in 1 .. n /\ 2 * i \in 1 .. n
  BY <1>1
<1>5. \A i \in 1 .. n \div 2 : V(w, i) \in Nat /\ V(t, i) = V(w, i)
  <2>1. \A i \in 1 .. n : DigitValue(w[i]) \in 0 .. 15
    BY <1>1, DigitIsValue
  <2>2. ASSUME NEW i \in 1 .. n \div 2 PROVE V(w, i) \in Nat /\ V(t, i) = V(w, i)
    <3> DEFINE a == 2 * i - 1
               b == 2 * i
    <3>1. a \in 1 .. n /\ b \in 1 .. n
      BY <1>4
    <3>2. V(w, i) = 16 * DigitValue(w[a]) + DigitValue(w[b]) /\ V(t, i) = 16 * DigitValue(t[a]) + DigitValue(t[b])
      OBVIOUS
    <3> HIDE DEF a, b, V
    <3>3. t[a] = w[a] /\ t[b] = w[b] /\ DigitValue(w[a]) \in 0 .. 15 /\ DigitValue(w[b]) \in 0 .. 15
      BY <1>2, <2>1, <3>1
    <3>4. V(t, i) = V(w, i)
      BY <3>2, <3>3, Zenon
    <3>5. 16 * DigitValue(w[a]) + DigitValue(w[b]) \in Nat
      BY <3>3, TwoDigits, Zenon
    <3>6. QED
      BY <3>2, <3>4, <3>5, Zenon
  <2>3. QED
    BY <2>2
<1>6. Pairs(w) \in Seq(Nat) /\ Len(Pairs(w)) = n \div 2
  <2>1. n \div 2 \in Nat
    BY <1>1
  <2> HIDE DEF V
  <2>2. [i \in 1 .. n \div 2 |-> V(w, i)] \in Seq(Nat) /\ Len([i \in 1 .. n \div 2 |-> V(w, i)]) = n \div 2
    BY <1>5, <2>1
  <2>3. QED
    BY <1>3, <2>2
<1>7. ASSUME n % 2 = 0 PROVE Pairs(t) = Pairs(w)
  <2>1. (n + 1) \div 2 = n \div 2
    BY <1>1, <1>7
  <2> HIDE DEF V
  <2>2. QED
    BY <1>3, <1>5, <2>1
<1>8. ASSUME n % 2 # 0 PROVE Pairs(t) = Append(Pairs(w), 16 * DigitValue(w[n]) + DigitValue(c))
  <2> DEFINE k == n \div 2
             y == 16 * DigitValue(w[n]) + DigitValue(c)
  <2>1. k \in Nat /\ (n + 1) \div 2 = k + 1 /\ 2 * (k + 1) = n + 1 /\ 2 * (k + 1) - 1 = n /\ n \in 1 .. n
    BY <1>1, <1>8
  <2>2. V(t, k + 1) = y
    BY <1>2, <2>1
  <2> HIDE DEF V, y
  <2>9. Pairs(w) \in Seq(Nat) /\ Len(Pairs(w)) = k
    BY <1>6
  <2> HIDE DEF k
  <2>3. Append(Pairs(w), y) = [i \in 1 .. k + 1 |-> IF i <= k THEN Pairs(w)[i] ELSE y]
    <3>1. y \in Nat
      <4>1. DigitValue(w[n]) \in 0 .. 15 /\ DigitValue(c) \in 0 .. 15
        BY <1>1, <2>1, DigitIsValue, Zenon
      <4>2. QED
        BY <4>1, TwoDigits, Zenon DEF y
    <3>2. k = Len(Pairs(w))
      BY <2>9
    <3>3. AppendIs(Pairs(w), y, k)
      BY <2>9, <3>1, <3>2, AppendForm, Zenon
    <3>4. QED
      BY <3>3, Zenon DEF AppendIs
  <2>4. \A i \in 1 .. k : Pairs(w)[i] = V(t, i)
    BY <1>3, <1>5 DEF k
  <2>5. [i \in 1 .. k + 1 |-> IF i <= k THEN Pairs(w)[i] ELSE y] = [i \in 1 .. k + 1 |-> V(t, i)]
    BY <2>1, <2>2, <2>4
  <2>6. QED
    BY <1>3, <2>1, <2>3, <2>5 DEF y
<1>9. QED
  BY <1>2, <1>6, <1>7, <1>8 DEF t, n

(* What is left of a string without some characters grows with it. *)
Leaves(s, C, w) ==
  /\ w \in [Nat -> Seq(Byte)] /\ w[0] = <<>> /\ Without(s, C) = w[Len(s)]
  /\ \A i \in 1 .. Len(s) : /\ s[i] \in C => w[i] = w[i - 1]
                            /\ s[i] \notin C => w[i] = w[i - 1] \o <<s[i]>>

LEMMA WithoutSteps == ASSUME NEW s \in Seq(Byte), NEW C PROVE \E w : Leaves(s, C, w)
<1> DEFINE n == Len(s)
           P(i) == IF s[i] \in C THEN <<>> ELSE <<s[i]>>
           ss == [i \in DOMAIN s |-> P(i)]
<1>1. n \in Nat /\ DOMAIN s = 1 .. n /\ \A i \in 1 .. n : s[i] \in Byte
  BY LenProperties, ElementOfSeq
<1>2. \A i \in 1 .. n : P(i) \in Seq(Byte)
  BY <1>1
<1>3. Without(s, C) = FlattenSeq(ss)
  BY DEF Without
<1> HIDE DEF P, n
<1>4. ss \in Seq(Seq(Byte)) /\ Len(ss) = n /\ \A i \in 1 .. n : ss[i] = P(i)
  BY <1>1, <1>2
<1> HIDE DEF ss
<1>5. PICK w \in [Nat -> Seq(Byte)] :
        /\ w[0] = <<>> /\ \A i \in 1 .. Len(ss) : w[i] = w[i - 1] \o ss[i]
        /\ FlattenSeq(ss) = w[Len(ss)]
  BY <1>4, FlattenSteps
<1>6. ASSUME NEW i \in 1 .. n
      PROVE  /\ s[i] \in C => w[i] = w[i - 1]
             /\ s[i] \notin C => w[i] = w[i - 1] \o <<s[i]>>
  <2>1. w[i] = w[i - 1] \o P(i)
    BY <1>4, <1>5
  <2>2. w[i - 1] \in Seq(Byte)
    BY <1>1, <1>5
  <2>3. w[i - 1] \o <<>> = w[i - 1]
    BY <2>2, ConcatEmptySeq
  <2>4. CASE s[i] \in C
    <3>1. P(i) = <<>>
      BY <2>4 DEF P
    <3>2. QED
      BY <2>1, <2>3, <2>4, <3>1, Zenon
  <2>5. CASE s[i] \notin C
    <3>1. P(i) = <<s[i]>>
      BY <2>5 DEF P
    <3>2. QED
      BY <2>1, <2>5, <3>1, Zenon
  <2>6. QED
    BY <2>4, <2>5, Zenon
<1>7. Without(s, C) = w[n]
  BY <1>3, <1>4, <1>5
<1>8. Leaves(s, C, w)
  BY <1>5, <1>6, <1>7, Zenon DEF n, Leaves
<1>9. QED
  BY <1>8

(* The decoder has read the digits w, and ignored what else there was. *)
Sees(st, w) ==
  /\ w \in Seq(HexChars)
  /\ Len(w) % 2 = 0 => At(st, Pairs(w), 0, FALSE)
  /\ Len(w) % 2 # 0 => At(st, Pairs(w), DigitValue(w[Len(w)]), TRUE)

LEMMA SeesMore ==
  ASSUME NEW st, NEW w, Sees(st, w), NEW c \in HexChars
  PROVE  Sees(Hex!DecodeStep(st, c, TRUE), w \o <<c>>)
<1> DEFINE t == w \o <<c>>
           n == Len(w)
           next == Hex!DecodeStep(st, c, TRUE)
           y == 16 * DigitValue(w[n]) + DigitValue(c)
<1>1. c \in Byte /\ Hex!cc_is_hex_char(c) /\ ~Skips(c, TRUE)
  BY DEF HexChars, Hex!cc_is_hex_char, Skips, Hex!Space
<1>2. DigitValue(c) = Hex!Digit(c)
  BY DigitIsValue
<1>3. w \in Seq(HexChars) /\ n \in Nat
  BY LenProperties DEF Sees
<1>4. /\ t \in Seq(HexChars) /\ Len(t) = n + 1 /\ t[n + 1] = c
      /\ n % 2 = 0 => Pairs(t) = Pairs(w)
      /\ n % 2 # 0 => Pairs(t) = Append(Pairs(w), y)
  BY <1>3, PairsMore, Zenon
<1> HIDE DEF t, y
<1>5. CASE n % 2 = 0
  <2>1. Len(t) % 2 # 0
    <3> HIDE DEF n
    <3>1. (n + 1) % 2 # 0
      BY <1>3, <1>5
    <3>2. QED
      BY <1>4, <3>1, Zenon
  <2>2. At(next, Pairs(w), Hex!Digit(c), TRUE)
    BY <1>1, <1>5, DecodeStepFirst, Zenon DEF Sees
  <2>3. t[Len(t)] = c /\ Pairs(t) = Pairs(w)
    BY <1>4, <1>5
  <2>4. QED
    BY <1>2, <1>4, <2>1, <2>2, <2>3, Zenon DEF Sees, t
<1>6. CASE n % 2 # 0
  <2>1. Len(t) % 2 = 0
    <3> HIDE DEF n
    <3>1. (n + 1) % 2 = 0
      BY <1>3, <1>6
    <3>2. QED
      BY <1>4, <3>1, Zenon
  <2>2. At(st, Pairs(w), DigitValue(w[n]), TRUE)
    BY <1>6, Zenon DEF Sees
  <2>3. DigitValue(w[n]) \in 0 .. 15
    <3>1. n \in 1 .. n
      BY <1>3, <1>6
    <3>2. w[n] \in HexChars
      BY <1>3, <3>1, ElementOfSeq
    <3>3. QED
      BY <3>2, DigitIsValue
  <2>4. At(next, Append(Pairs(w), 16 * DigitValue(w[n]) + Hex!Digit(c)), 0, FALSE)
    BY <1>1, <2>2, <2>3, DecodeStepSecond, Zenon
  <2>5. QED
    BY <1>2, <1>4, <1>6, <2>1, <2>4, Zenon DEF Sees, t, y
<1>7. QED
  BY <1>5, <1>6

LEMMA HexIgnores ==
  ASSUME NEW s \in Seq(Byte), s # <<>>
  PROVE  LET digits == Without(s, {c \in 0 .. 255 : ~Hex!cc_is_hex_char(c)})
         IN  Hex!cc_hex_decode(s, TRUE) =
               IF Len(digits) % 2 # 0 THEN Hex!Failed ELSE Pairs(digits)
<1> DEFINE C == {c \in 0 .. 255 : ~Hex!cc_is_hex_char(c)}
           digits == Without(s, C)
           n == Len(s)
<1>1. n \in Nat /\ \A i \in 1 .. n : s[i] \in Byte
  BY LenProperties, ElementOfSeq
<1>2. \A c \in Byte : /\ c \in C <=> ~Hex!cc_is_hex_char(c)
                      /\ c \notin C <=> c \in HexChars
  BY DEF HexChars, Byte
<1> HIDE DEF C
<1>w. PICK w : Leaves(s, C, w)
  BY WithoutSteps
<1>3. /\ w \in [Nat -> Seq(Byte)] /\ w[0] = <<>> /\ digits = w[n]
      /\ \A i \in 1 .. n : /\ s[i] \in C => w[i] = w[i - 1]
                           /\ s[i] \notin C => w[i] = w[i - 1] \o <<s[i]>>
  BY <1>w, Zenon DEF Leaves
<1>4. PICK f \in [Nat -> Reader] :
        /\ f[0] = Hex!DecodeStart
        /\ \A i \in 1 .. n : f[i] = Hex!DecodeStep(f[i - 1], s[i], TRUE)
        /\ After(s, TRUE) = f[n]
  BY DecodeSteps
<1> HIDE DEF n, digits
<1> DEFINE E == {i \in Nat : i <= n => Sees(f[i], w[i])}
<1>5. 0 \in E
  <2>1. <<>> \in Seq(Byte) /\ <<>> \in Seq(HexChars) /\ Len(<<>>) = 0 /\ 0 \in Byte /\ 0 % 2 = 0
    BY DEF Byte
  <2>2. Pairs(<<>>) = <<>>
    BY DEF Pairs
  <2>3. At(Hex!DecodeStart, <<>>, 0, FALSE)
    BY <2>1 DEF At, Hex!DecodeStart, Reader
  <2>4. Sees(Hex!DecodeStart, <<>>)
    BY <2>1, <2>2, <2>3 DEF Sees
  <2>5. QED
    BY <1>3, <1>4, <2>4
<1>6. ASSUME NEW k \in Nat, k \in E PROVE k + 1 \in E
  <2> DEFINE i == k + 1
  <2>1. SUFFICES ASSUME i <= n PROVE Sees(f[i], w[i])
    OBVIOUS
  <2>2. i \in 1 .. n /\ i - 1 = k /\ Sees(f[k], w[k])
    BY <1>1, <1>6, <2>1
  <2>3. f[i] = Hex!DecodeStep(f[k], s[i], TRUE)
    BY <1>4, <2>2
  <2>4. CASE s[i] \in C
    <3>1. w[i] = w[k]
      BY <1>3, <2>2, <2>4
    <3>2. Skips(s[i], TRUE)
      BY <1>1, <1>2, <2>2, <2>4 DEF Skips
    <3>3. f[i] = f[k]
      BY <2>3, <3>2, DecodeStepSkips, Zenon
    <3>4. QED
      BY <2>2, <3>1, <3>3, Zenon
  <2>5. CASE s[i] \notin C
    <3>1. w[i] = w[k] \o <<s[i]>>
      BY <1>3, <2>2, <2>5
    <3>2. s[i] \in HexChars
      BY <1>1, <1>2, <2>2, <2>5
    <3>3. Sees(Hex!DecodeStep(f[k], s[i], TRUE), w[k] \o <<s[i]>>)
      BY <2>2, <3>2, SeesMore, Zenon
    <3>4. QED
      BY <2>3, <3>1, <3>3, Zenon
  <2>6. QED
    BY <2>4, <2>5, Zenon
<1> HIDE DEF E
<1>7. \A i \in Nat : i \in E
  BY <1>5, <1>6, SetInduction
<1>8. Sees(After(s, TRUE), digits)
  <2>1. Sees(f[n], w[n])
    BY <1>1, <1>7 DEF E
  <2>2. QED
    BY <1>3, <1>4, <2>1, Zenon
<1>9. CASE Len(digits) % 2 = 0
  <2>1. At(After(s, TRUE), Pairs(digits), 0, FALSE)
    BY <1>8, <1>9, Zenon DEF Sees
  <2>2. Hex!cc_hex_decode(s, TRUE) = Pairs(digits)
    BY <2>1, Zenon DEF At, After, Hex!cc_hex_decode
  <2>3. QED
    BY <1>9, <2>2, Zenon DEF digits, C
<1>10. CASE Len(digits) % 2 # 0
  <2>1. At(After(s, TRUE), Pairs(digits), DigitValue(digits[Len(digits)]), TRUE)
    BY <1>8, <1>10, Zenon DEF Sees
  <2>2. Hex!cc_hex_decode(s, TRUE) = Hex!Failed
    BY <2>1, Zenon DEF At, After, Hex!cc_hex_decode
  <2>3. QED
    BY <1>10, <2>2, Zenon DEF digits, C
<1>11. QED
  BY <1>9, <1>10

-----------------------------------------------------------------------------
(* Lines.  What is known of them between two characters. *)
Lining == [ended : Seq(Seq(Nat)), open : Seq(Nat)]

LEMMA LineStepEnds ==
  ASSUME NEW l \in Lining
  PROVE  /\ LineStep(l, LF) \in Lining
         /\ LineStep(l, LF).ended = Append(l.ended, l.open) /\ LineStep(l, LF).open = <<>>
<1>1. LineStep(l, LF) = [ended |-> Append(l.ended, l.open), open |-> <<>>]
  BY Zenon DEF LineStep
<1>2. Append(l.ended, l.open) \in Seq(Seq(Nat)) /\ <<>> \in Seq(Nat)
  BY AppendProperties, EmptySeq DEF Lining
<1>3. QED
  BY <1>1, <1>2 DEF Lining

LEMMA LineStepOn ==
  ASSUME NEW l \in Lining, NEW c \in Nat, c # LF
  PROVE  /\ LineStep(l, c) \in Lining
         /\ LineStep(l, c).ended = l.ended /\ LineStep(l, c).open = Append(l.open, c)
<1> DEFINE o == Append(l.open, c)
           m == [l EXCEPT !.open = o]
<1>1. LineStep(l, c) = m
  BY Zenon DEF LineStep
<1>2. o \in Seq(Nat)
  BY AppendProperties DEF Lining
<1> HIDE DEF o
<1>3. m \in Lining /\ m.ended = l.ended /\ m.open = o
  BY <1>2 DEF Lining
<1> HIDE DEF m
<1>4. QED
  BY <1>1, <1>3, Zenon DEF o

LEMMA LineStepType == ASSUME NEW l \in Lining, NEW c \in Nat PROVE LineStep(l, c) \in Lining
<1>1. CASE c = LF
  BY <1>1, LineStepEnds, Zenon
<1>2. CASE c # LF
  BY <1>2, LineStepOn, Zenon
<1>3. QED
  BY <1>1, <1>2

Lined(s) == LineLoop(s)[Len(s)]

LEMMA LineSteps ==
  ASSUME NEW s \in Seq(Nat)
  PROVE  \E f \in [Nat -> Lining] :
           /\ f[0] = NoLine
           /\ \A i \in 1 .. Len(s) : f[i] = LineStep(f[i - 1], s[i])
           /\ Lined(s) = f[Len(s)]
<1> DEFINE n == Len(s)
           S(m, i) == LineStep(m, s[i])
           D == [i \in Nat |-> [m \in Lining |-> IF i < n THEN S(m, i + 1) ELSE m]]
           Def(g) == [i \in 0 .. n |-> IF i = 0 THEN NoLine ELSE S(g[i - 1], i)]
           c == CHOOSE g : g = Def(g)
<1>1. n \in Nat /\ \A i \in 1 .. n : s[i] \in Nat
  BY LenProperties, ElementOfSeq
<1>2. NoLine \in Lining
  <2>1. <<>> \in Seq(Nat) /\ <<>> \in Seq(Seq(Nat))
    BY EmptySeq
  <2>2. QED
    BY <2>1 DEF NoLine, Lining
<1>3. ASSUME NEW m \in Lining, NEW i \in 1 .. n PROVE S(m, i) \in Lining
  BY <1>1, LineStepType, Zenon
<1>4. LineLoop(s) = c
  BY Zenon DEF LineLoop
<1> HIDE DEF S, n
<1>5. D \in [Nat -> [Lining -> Lining]]
  <2>1. \A i \in Nat : i < n => i + 1 \in 1 .. n
    BY <1>1
  <2>2. \A i \in Nat, m \in Lining : (IF i < n THEN S(m, i + 1) ELSE m) \in Lining
    BY <1>3, <2>1
  <2>3. QED
    BY <2>2
<1>6. \A i \in Nat, m \in Lining : i < n => D[i][m] = S(m, i + 1)
  OBVIOUS
<1> HIDE DEF D
<1>7. PICK f : GoesOn(f, Lining, NoLine, D)
  BY <1>2, <1>5, Recursion
<1>8. /\ f \in [Nat -> Lining] /\ f[0] = NoLine
      /\ \A i \in 1 .. n : f[i] = S(f[i - 1], i)
  <2>1. f \in [Nat -> Lining] /\ f[0] = NoLine /\ \A i \in Nat : f[i + 1] = D[i][f[i]]
    BY <1>7 DEF GoesOn
  <2>2. ASSUME NEW i \in 1 .. n PROVE f[i] = S(f[i - 1], i)
    <3>1. i - 1 \in Nat /\ i - 1 < n /\ i - 1 + 1 = i
      BY <1>1
    <3>2. f[i] = D[i - 1][f[i - 1]] /\ f[i - 1] \in Lining
      BY <2>1, <3>1
    <3>3. D[i - 1][f[i - 1]] = S(f[i - 1], i - 1 + 1)
      BY <1>6, <3>1, <3>2
    <3>4. QED
      BY <3>1, <3>2, <3>3
  <2>3. QED
    BY <2>1, <2>2
<1> DEFINE r == [i \in 0 .. n |-> f[i]]
<1>9. r = Def(r)
  <2>1. ASSUME NEW i \in 0 .. n
        PROVE  f[i] = IF i = 0 THEN NoLine ELSE S(r[i - 1], i)
    <3>1. CASE i = 0
      BY <1>8, <3>1
    <3>2. CASE i # 0
      <4>1. i \in 1 .. n /\ i - 1 \in 0 .. n
        BY <1>1, <3>2
      <4>2. f[i] = S(f[i - 1], i) /\ r[i - 1] = f[i - 1]
        BY <1>8, <4>1
      <4>3. QED
        BY <3>2, <4>2
    <3>3. QED
      BY <3>1, <3>2
  <2>2. QED
    BY <2>1
<1> HIDE DEF r
<1>10. c = Def(c)
  BY <1>9
<1> HIDE DEF c
<1>11. \A i \in 0 .. n : c[i] = IF i = 0 THEN NoLine ELSE S(c[i - 1], i)
  BY <1>10
<1> DEFINE E == {i \in Nat : i <= n => c[i] = f[i]}
<1>12. 0 \in E
  BY <1>1, <1>8, <1>11
<1>13. ASSUME NEW i \in Nat, i \in E PROVE i + 1 \in E
  <2>1. SUFFICES ASSUME i + 1 <= n PROVE c[i + 1] = f[i + 1]
    OBVIOUS
  <2>2. c[i] = f[i] /\ i + 1 \in 1 .. n /\ i + 1 \in 0 .. n /\ i + 1 # 0 /\ (i + 1) - 1 = i
    BY <1>1, <1>13, <2>1
  <2>3. c[i + 1] = S(c[(i + 1) - 1], i + 1)
    BY <1>11, <2>2
  <2>4. f[i + 1] = S(f[(i + 1) - 1], i + 1)
    BY <1>8, <2>2
  <2>5. QED
    BY <2>2, <2>3, <2>4
<1> HIDE DEF E
<1>14. \A i \in Nat : i \in E
  BY <1>12, <1>13, SetInduction
<1>15. c[n] = f[n]
  BY <1>1, <1>14 DEF E
<1>16. QED
  BY <1>4, <1>8, <1>15 DEF Lined, S, n

LEMMA LineAppend ==
  ASSUME NEW s \in Seq(Nat), NEW c \in Nat
  PROVE  Lined(s \o <<c>>) = LineStep(Lined(s), c) /\ Lined(s) \in Lining
<1> DEFINE t == s \o <<c>>
           n == Len(s)
<1>1. n \in Nat
  BY LenProperties
<1>2. t \in Seq(Nat) /\ Len(t) = n + 1 /\ t[n + 1] = c /\ \A i \in 1 .. n : t[i] = s[i]
  BY AppendIsConcat, AppendProperties
<1>3. PICK f \in [Nat -> Lining] :
        /\ f[0] = NoLine /\ \A i \in 1 .. n : f[i] = LineStep(f[i - 1], s[i])
        /\ Lined(s) = f[n]
  BY LineSteps
<1> HIDE DEF t
<1>4. PICK g \in [Nat -> Lining] :
        /\ g[0] = NoLine /\ \A i \in 1 .. Len(t) : g[i] = LineStep(g[i - 1], t[i])
        /\ Lined(t) = g[Len(t)]
  BY <1>2, LineSteps
<1> HIDE DEF n
<1> DEFINE E == {i \in Nat : i <= n => f[i] = g[i]}
<1>5. 0 \in E
  BY <1>3, <1>4
<1>6. ASSUME NEW i \in Nat, i \in E PROVE i + 1 \in E
  <2>1. SUFFICES ASSUME i + 1 <= n PROVE f[i + 1] = g[i + 1]
    OBVIOUS
  <2>2. i + 1 \in 1 .. n /\ i + 1 \in 1 .. Len(t) /\ (i + 1) - 1 = i /\ f[i] = g[i]
    BY <1>1, <1>2, <1>6, <2>1
  <2>3. f[i + 1] = LineStep(f[(i + 1) - 1], s[i + 1])
    BY <1>3, <2>2
  <2>4. g[i + 1] = LineStep(g[(i + 1) - 1], t[i + 1])
    BY <1>4, <2>2
  <2>5. t[i + 1] = s[i + 1]
    BY <1>2, <2>2
  <2>6. QED
    BY <2>2, <2>3, <2>4, <2>5
<1> HIDE DEF E
<1>7. \A i \in Nat : i \in E
  BY <1>5, <1>6, SetInduction
<1>8. f[n] = g[n] /\ n + 1 \in 1 .. Len(t) /\ (n + 1) - 1 = n
  BY <1>1, <1>2, <1>7 DEF E
<1>9. g[n + 1] = LineStep(g[(n + 1) - 1], t[n + 1])
  BY <1>4, <1>8
<1>10. QED
  BY <1>1, <1>2, <1>3, <1>4, <1>8, <1>9 DEF t, n

(* The lines that ended, and the line that did not yet. *)
Goes(l, ended, open) == l \in Lining /\ l.ended = ended /\ l.open = open

LEMMA LinesNone == Goes(Lined(<<>>), <<>>, <<>>)
<1>1. <<>> \in Seq(Nat) /\ Len(<<>>) = 0
  BY EmptySeq
<1>2. PICK f \in [Nat -> Lining] :
        /\ f[0] = NoLine
        /\ \A i \in 1 .. Len(<<>>) : f[i] = LineStep(f[i - 1], <<>>[i])
        /\ Lined(<<>>) = f[Len(<<>>)]
  BY <1>1, LineSteps
<1>3. Lined(<<>>) = NoLine /\ NoLine \in Lining
  BY <1>1, <1>2
<1>4. NoLine.ended = <<>> /\ NoLine.open = <<>>
  BY DEF NoLine
<1>5. QED
  BY <1>3, <1>4, Zenon DEF Goes

(* Characters go to the open line... *)
LEMMA LinesOn ==
  ASSUME NEW s \in Seq(Nat), NEW ended, NEW open, Goes(Lined(s), ended, open),
         NEW x \in Seq(Nat), \A i \in 1 .. Len(x) : x[i] # LF
  PROVE  s \o x \in Seq(Nat) /\ Goes(Lined(s \o x), ended, open \o x)
<1> DEFINE n == Len(x)
           Sofar(i) == s \o First(x, i) \in Seq(Nat) /\ Goes(Lined(s \o First(x, i)), ended, open \o First(x, i))
           E == {i \in Nat : i <= n => Sofar(i)}
<1>1. n \in Nat /\ open \in Seq(Nat)
  BY LenProperties DEF Goes, Lining
<1>2. 0 \in E
  <2>1. First(x, 0) = <<>> /\ s \o <<>> = s /\ open \o <<>> = open
    BY <1>1, FirstSteps, ConcatEmptySeq
  <2>2. Sofar(0)
    BY <2>1, Zenon
  <2>3. QED
    BY <2>2
<1>3. ASSUME NEW k \in Nat, k \in E PROVE k + 1 \in E
  <2> DEFINE i == k + 1
             a == First(x, k)
             c == x[i]
  <2>1. SUFFICES ASSUME i <= n PROVE Sofar(i)
    OBVIOUS
  <2>2. i \in 1 .. n /\ i - 1 = k /\ Sofar(k)
    BY <1>1, <1>3, <2>1
  <2>3. First(x, i) = Append(a, c) /\ a \in Seq(Nat) /\ c \in Nat /\ c # LF
    BY <2>2, FirstSteps
  <2> HIDE DEF a, c
  <2>4. <<c>> \in Seq(Nat) /\ Append(a, c) = a \o <<c>>
    BY <2>3, AppendIsConcat
  <2>5. /\ s \o (a \o <<c>>) = (s \o a) \o <<c>>
        /\ open \o (a \o <<c>>) = (open \o a) \o <<c>>
    <3>1. \A u \in Seq(Nat) : u \o (a \o <<c>>) = (u \o a) \o <<c>>
      BY <2>3, <2>4, ConcatAssociative
    <3>2. QED
      BY <1>1, <3>1, Zenon
  <2>6. open \o a \in Seq(Nat) /\ s \o a \in Seq(Nat) /\ (s \o a) \o <<c>> \in Seq(Nat)
    BY <1>1, <2>3, <2>4, ConcatProperties
  <2>7. (open \o a) \o <<c>> = Append(open \o a, c)
    BY <2>3, <2>6, AppendIsConcat
  <2>8. Goes(Lined(s \o a), ended, open \o a)
    BY <2>2, Zenon DEF a
  <2>9. Lined((s \o a) \o <<c>>) = LineStep(Lined(s \o a), c)
    BY <2>3, <2>6, LineAppend, Zenon
  <2>10. Goes(LineStep(Lined(s \o a), c), ended, Append(open \o a, c))
    BY <2>3, <2>8, LineStepOn, Zenon DEF Goes
  <2>11. QED
    BY <2>3, <2>4, <2>5, <2>6, <2>7, <2>9, <2>10, Zenon
<1> HIDE DEF E
<1>4. \A i \in Nat : i \in E
  BY <1>2, <1>3, SetInduction
<1>5. Sofar(n)
  BY <1>1, <1>4 DEF E
<1>6. First(x, n) = x
  BY FirstSteps
<1>7. QED
  BY <1>5, <1>6, Zenon

(* ...and a newline ends it. *)
LEMMA LinesEnd ==
  ASSUME NEW s \in Seq(Nat), NEW ended, Goes(Lined(s), ended, <<>>),
         NEW x \in Seq(Nat), \A i \in 1 .. Len(x) : x[i] # LF
  PROVE  s \o (x \o <<LF>>) \in Seq(Nat) /\ Goes(Lined(s \o (x \o <<LF>>)), Append(ended, x), <<>>)
<1> DEFINE t == s \o x
           nl == <<LF>>
<1>1. t \in Seq(Nat) /\ Goes(Lined(t), ended, <<>> \o x)
  BY LinesOn, Zenon
<1>2. <<>> \o x = x
  BY ConcatEmptySeq
<1>3. LF \in Nat
  BY DEF LF
<1>4. nl \in Seq(Nat) /\ t \o nl \in Seq(Nat)
  BY <1>1, <1>3, AppendProperties, AppendIsConcat
<1>5. s \o (x \o nl) = t \o nl
  BY <1>4, ConcatAssociative
<1>6. Lined(t \o <<LF>>) = LineStep(Lined(t), LF)
  BY <1>1, <1>3, LineAppend, Zenon
<1>7. Goes(LineStep(Lined(t), LF), Append(ended, x), <<>>)
  BY <1>1, <1>2, LineStepEnds, Zenon DEF Goes
<1>8. QED
  BY <1>4, <1>5, <1>6, <1>7, Zenon

-----------------------------------------------------------------------------
(* A dump: for the bytes of p from the one after the first `line', a line. *)
DumpCount(p, line) == IF Len(p) - line > DumpWidth THEN DumpWidth ELSE Len(p) - line
DumpGap(i) == IF i - 1 = DumpWidth \div 2 THEN <<32>> ELSE <<>>
DumpTwo(p, line, i) ==
  IF i - 1 < DumpCount(p, line) THEN Hex!HexByte(p[line + (i - 1) + 1], FALSE) ELSE <<32, 32>>
DumpCell(p, line, i) == DumpGap(i) \o DumpTwo(p, line, i) \o <<32>>
DumpCells(p, line) == [i \in 1 .. DumpWidth |-> DumpCell(p, line, i)]
DumpHex(p, line)  == FlattenSeq(DumpCells(p, line))
DumpText(p, line) == [i \in 1 .. DumpCount(p, line) |-> Hex!Printable(p[line + i])]
DumpHead(line) == <<Hex!Offset(line), 58, 32>>
DumpBody(p, line) == DumpHead(line) \o DumpHex(p, line) \o <<32>> \o DumpText(p, line)

LEMMA DumpLineBody == ASSUME NEW p, NEW line PROVE Hex!DumpLine(p, line, DumpWidth) = DumpBody(p, line) \o <<LF>>
<1> DEFINE count == IF Len(p) - line > DumpWidth THEN DumpWidth ELSE Len(p) - line
           Cell(i) == (IF i = DumpWidth \div 2 THEN <<32>> ELSE <<>>) \o
                      (IF i < count THEN Hex!HexByte(p[line + i + 1], FALSE) ELSE <<32, 32>>) \o <<32>>
           cells == [i \in 1 .. DumpWidth |-> Cell(i - 1)]
<1>1. Hex!DumpLine(p, line, DumpWidth) =
        <<Hex!Offset(line), 58, 32>> \o Hex!FlattenSeq(cells) \o <<32>> \o
          [i \in 1 .. count |-> Hex!Printable(p[line + i])] \o <<Hex!Newline>>
  BY Zenon DEF Hex!DumpLine
<1>2. DumpCells(p, line) = cells
  BY Zenon DEF DumpCells, DumpCell, DumpGap, DumpTwo, DumpCount
<1>3. Hex!FlattenSeq(cells) = DumpHex(p, line)
  BY <1>2, SameFlatten, Zenon DEF DumpHex
<1>4. DumpText(p, line) = [i \in 1 .. count |-> Hex!Printable(p[line + i])]
  BY Zenon DEF DumpText, DumpCount
<1>5. Hex!Newline = LF
  BY DEF Hex!Newline, LF
<1>6. QED
  BY <1>1, <1>3, <1>4, <1>5, Zenon DEF DumpBody, DumpHead

(* How long two texts are together. *)
LEMMA LengthSum ==
  ASSUME NEW S, NEW x \in Seq(S), NEW y \in Seq(S) PROVE Len(x \o y) = Len(x) + Len(y)
  BY ConcatProperties

(* A line is of bytes that p has; what is in it is no newline. *)
Row(p, line) == p \in Seq(Byte) /\ line \in 0 .. Len(p)
Plain == Byte \ {LF}

LEMMA DumpCountType ==
  ASSUME NEW p, NEW line, Row(p, line)
  PROVE  /\ DumpCount(p, line) \in Nat /\ DumpCount(p, line) <= DumpWidth
         /\ line + DumpCount(p, line) <= Len(p)
<1> DEFINE n == Len(p)
<1>1. n \in Nat /\ line \in 0 .. n /\ DumpWidth \in Nat
  BY LenProperties, LineAssumption DEF Row
<1>2. DumpCount(p, line) = IF n - line > DumpWidth THEN DumpWidth ELSE n - line
  BY DEF DumpCount
<1> HIDE DEF n
<1>3. QED
  BY <1>1, <1>2 DEF n

LEMMA PlainHex == ASSUME NEW b \in Byte PROVE Hex!HexByte(b, FALSE) \in Seq(Plain) /\ Len(Hex!HexByte(b, FALSE)) = 2
<1> DEFINE c == Hex!HexDigit(b \div 16, FALSE)
           d == Hex!HexDigit(b % 16, FALSE)
<1>1. b \div 16 \in 0 .. 15 /\ b % 16 \in 0 .. 15
  BY DEF Byte
<1>2. c \in Byte /\ c \notin Hex!Space /\ d \in Byte /\ d \notin Hex!Space
  <2>1. FALSE \in BOOLEAN
    OBVIOUS
  <2>2. QED
    BY <1>1, <2>1, DigitOfNumber
<1>3. Hex!HexByte(b, FALSE) = <<c, d>>
  BY DEF Hex!HexByte
<1> HIDE DEF c, d
<1>4. c \in Plain /\ d \in Plain
  BY <1>2 DEF Plain, LF, Hex!Space
<1>5. <<c, d>> \in Seq(Plain) /\ Len(<<c, d>>) = 2
  BY <1>4
<1>6. QED
  BY <1>3, <1>5, Zenon

LEMMA DumpParts ==
  ASSUME NEW p, NEW line, Row(p, line), NEW i \in 1 .. DumpWidth
  PROVE  /\ DumpGap(i) \in Seq(Plain)
         /\ DumpTwo(p, line, i) \in Seq(Plain) /\ Len(DumpTwo(p, line, i)) = 2
         /\ i - 1 < DumpCount(p, line) => /\ line + i \in 1 .. Len(p)
                                          /\ DumpTwo(p, line, i) = Hex!HexByte(p[line + i], FALSE)
         /\ ~(i - 1 < DumpCount(p, line)) => DumpTwo(p, line, i) = <<32, 32>>
         /\ 32 \in Plain /\ <<32>> \in Seq(Plain) /\ Len(<<32>>) = 1
<1> DEFINE c == DumpCount(p, line)
           j == line + (i - 1) + 1
           h == Hex!HexByte(p[j], FALSE)
<1>1. c \in Nat /\ c <= DumpWidth /\ line + c <= Len(p) /\ line \in Nat /\ Len(p) \in Nat /\ DumpWidth \in Nat
  BY DumpCountType, LenProperties, LineAssumption DEF Row
<1>2. 32 \in Plain /\ <<32>> \in Seq(Plain) /\ Len(<<32>>) = 1 /\ <<>> \in Seq(Plain) /\ <<32, 32>> \in Seq(Plain) /\ Len(<<32, 32>>) = 2
  BY DEF Plain, Byte, LF
<1>3. DumpGap(i) \in Seq(Plain)
  BY <1>2, Zenon DEF DumpGap
<1>4. j = line + i /\ (i - 1 < c => line + i \in 1 .. Len(p))
  <2> HIDE DEF c
  <2>1. QED
    BY <1>1
<1>5. ASSUME i - 1 < c PROVE h \in Seq(Plain) /\ Len(h) = 2
  <2>1. j \in 1 .. Len(p)
    BY <1>4, <1>5
  <2>2. p[j] \in Byte
    BY <2>1, ElementOfSeq DEF Row
  <2>3. QED
    BY <2>2, PlainHex
<1>6. CASE i - 1 < c
  <2>1. DumpTwo(p, line, i) = h
    BY <1>6, Zenon DEF DumpTwo
  <2>2. h = Hex!HexByte(p[line + i], FALSE)
    BY <1>4
  <2> HIDE DEF h, c, j
  <2>3. QED
    BY <1>2, <1>3, <1>4, <1>5, <1>6, <2>1, <2>2, Zenon DEF c
<1>7. CASE ~(i - 1 < c)
  <2>1. DumpTwo(p, line, i) = <<32, 32>>
    BY <1>7, Zenon DEF DumpTwo
  <2> HIDE DEF c
  <2>2. QED
    BY <1>2, <1>3, <1>7, <2>1, Zenon DEF c
<1>8. QED
  BY <1>6, <1>7, Zenon

LEMMA DumpCellType ==
  ASSUME NEW p, NEW line, Row(p, line), NEW i \in 1 .. DumpWidth
  PROVE  /\ DumpCell(p, line, i) \in Seq(Plain)
         /\ Len(DumpCell(p, line, i)) = IF i - 1 = DumpWidth \div 2 THEN 4 ELSE 3
<1> DEFINE a == DumpGap(i)
           b == DumpTwo(p, line, i)
           e == <<32>>
<1>1. /\ a \in Seq(Plain) /\ b \in Seq(Plain) /\ Len(b) = 2 /\ e \in Seq(Plain) /\ Len(e) = 1
  BY DumpParts, Zenon
<1>2. Len(a) = IF i - 1 = DumpWidth \div 2 THEN 1 ELSE 0
  BY DEF DumpGap
<1>3. DumpCell(p, line, i) = (a \o b) \o e
  BY DEF DumpCell
<1> HIDE DEF a, b, e
<1>4. a \o b \in Seq(Plain) /\ Len(a \o b) = Len(a) + Len(b)
  BY <1>1, ConcatProperties
<1>5. (a \o b) \o e \in Seq(Plain) /\ Len((a \o b) \o e) = Len(a \o b) + Len(e)
  BY <1>1, <1>4, ConcatProperties
<1>6. QED
  BY <1>1, <1>2, <1>3, <1>4, <1>5

(* The hex column is as wide in every line. *)
LEMMA DumpHexSteps ==
  ASSUME NEW p, NEW line, Row(p, line)
  PROVE  \E f \in [Nat -> Seq(Plain)] :
           /\ f[0] = <<>>
           /\ \A i \in 1 .. DumpWidth : f[i] = f[i - 1] \o DumpCell(p, line, i)
           /\ DumpHex(p, line) = f[DumpWidth]
<1> DEFINE ss == DumpCells(p, line)
<1>1. DumpWidth \in Nat
  BY LineAssumption
<1>2. ss \in Seq(Seq(Plain)) /\ Len(ss) = DumpWidth /\ \A i \in 1 .. DumpWidth : ss[i] = DumpCell(p, line, i)
  <2>1. \A i \in 1 .. DumpWidth : DumpCell(p, line, i) \in Seq(Plain)
    BY DumpCellType
  <2>2. QED
    BY <1>1, <2>1 DEF DumpCells
<1> HIDE DEF ss
<1>3. PICK f \in [Nat -> Seq(Plain)] :
        /\ f[0] = <<>> /\ \A i \in 1 .. Len(ss) : f[i] = f[i - 1] \o ss[i]
        /\ FlattenSeq(ss) = f[Len(ss)]
  BY <1>2, FlattenSteps
<1>4. QED
  BY <1>2, <1>3 DEF DumpHex, ss

CellsWide(i) == 3 * i + (IF i > DumpWidth \div 2 THEN 1 ELSE 0)

LEMMA CellWider ==
  ASSUME NEW i \in 1 .. DumpWidth
  PROVE  CellsWide(i) = CellsWide(i - 1) + (IF i - 1 = DumpWidth \div 2 THEN 4 ELSE 3)
<1> DEFINE h == DumpWidth \div 2
<1>1. h \in Nat
  BY LineAssumption
<1>2. i \in Nat /\ CellsWide(i) = 3 * i + (IF i > h THEN 1 ELSE 0)
      /\ CellsWide(i - 1) = 3 * (i - 1) + (IF i - 1 > h THEN 1 ELSE 0)
  BY LineAssumption DEF CellsWide
<1> HIDE DEF h
<1>3. CellsWide(i) = CellsWide(i - 1) + (IF i - 1 = h THEN 4 ELSE 3)
  BY <1>1, <1>2
<1>4. QED
  BY <1>3 DEF h

LEMMA DumpHexType ==
  ASSUME NEW p, NEW line, Row(p, line)
  PROVE  DumpHex(p, line) \in Seq(Plain) /\ Len(DumpHex(p, line)) = 3 * DumpWidth + 1
<1>1. PICK f \in [Nat -> Seq(Plain)] :
           /\ f[0] = <<>>
           /\ \A i \in 1 .. DumpWidth : f[i] = f[i - 1] \o DumpCell(p, line, i)
           /\ DumpHex(p, line) = f[DumpWidth]
  BY DumpHexSteps
<1>2. DumpWidth \in Nat /\ DumpWidth > DumpWidth \div 2 /\ DumpWidth \div 2 \in Nat
  BY LineAssumption
<1> DEFINE E == {i \in Nat : i <= DumpWidth => Len(f[i]) = CellsWide(i)}
<1>3. 0 \in E
  BY <1>1, <1>2, EmptySeq DEF CellsWide
<1>4. ASSUME NEW k \in Nat, k \in E PROVE k + 1 \in E
  <2> DEFINE i == k + 1
             c == DumpCell(p, line, i)
  <2>1. SUFFICES ASSUME i <= DumpWidth PROVE Len(f[i]) = CellsWide(i)
    OBVIOUS
  <2>2. i \in 1 .. DumpWidth /\ i - 1 = k /\ Len(f[k]) = CellsWide(k)
    BY <1>2, <1>4, <2>1
  <2>3. c \in Seq(Plain) /\ Len(c) = IF i - 1 = DumpWidth \div 2 THEN 4 ELSE 3
    BY <2>2, DumpCellType
  <2>4. f[i] = f[k] \o c
    BY <1>1, <2>2
  <2> HIDE DEF c
  <2>5. Len(f[k] \o c) = Len(f[k]) + Len(c)
    <3>1. f[k] \in Seq(Plain)
      BY <1>1
    <3>2. QED
      BY <2>3, <3>1, LengthSum, Zenon
  <2>6. CellsWide(i) = CellsWide(k) + (IF i - 1 = DumpWidth \div 2 THEN 4 ELSE 3)
    <3>1. CellsWide(i) = CellsWide(i - 1) + (IF i - 1 = DumpWidth \div 2 THEN 4 ELSE 3)
      BY <2>2, CellWider, Zenon
    <3>2. QED
      BY <2>2, <3>1, Zenon
  <2>7. QED
    BY <2>2, <2>3, <2>4, <2>5, <2>6, Zenon
<1> HIDE DEF E
<1>5. \A i \in Nat : i \in E
  BY <1>3, <1>4, SetInduction
<1>6. Len(f[DumpWidth]) = CellsWide(DumpWidth)
  BY <1>2, <1>5 DEF E
<1>7. CellsWide(DumpWidth) = 3 * DumpWidth + 1
  BY <1>2 DEF CellsWide
<1>8. f[DumpWidth] \in Seq(Plain)
  BY <1>2
<1>9. QED
  BY <1>1, <1>6, <1>7, <1>8, Zenon

(* The hex column of a line reads back. *)
LEMMA DumpCellReads ==
  ASSUME NEW p, NEW line, Row(p, line), NEW i \in 1 .. DumpWidth, NEW s, NEW out, Whole(s, out, TRUE)
  PROVE  /\ i - 1 < DumpCount(p, line) => Whole(s \o DumpCell(p, line, i), Append(out, p[line + i]), TRUE)
         /\ ~(i - 1 < DumpCount(p, line)) => Whole(s \o DumpCell(p, line, i), out, TRUE)
<1> DEFINE a == DumpGap(i)
           b == DumpTwo(p, line, i)
           e == <<32>>
           t == s \o DumpCell(p, line, i)
           some == i - 1 < DumpCount(p, line)
           then == IF some THEN Append(out, p[line + i]) ELSE out
<1>1. /\ a \in Seq(Plain) /\ b \in Seq(Plain) /\ e \in Seq(Plain)
      /\ some => line + i \in 1 .. Len(p) /\ b = Hex!HexByte(p[line + i], FALSE)
      /\ ~some => b = <<32, 32>>
  BY DumpParts, Zenon
<1>2. Plain \subseteq Byte /\ 32 \in Byte /\ Skips(32, TRUE) /\ TRUE \in BOOLEAN
  BY DEF Plain, Byte, Skips, Hex!Space
<1>3. a \in Seq(Byte) /\ b \in Seq(Byte) /\ e \in Seq(Byte) /\ s \in Seq(Byte)
  BY <1>1, <1>2, SeqMonotonic DEF Whole
<1>4. a = <<32>> \/ a = <<>>
  BY DEF DumpGap
<1>5. DumpCell(p, line, i) = (a \o b) \o e
  BY DEF DumpCell
<1> HIDE DEF a, b, e, some, then
<1> DEFINE u == s \o a
           v == u \o b
<1>6. t = v \o e
  <2>1. a \o b \in Seq(Byte) /\ u \in Seq(Byte)
    BY <1>3, ConcatProperties
  <2>2. Associates(s, a \o b, e)
    BY <1>3, <2>1, Associative, Zenon
  <2>3. Associates(s, a, b)
    BY <1>3, Associative, Zenon
  <2>4. QED
    BY <1>5, <2>2, <2>3, Zenon DEF Associates
<1>7. Whole(u, out, TRUE)
  <2>1. CASE a = <<32>>
    <3>1. Whole(s \o <<32>>, out, TRUE)
      BY <1>2, DecodeSkipped, Zenon
    <3>2. QED
      BY <2>1, <3>1, Zenon
  <2>2. CASE a = <<>>
    <3>1. s \o <<>> = s
      BY <1>3, ConcatEmptySeq
    <3>2. QED
      BY <2>2, <3>1, Zenon
  <2>3. QED
    BY <1>4, <2>1, <2>2
<1> HIDE DEF u
<1>8. Whole(v, then, TRUE)
  <2>1. CASE some
    <3>1. p[line + i] \in Byte
      <4>1. p \in Seq(Byte) /\ line + i \in 1 .. Len(p)
        BY <1>1, <2>1 DEF Row
      <4>2. QED
        BY <4>1, ElementOfSeq
    <3>2. Whole(u \o Hex!HexByte(p[line + i], FALSE), Append(out, p[line + i]), TRUE)
      BY <1>2, <1>7, <3>1, DecodeByte
    <3>3. b = Hex!HexByte(p[line + i], FALSE) /\ then = Append(out, p[line + i])
      BY <1>1, <2>1, Zenon DEF then
    <3>4. QED
      BY <3>2, <3>3, Zenon
  <2>2. CASE ~some
    <3>1. Whole(u \o <<32>>, out, TRUE)
      BY <1>2, <1>7, DecodeSkipped, Zenon
    <3>2. Whole((u \o <<32>>) \o <<32>>, out, TRUE)
      BY <1>2, <3>1, DecodeSkipped, Zenon
    <3>3. u \o <<32, 32>> = (u \o <<32>>) \o <<32>>
      <4>1. u \in Seq(Byte) /\ <<32>> \in Seq(Byte)
        BY <1>2, <1>7 DEF Whole
      <4>2. <<32, 32>> = <<32>> \o <<32>>
        OBVIOUS
      <4>3. u \o (<<32>> \o <<32>>) = (u \o <<32>>) \o <<32>>
        BY <4>1, ConcatAssociative
      <4>4. QED
        BY <4>2, <4>3, Zenon
    <3>4. b = <<32, 32>> /\ then = out
      BY <1>1, <2>2, Zenon DEF then
    <3>5. QED
      BY <3>2, <3>3, <3>4, Zenon
  <2>3. QED
    BY <2>1, <2>2
<1> HIDE DEF v
<1>9. Whole(t, then, TRUE)
  <2>1. Whole(v \o <<32>>, then, TRUE)
    BY <1>2, <1>8, DecodeSkipped, Zenon
  <2>2. QED
    BY <1>6, <2>1, Zenon DEF e
<1>10. QED
  BY <1>9, Zenon DEF then, some

Least(i, c) == IF i < c THEN i ELSE c

LEMMA DumpHexReads ==
  ASSUME NEW p, NEW line, Row(p, line), NEW s, Whole(s, First(p, line), TRUE)
  PROVE  Whole(s \o DumpHex(p, line), First(p, line + DumpCount(p, line)), TRUE)
<1> DEFINE c == DumpCount(p, line)
           out(i) == First(p, line + Least(i, c))
<1>1. PICK f \in [Nat -> Seq(Plain)] :
           /\ f[0] = <<>>
           /\ \A i \in 1 .. DumpWidth : f[i] = f[i - 1] \o DumpCell(p, line, i)
           /\ DumpHex(p, line) = f[DumpWidth]
  BY DumpHexSteps
<1>2. DumpWidth \in Nat /\ line \in Nat /\ c \in Nat /\ c <= DumpWidth /\ line + c <= Len(p) /\ p \in Seq(Byte)
      /\ Len(p) \in Nat
  <2>1. DumpWidth \in Nat
    BY LineAssumption
  <2>2. c \in Nat /\ c <= DumpWidth /\ line + c <= Len(p)
    BY DumpCountType, Zenon
  <2>3. p \in Seq(Byte) /\ Len(p) \in Nat /\ line \in Nat
    BY LenProperties DEF Row
  <2>4. QED
    BY <2>1, <2>2, <2>3, Zenon
<1>3. s \in Seq(Byte)
  BY DEF Whole
<1> HIDE DEF c
<1> DEFINE Reads(i) == Whole(s \o f[i], out(i), TRUE)
           E == {i \in Nat : i <= DumpWidth => Reads(i)}
<1>4. 0 \in E
  <2>1. s \o f[0] = s
    BY <1>1, <1>3, ConcatEmptySeq
  <2>2. Least(0, c) = 0 /\ line + 0 = line
    BY <1>2 DEF Least
  <2>3. Reads(0)
    BY <2>1, <2>2, Zenon
  <2> HIDE DEF Reads
  <2>4. QED
    BY <2>3
<1>5. ASSUME NEW k \in Nat, k \in E PROVE k + 1 \in E
  <2> DEFINE i == k + 1
             x == DumpCell(p, line, i)
             y == f[k]
  <2> HIDE DEF Reads
  <2>1. SUFFICES ASSUME i <= DumpWidth PROVE Reads(i)
    OBVIOUS
  <2>2. i \in 1 .. DumpWidth /\ i - 1 = k /\ Reads(k)
    BY <1>2, <1>5, <2>1
  <2> USE DEF Reads
  <2>3. f[i] = y \o x
    BY <1>1, <2>2
  <2>4. s \o f[i] = (s \o y) \o x
    <3>1. Plain \subseteq Byte
      BY DEF Plain
    <3>2. y \in Seq(Plain) /\ x \in Seq(Plain)
      BY <1>1, <2>2, DumpCellType
    <3>3. y \in Seq(Byte) /\ x \in Seq(Byte)
      BY <3>1, <3>2, SeqMonotonic
    <3> HIDE DEF x, y
    <3>4. Associates(s, y, x)
      BY <1>3, <3>3, Associative, Zenon
    <3>5. QED
      BY <2>3, <3>4, Zenon DEF Associates
  <2>5. CASE i - 1 < c
    <3>1. Whole((s \o y) \o x, Append(out(k), p[line + i]), TRUE)
      BY <2>2, <2>5, DumpCellReads, Zenon DEF c
    <3>2. Least(i, c) = i /\ Least(k, c) = k
      BY <1>2, <2>2, <2>5, SMTT(20) DEF Least
    <3>3. line + i \in 1 .. Len(p) /\ (line + i) - 1 = line + k
      BY <1>2, <2>2, <2>5
    <3>4. First(p, line + i) = Append(First(p, (line + i) - 1), p[line + i])
      BY <1>2, <3>3, FirstSteps, Zenon
    <3>5. out(i) = Append(out(k), p[line + i])
      BY <3>2, <3>3, <3>4, Zenon
    <3>6. QED
      BY <2>4, <3>1, <3>5, Zenon
  <2>6. CASE ~(i - 1 < c)
    <3>1. Whole((s \o y) \o x, out(k), TRUE)
      BY <2>2, <2>6, DumpCellReads, Zenon DEF c
    <3>2. Least(i, c) = Least(k, c)
      BY <1>2, <2>2, <2>6 DEF Least
    <3>3. QED
      BY <2>4, <3>1, <3>2, Zenon
  <2>7. QED
    BY <2>5, <2>6, Zenon
<1> HIDE DEF E
<1>6. \A i \in Nat : i \in E
  BY <1>4, <1>5, SetInduction
<1>7. Reads(DumpWidth)
  <2> HIDE DEF Reads
  <2>1. QED
    BY <1>2, <1>6 DEF E
<1>8. Least(DumpWidth, c) = c
  BY <1>2 DEF Least
<1>9. QED
  BY <1>1, <1>7, <1>8, Zenon DEF c

(* A part of a text, between what stands before and behind it. *)
LEMMA FrontOf ==
  ASSUME NEW c \in Seq(Nat), NEW b \in Seq(Nat)
  PROVE  c \o b \in Seq(Nat) /\ \A i \in 1 .. Len(c) : (c \o b)[i] = c[i]
<1>1. Len(c) \in Nat /\ Len(b) \in Nat
  BY LenProperties
<1>2. c \o b \in Seq(Nat)
      /\ \A i \in 1 .. Len(c) + Len(b) : (c \o b)[i] = IF i <= Len(c) THEN c[i] ELSE b[i - Len(c)]
  BY ConcatProperties
<1>3. QED
  BY <1>1, <1>2

LEMMA PartOf ==
  ASSUME NEW a \in Seq(Nat), NEW x \in Seq(Nat), NEW b \in Seq(Nat)
  PROVE  SubSeq((a \o x) \o b, Len(a) + 1, Len(a) + Len(x)) = x
<1> DEFINE c == a \o x
           t == c \o b
           m == Len(a)
           n == Len(x)
           u == SubSeq(t, m + 1, m + n)
<1>1. m \in Nat /\ n \in Nat
  BY LenProperties
<1>2. c \in Seq(Nat) /\ Len(c) = m + n /\ \A i \in 1 .. m + n : c[i] = IF i <= m THEN a[i] ELSE x[i - m]
  BY ConcatProperties
<1>3. \A i \in 1 .. Len(c) : t[i] = c[i] /\ c[i] \in Nat
  <2>1. \A i \in 1 .. Len(c) : c[i] \in Nat
    BY <1>2, ElementOfSeq
  <2> HIDE DEF c
  <2>2. \A i \in 1 .. Len(c) : (c \o b)[i] = c[i]
    BY <1>2, FrontOf, Zenon
  <2>3. QED
    BY <2>1, <2>2, Zenon
<1> HIDE DEF t, c, m, n
<1>4. u \in Seq(Nat) /\ Len(u) = n /\ \A i \in 1 .. n : u[i] = t[(m + 1) + i - 1]
  <2>1. \A i \in m + 1 .. m + n : t[i] \in Nat
    BY <1>1, <1>2, <1>3, SMTT(20)
  <2>2. m + 1 \in Int /\ m + n \in Int
    BY <1>1
  <2>3. /\ u \in Seq(Nat)
        /\ Len(u) = IF m + 1 <= m + n THEN (m + n) - (m + 1) + 1 ELSE 0
        /\ \A i \in 1 .. (m + n) - (m + 1) + 1 : u[i] = t[(m + 1) + i - 1]
    BY <2>1, <2>2, SubSeqProperties
  <2>4. QED
    BY <1>1, <2>3
<1> HIDE DEF u
<1>5. \A i \in 1 .. n : u[i] = x[i]
  <2> SUFFICES ASSUME NEW i \in 1 .. n PROVE u[i] = x[i]
    OBVIOUS
  <2>1. (m + 1) + i - 1 = m + i /\ m + i \in 1 .. m + n /\ ~(m + i <= m) /\ (m + i) - m = i
    BY <1>1
  <2>2. u[i] = c[m + i]
    BY <1>2, <1>3, <1>4, <2>1
  <2>3. c[m + i] = x[(m + i) - m]
    BY <1>2, <2>1
  <2>4. QED
    BY <2>1, <2>2, <2>3
<1>6. u = x
  BY <1>4, <1>5, SeqEqual DEF n
<1>7. QED
  BY <1>6 DEF u, t, c, m, n

(* The column of characters. *)
LEMMA DumpTextType ==
  ASSUME NEW p, NEW line, Row(p, line)
  PROVE  DumpText(p, line) \in Seq(Plain) /\ Len(DumpText(p, line)) = DumpCount(p, line)
<1> DEFINE c == DumpCount(p, line)
<1>1. c \in Nat /\ line + c <= Len(p)
  BY DumpCountType, Zenon
<1>2. p \in Seq(Byte) /\ line \in Nat /\ Len(p) \in Nat
  BY LenProperties DEF Row
<1> HIDE DEF c
<1>3. ASSUME NEW i \in 1 .. c PROVE Hex!Printable(p[line + i]) \in Plain
  <2>1. line + i \in 1 .. Len(p)
    BY <1>1, <1>2
  <2>2. p[line + i] \in Byte
    BY <1>2, <2>1, ElementOfSeq
  <2>3. \A b \in Byte : Hex!Printable(b) \in Plain
    BY DEF Hex!Printable, Byte, Plain, LF
  <2>4. QED
    BY <2>2, <2>3
<1>4. DumpText(p, line) = [i \in 1 .. c |-> Hex!Printable(p[line + i])]
  BY DEF DumpText, c
<1>5. QED
  BY <1>1, <1>3, <1>4 DEF c

LEMMA PlainText == ASSUME NEW s \in Seq(Plain) PROVE s \in Seq(Nat) /\ \A i \in 1 .. Len(s) : s[i] # LF
<1>1. Plain \subseteq Nat /\ LF \notin Plain
  <2>1. Byte \subseteq Nat
    BY DEF Byte
  <2>2. QED
    BY <2>1, Zenon DEF Plain
<1>2. s \in Seq(Nat)
  BY <1>1, SeqMonotonic
<1>3. ASSUME NEW i \in 1 .. Len(s) PROVE s[i] # LF
  <2>1. s[i] \in Plain
    BY ElementOfSeq
  <2>2. QED
    BY <1>1, <2>1
<1>4. QED
  BY <1>2, <1>3

(* No character of a text is a newline. *)
NoneEnds(s) == s \in Seq(Nat) /\ \A i \in 1 .. Len(s) : s[i] # LF

LEMMA NoneEndsBoth == ASSUME NEW s, NEW t, NoneEnds(s), NoneEnds(t) PROVE NoneEnds(s \o t)
<1> DEFINE u == s \o t
<1>1. s \in Seq(Nat) /\ t \in Seq(Nat) /\ Len(s) \in Nat /\ Len(t) \in Nat
  BY LenProperties DEF NoneEnds
<1>2. u \in Seq(Nat) /\ Len(u) = Len(s) + Len(t)
      /\ \A i \in 1 .. Len(s) + Len(t) : u[i] = IF i <= Len(s) THEN s[i] ELSE t[i - Len(s)]
  BY <1>1, ConcatProperties
<1> HIDE DEF u
<1>3. ASSUME NEW i \in 1 .. Len(u) PROVE u[i] # LF
  <2>1. CASE i <= Len(s)
    <3>1. i \in 1 .. Len(s) /\ u[i] = s[i]
      BY <1>1, <1>2, <2>1
    <3>2. QED
      BY <3>1 DEF NoneEnds
  <2>2. CASE ~(i <= Len(s))
    <3>1. i - Len(s) \in 1 .. Len(t) /\ u[i] = t[i - Len(s)]
      BY <1>1, <1>2, <2>2
    <3>2. QED
      BY <3>1 DEF NoneEnds
  <2>3. QED
    BY <2>1, <2>2
<1>4. QED
  BY <1>2, <1>3 DEF NoneEnds, u

(* A line of the dump, and where its columns are. *)
LEMMA DumpBodyParts ==
  ASSUME NEW p, NEW line, Row(p, line)
  PROVE  /\ NoneEnds(DumpBody(p, line))
         /\ HexColumn(DumpBody(p, line)) = DumpHex(p, line)
         /\ TextColumn(DumpBody(p, line)) = DumpText(p, line)
<1> DEFINE a == DumpHead(line)
           x == DumpHex(p, line)
           b == <<32>>
           z == DumpText(p, line)
           w == 3 * DumpWidth + 1
<1>1. NoneEnds(a) /\ Len(a) = 3
  <2>1. Hex!Offset(line) \in Nat /\ Hex!Offset(line) # LF
    BY LenProperties DEF Hex!Offset, LF, Row
  <2>2. 58 # LF /\ 32 # LF
    BY DEF LF
  <2> DEFINE o == Hex!Offset(line)
  <2> HIDE DEF o
  <2>3. <<o, 58, 32>> \in Seq(Nat) /\ Len(<<o, 58, 32>>) = 3 /\ \A i \in 1 .. 3 : <<o, 58, 32>>[i] # LF
    BY <2>1, <2>2 DEF o
  <2>4. QED
    BY <2>3, Zenon DEF NoneEnds, DumpHead, o
<1>2. NoneEnds(x) /\ Len(x) = w
  BY DumpHexType, PlainText, Zenon DEF NoneEnds
<1>3. NoneEnds(b) /\ Len(b) = 1
  BY DEF NoneEnds, LF
<1>4. NoneEnds(z)
  BY DumpTextType, PlainText, Zenon DEF NoneEnds
<1>5. DumpBody(p, line) = ((a \o x) \o b) \o z
  BY Zenon DEF DumpBody
<1>6. DumpWidth \in Nat
  BY LineAssumption
<1> HIDE DEF a, x, b, z
<1> DEFINE ax == a \o x
           axb == ax \o b
<1>7. NoneEnds(ax) /\ NoneEnds(axb) /\ NoneEnds(axb \o z) /\ NoneEnds(b \o z)
  BY <1>1, <1>2, <1>3, <1>4, NoneEndsBoth, Zenon
<1>8. a \in Seq(Nat) /\ x \in Seq(Nat) /\ b \in Seq(Nat) /\ z \in Seq(Nat)
      /\ ax \in Seq(Nat) /\ axb \in Seq(Nat) /\ b \o z \in Seq(Nat)
  BY <1>1, <1>2, <1>3, <1>4, <1>7, Zenon DEF NoneEnds
<1>9. Len(ax) = 3 * DumpWidth + 4
  <2>1. Len(ax) = Len(a) + Len(x)
    BY <1>8, LengthSum, Zenon
  <2>2. QED
    BY <1>1, <1>2, <1>6, <2>1
<1>10. Len(axb) = 3 * DumpWidth + 5
  <2>1. Len(axb) = Len(ax) + Len(b)
    BY <1>8, LengthSum, Zenon
  <2>2. QED
    BY <1>3, <1>6, <1>9, <2>1
<1>11. axb \o z = (a \o x) \o (b \o z)
  <2> HIDE DEF ax
  <2>1. Associates(ax, b, z)
    BY <1>8, Associative, Zenon
  <2>2. QED
    BY <2>1, Zenon DEF ax, Associates
<1>12. SubSeq(axb \o z, 4, 3 * DumpWidth + 4) = x
  <2>1. 4 = Len(a) + 1 /\ 3 * DumpWidth + 4 = Len(a) + Len(x)
    BY <1>1, <1>2, <1>6
  <2>2. SubSeq((a \o x) \o (b \o z), Len(a) + 1, Len(a) + Len(x)) = x
    BY <1>8, PartOf, Zenon
  <2>3. QED
    BY <1>11, <2>1, <2>2, Zenon
<1>13. SubSeq(axb \o z, 3 * DumpWidth + 6, Len(axb \o z)) = z
  <2> HIDE DEF axb
  <2>1. Len(axb \o z) = Len(axb) + Len(z)
    BY <1>8, LengthSum, Zenon
  <2>2. 3 * DumpWidth + 6 = Len(axb) + 1
    BY <1>6, <1>10
  <2>3. (axb \o z) \o <<>> = axb \o z /\ <<>> \in Seq(Nat)
    BY <1>7, ConcatEmptySeq DEF NoneEnds
  <2>4. SubSeq((axb \o z) \o <<>>, Len(axb) + 1, Len(axb) + Len(z)) = z
    BY <1>8, <2>3, PartOf, Zenon
  <2>5. QED
    BY <2>1, <2>2, <2>3, <2>4, Zenon
<1>14. QED
  BY <1>5, <1>7, <1>12, <1>13, Zenon DEF HexColumn, TextColumn, x, z

(* The lines of a dump: the k-th begins after the bytes of those before. *)
DumpLines(p)   == (Len(p) + DumpWidth - 1) \div DumpWidth
DumpStart(k)   == (k - 1) * DumpWidth
DumpDone(p, k) == Least(k * DumpWidth, Len(p))

LEMMA MultipleGrows == ASSUME NEW w \in Nat, NEW a \in Nat, NEW b \in Nat, a <= b PROVE a * w <= b * w
<1>1. PICK d \in Nat : b = a + d
  <2>1. b - a \in Nat /\ b = a + (b - a)
    OBVIOUS
  <2>2. QED
    BY <2>1
<1>2. (a + d) * w = a * w + d * w
  BY SMT
<1>3. d * w \in Nat /\ a * w \in Nat
  BY SMT
<1> DEFINE x == a * w
           y == d * w
           z == (a + d) * w
<1>4. x \in Nat /\ y \in Nat /\ z = x + y
  BY <1>2, <1>3
<1> HIDE DEF x, y, z
<1>5. x <= z
  BY <1>4
<1>6. QED
  BY <1>1, <1>5, Zenon DEF x, z

Divided(x, w, q, r) == q \in Nat /\ r \in 0 .. w - 1 /\ x = w * q + r

LEMMA Division == ASSUME NEW x \in Nat, NEW w \in Nat \ {0} PROVE Divided(x, w, x \div w, x % w)
<1> DEFINE q == x \div w
           r == x % w
<1>1. q \in Nat /\ r \in 0 .. w - 1 /\ x = w * q + r
  BY SMT
<1> HIDE DEF q, r
<1>2. Divided(x, w, q, r)
  BY <1>1, Zenon DEF Divided
<1>3. QED
  BY <1>2 DEF q, r

LEMMA RoundedUp ==
  ASSUME NEW n \in Nat, NEW w \in Nat \ {0}, NEW m, m = (n + w - 1) \div w
  PROVE  m \in Nat /\ n <= m * w /\ (m > 0 => (m - 1) * w < n)
<1> DEFINE x == n + w - 1
           r == x % w
<1>1. x \in Nat
  OBVIOUS
<1>2. m \in Nat /\ r \in 0 .. w - 1 /\ x = w * m + r
  <2>1. Divided(x, w, x \div w, x % w)
    BY <1>1, Division, Zenon
  <2>2. QED
    BY <2>1, Zenon DEF Divided
<1> HIDE DEF r
<1>3. m * w = w * m /\ (m - 1) * w = w * m - w /\ w * m \in Nat
  BY <1>2, SMT
<1> DEFINE y == w * m
<1>4. x = y + r /\ y \in Nat /\ m * w = y /\ (m - 1) * w = y - w
  BY <1>2, <1>3, Zenon
<1> HIDE DEF y
<1>5. n <= y /\ y - w < n
  BY <1>2, <1>4
<1>6. QED
  BY <1>2, <1>4, <1>5, Zenon

(* What holds of a dump's k-th line. *)
DumpAt(p, k) ==
  /\ Row(p, DumpStart(k)) /\ DumpStart(k) = DumpDone(p, k - 1)
  /\ DumpStart(k) + DumpCount(p, DumpStart(k)) = DumpDone(p, k)

LEMMA DumpWhere ==
  ASSUME NEW p \in Seq(Byte)
  PROVE  /\ DumpLines(p) \in Nat /\ DumpDone(p, 0) = 0 /\ DumpDone(p, DumpLines(p)) = Len(p)
         /\ \A k \in 1 .. DumpLines(p) : DumpAt(p, k)
<1> DEFINE n == Len(p)
           w == DumpWidth
           m == DumpLines(p)
<1>1. n \in Nat /\ w \in Nat \ {0}
  BY LenProperties, LineAssumption
<1>2. m = (n + w - 1) \div w
  BY DEF DumpLines
<1> HIDE DEF n, w, m
<1>3. m \in Nat /\ n <= m * w /\ (m > 0 => (m - 1) * w < n)
  BY <1>1, <1>2, RoundedUp, Zenon
<1>4. Least(0 * w, n) = 0
  BY <1>1 DEF Least
<1>5. Least(m * w, n) = n
  <2> DEFINE y == m * w
  <2>1. y \in Int
    BY <1>1, <1>3, SMT
  <2>2. n <= y
    BY <1>3
  <2> HIDE DEF y
  <2>3. Least(y, n) = n
    BY <1>1, <2>1, <2>2 DEF Least
  <2>4. QED
    BY <2>3 DEF y
<1>6. ASSUME NEW k \in 1 .. m PROVE DumpAt(p, k)
  <2> DEFINE y == (k - 1) * w
             z == k * w
             v == (m - 1) * w
             c == DumpCount(p, y)
  <2>1. k - 1 \in Nat /\ m - 1 \in Nat /\ k - 1 <= m - 1 /\ m > 0 /\ k \in Nat
    BY <1>3
  <2>2. y <= v
    BY <1>1, <2>1, MultipleGrows
  <2>3. y \in Nat /\ z = y + w /\ v \in Nat
    BY <1>1, <2>1, SMT
  <2>4. v < n
    BY <1>3, <2>1
  <2>5. c = IF n - y > w THEN w ELSE n - y
    BY DEF DumpCount, n, w
  <2> HIDE DEF y, z, v, c
  <2>6. y < n
    BY <1>1, <2>2, <2>3, <2>4
  <2>7. Least(y, n) = y /\ y + c = Least(z, n) /\ y \in 0 .. n
    BY <1>1, <2>3, <2>5, <2>6 DEF Least
  <2>8. DumpStart(k) = y /\ DumpDone(p, k - 1) = Least(y, n) /\ DumpDone(p, k) = Least(z, n)
    BY Zenon DEF DumpStart, DumpDone, y, z, n, w
  <2>9. Row(p, y)
    BY <2>7 DEF Row, n
  <2>10. QED
    BY <2>7, <2>8, <2>9, Zenon DEF DumpAt, c
<1>7. QED
  BY <1>3, <1>4, <1>5, <1>6, Zenon DEF DumpDone, n, w, m

(* The lines that are read in a dump are those that were written. *)
DumpBodies(p) == [k \in 1 .. DumpLines(p) |-> DumpBody(p, DumpStart(k))]

LEMMA DumpRead == ASSUME NEW p \in Seq(Byte) PROVE Lines(Hex!cc_hexdump_encode(p, DumpWidth)) = DumpBodies(p)
<1> DEFINE m == DumpLines(p)
           B == DumpBodies(p)
           nl == <<LF>>
           L(k) == DumpBody(p, DumpStart(k)) \o nl
           ss == [k \in 1 .. m |-> L(k)]
           text == Hex!cc_hexdump_encode(p, DumpWidth)
<1>1. m \in Nat /\ \A k \in 1 .. m : DumpAt(p, k)
  BY DumpWhere, Zenon
<1>2. ASSUME NEW k \in 1 .. m PROVE NoneEnds(DumpBody(p, DumpStart(k)))
  BY <1>1, DumpBodyParts, Zenon DEF DumpAt
<1>3. ASSUME NEW k \in 1 .. m PROVE L(k) \in Seq(Nat)
  <2>1. nl \in Seq(Nat)
    BY DEF LF
  <2>2. DumpBody(p, DumpStart(k)) \in Seq(Nat)
    BY <1>2, Zenon DEF NoneEnds
  <2> HIDE DEF nl
  <2>3. QED
    BY <2>1, <2>2, FrontOf, Zenon
<1>4. text = FlattenSeq(ss)
  <2>1. \A k : Hex!DumpLine(p, DumpStart(k), DumpWidth) = L(k)
    BY DumpLineBody, Zenon
  <2>2. text = Hex!FlattenSeq([k \in 1 .. m |-> Hex!DumpLine(p, DumpStart(k), DumpWidth)])
    BY Zenon DEF Hex!cc_hexdump_encode, DumpLines, DumpStart
  <2>3. [k \in 1 .. m |-> Hex!DumpLine(p, DumpStart(k), DumpWidth)] = ss
    BY <2>1, Zenon
  <2>4. QED
    BY <2>2, <2>3, SameFlatten, Zenon
<1>5. B \in Seq(Seq(Nat)) /\ Len(B) = m /\ \A k \in 1 .. m : B[k] = DumpBody(p, DumpStart(k))
  <2>1. \A k \in 1 .. m : DumpBody(p, DumpStart(k)) \in Seq(Nat)
    BY <1>2, Zenon DEF NoneEnds
  <2> HIDE DEF m
  <2>2. B = [k \in 1 .. m |-> DumpBody(p, DumpStart(k))]
    BY Zenon DEF DumpBodies, m
  <2> HIDE DEF B
  <2>3. QED
    BY <1>1, <2>1, <2>2
<1> HIDE DEF m, B, text, L
<1>6. ss \in Seq(Seq(Nat)) /\ Len(ss) = m /\ \A k \in 1 .. m : ss[k] = L(k)
  BY <1>1, <1>3
<1> HIDE DEF ss
<1>7. PICK f \in [Nat -> Seq(Nat)] :
        /\ f[0] = <<>> /\ \A i \in 1 .. Len(ss) : f[i] = f[i - 1] \o ss[i]
        /\ FlattenSeq(ss) = f[Len(ss)]
  BY <1>6, FlattenSteps
<1> DEFINE Reads(i) == Goes(Lined(f[i]), First(B, i), <<>>)
           E == {i \in Nat : i <= m => Reads(i)}
<1>8. 0 \in E
  <2>1. First(B, 0) = <<>>
    BY <1>5, FirstSteps, Zenon
  <2>2. Reads(0)
    BY <1>7, <2>1, LinesNone, Zenon
  <2> HIDE DEF Reads
  <2>3. QED
    BY <2>2
<1>9. ASSUME NEW k \in Nat, k \in E PROVE k + 1 \in E
  <2> DEFINE i == k + 1
             x == DumpBody(p, DumpStart(i))
  <2> HIDE DEF Reads
  <2>1. SUFFICES ASSUME i <= m PROVE Reads(i)
    OBVIOUS
  <2>2. i \in 1 .. m /\ i - 1 = k /\ Reads(k)
    BY <1>1, <1>9, <2>1
  <2>3. f[i] = f[k] \o L(i) /\ f[k] \in Seq(Nat)
    BY <1>6, <1>7, <2>2
  <2>4. NoneEnds(x) /\ B[i] = x
    BY <1>2, <1>5, <2>2, Zenon
  <2> HIDE DEF x
  <2>5. Goes(Lined(f[k] \o (x \o <<LF>>)), Append(First(B, k), x), <<>>)
    <3>1. Goes(Lined(f[k]), First(B, k), <<>>)
      BY <2>2, Zenon DEF Reads
    <3>2. QED
      BY <2>3, <2>4, <3>1, LinesEnd, Zenon DEF NoneEnds
  <2>6. First(B, i) = Append(First(B, k), x)
    <3>1. i \in 1 .. Len(B)
      BY <1>5, <2>2, Zenon
    <3>2. First(B, i) = Append(First(B, i - 1), B[i])
      BY <1>5, <3>1, FirstSteps, Zenon
    <3>3. QED
      BY <2>2, <2>4, <3>2, Zenon
  <2>7. L(i) = x \o <<LF>>
    BY Zenon DEF L, x
  <2>8. QED
    BY <2>3, <2>5, <2>6, <2>7, Zenon DEF Reads
<1> HIDE DEF E
<1>10. \A i \in Nat : i \in E
  BY <1>8, <1>9, SetInduction
<1>11. Goes(Lined(text), B, <<>>)
  <2>1. Reads(m)
    <3> HIDE DEF Reads
    <3>1. QED
      BY <1>1, <1>10 DEF E
  <2>2. First(B, m) = B
    BY <1>5, FirstSteps, Zenon
  <2>3. text = f[m]
    BY <1>4, <1>6, <1>7, Zenon
  <2>4. QED
    BY <2>1, <2>2, <2>3, Zenon
<1>12. QED
  BY <1>11, Zenon DEF Lines, Lined, Goes, text, B

(* The hex columns of a dump, read together. *)
LEMMA DumpHexMeans ==
  ASSUME NEW p \in Seq(Byte), p # <<>>
  PROVE  LET lines == Lines(Hex!cc_hexdump_encode(p, DumpWidth))
             hex   == FlattenSeq([k \in DOMAIN lines |-> HexColumn(lines[k])])
         IN  Hex!cc_hex_decode(hex, TRUE) = p
<1> DEFINE m == DumpLines(p)
           lines == Lines(Hex!cc_hexdump_encode(p, DumpWidth))
           H(k) == DumpHex(p, DumpStart(k))
           ss == [k \in DOMAIN lines |-> HexColumn(lines[k])]
           hex == FlattenSeq(ss)
<1>1. /\ m \in Nat /\ DumpDone(p, 0) = 0 /\ DumpDone(p, m) = Len(p)
      /\ \A k \in 1 .. m : DumpAt(p, k)
  BY DumpWhere, Zenon
<1>2. ss = [k \in 1 .. m |-> H(k)]
  <2>1. lines = [k \in 1 .. m |-> DumpBody(p, DumpStart(k))]
    BY DumpRead, Zenon DEF DumpBodies
  <2>2. \A k \in 1 .. m : HexColumn(DumpBody(p, DumpStart(k))) = H(k)
    BY <1>1, DumpBodyParts, Zenon DEF DumpAt
  <2> HIDE DEF m, lines, H
  <2>3. DOMAIN lines = 1 .. m /\ \A k \in 1 .. m : lines[k] = DumpBody(p, DumpStart(k))
    BY <2>1
  <2>4. QED
    BY <2>2, <2>3
<1>3. ASSUME NEW k \in 1 .. m PROVE H(k) \in Seq(Byte)
  <2>1. H(k) \in Seq(Plain)
    BY <1>1, DumpHexType, Zenon DEF DumpAt
  <2>2. Plain \subseteq Byte
    BY DEF Plain
  <2> HIDE DEF H
  <2>3. QED
    BY <2>1, <2>2, SeqMonotonic
<1> HIDE DEF m, lines, H, ss
<1>4. ss \in Seq(Seq(Byte)) /\ Len(ss) = m /\ \A k \in 1 .. m : ss[k] = H(k)
  BY <1>1, <1>2, <1>3
<1>5. PICK f \in [Nat -> Seq(Byte)] :
        /\ f[0] = <<>> /\ \A i \in 1 .. Len(ss) : f[i] = f[i - 1] \o ss[i]
        /\ FlattenSeq(ss) = f[Len(ss)]
  BY <1>4, FlattenSteps
<1> DEFINE Reads(i) == Whole(f[i], First(p, DumpDone(p, i)), TRUE)
           E == {i \in Nat : i <= m => Reads(i)}
<1>6. 0 \in E
  <2>1. First(p, 0) = <<>>
    BY FirstSteps, Zenon
  <2>2. Whole(<<>>, <<>>, TRUE)
    BY DecodeNothing, EmptySeq DEF Whole
  <2>3. Reads(0)
    BY <1>1, <1>5, <2>1, <2>2, Zenon
  <2> HIDE DEF Reads
  <2>4. QED
    BY <2>3
<1>7. ASSUME NEW k \in Nat, k \in E PROVE k + 1 \in E
  <2> DEFINE i == k + 1
             line == DumpStart(i)
  <2> HIDE DEF Reads
  <2>1. SUFFICES ASSUME i <= m PROVE Reads(i)
    OBVIOUS
  <2>2. i \in 1 .. m /\ i - 1 = k /\ Reads(k)
    BY <1>1, <1>7, <2>1
  <2>3. f[i] = f[k] \o H(i)
    BY <1>4, <1>5, <2>2
  <2>4. Row(p, line) /\ line = DumpDone(p, k) /\ line + DumpCount(p, line) = DumpDone(p, i)
    BY <1>1, <2>2, Zenon DEF DumpAt
  <2>5. H(i) = DumpHex(p, line)
    BY Zenon DEF H
  <2> HIDE DEF line
  <2>6. Whole(f[k], First(p, line), TRUE)
    BY <2>2, <2>4, Zenon DEF Reads
  <2>7. Whole(f[k] \o DumpHex(p, line), First(p, line + DumpCount(p, line)), TRUE)
    BY <2>4, <2>6, DumpHexReads, Zenon
  <2>8. QED
    BY <2>3, <2>4, <2>5, <2>7, Zenon DEF Reads
<1> HIDE DEF E
<1>8. \A i \in Nat : i \in E
  BY <1>6, <1>7, SetInduction
<1>9. Whole(hex, p, TRUE)
  <2>1. Reads(m)
    <3> HIDE DEF Reads
    <3>1. QED
      BY <1>1, <1>8 DEF E
  <2>2. First(p, Len(p)) = p
    BY FirstSteps, Zenon
  <2>3. hex = f[m]
    BY <1>4, <1>5, Zenon
  <2>4. QED
    BY <1>1, <2>1, <2>2, <2>3, Zenon
<1>10. hex # <<>>
  <2>1. SUFFICES ASSUME hex = <<>> PROVE FALSE
    OBVIOUS
  <2>2. After(hex, TRUE).out = p /\ After(<<>>, TRUE).out = <<>>
    <3>1. TRUE \in BOOLEAN
      OBVIOUS
    <3>2. QED
      BY <1>9, <3>1, DecodeNothing, Zenon DEF Whole, At
  <2>3. QED
    BY <2>1, <2>2, Zenon
<1>11. Hex!cc_hex_decode(hex, TRUE) = p
  <2>1. TRUE \in BOOLEAN
    OBVIOUS
  <2>2. QED
    BY <1>9, <1>10, <2>1, DecodeWhole, Zenon
<1>12. QED
  BY <1>11, Zenon DEF ss, lines

(* Consecutive parts of a string. *)
LEMMA FirstConcat ==
  ASSUME NEW T \in Seq(Nat), NEW a \in Nat, NEW c \in Nat, a + c <= Len(T)
  PROVE  First(T, a) \o [i \in 1 .. c |-> T[a + i]] = First(T, a + c)
<1> DEFINE x == First(T, a)
           y == [i \in 1 .. c |-> T[a + i]]
           z == First(T, a + c)
<1>1. Len(T) \in Nat /\ \A i \in 1 .. Len(T) : T[i] \in Nat
  BY LenProperties, ElementOfSeq
<1>2. x \in Seq(Nat) /\ Len(x) = a /\ \A i \in 1 .. a : x[i] = T[i]
  BY <1>1 DEF First
<1>3. y \in Seq(Nat) /\ Len(y) = c /\ \A i \in 1 .. c : y[i] = T[a + i]
  <2>1. \A i \in 1 .. c : T[a + i] \in Nat
    BY <1>1
  <2>2. QED
    BY <2>1
<1>4. z \in Seq(Nat) /\ Len(z) = a + c /\ \A i \in 1 .. a + c : z[i] = T[i]
  BY <1>1 DEF First
<1> HIDE DEF x, y, z
<1>5. x \o y \in Seq(Nat) /\ Len(x \o y) = a + c
      /\ \A i \in 1 .. a + c : (x \o y)[i] = IF i <= a THEN x[i] ELSE y[i - a]
  BY <1>2, <1>3, ConcatProperties
<1> DEFINE u == x \o y
<1> HIDE DEF u
<1>6. u \in Seq(Nat) /\ Len(u) = a + c /\ \A i \in 1 .. a + c : u[i] = IF i <= a THEN x[i] ELSE y[i - a]
  BY <1>5 DEF u
<1>7. \A i \in 1 .. a + c : u[i] = z[i]
  <2> SUFFICES ASSUME NEW i \in 1 .. a + c PROVE u[i] = z[i]
    OBVIOUS
  <2>1. CASE i <= a
    <3>1. i \in 1 .. a
      BY <2>1
    <3>2. u[i] = x[i]
      BY <1>6, <2>1
    <3>3. x[i] = T[i] /\ z[i] = T[i]
      BY <1>2, <1>4, <3>1, Zenon
    <3>4. QED
      BY <3>2, <3>3
  <2>2. CASE ~(i <= a)
    <3>1. i - a \in 1 .. c /\ a + (i - a) = i
      BY <2>2
    <3>2. QED
      BY <1>3, <1>4, <1>6, <2>2, <3>1
  <2>3. QED
    BY <2>1, <2>2
<1>8. u = z
  BY <1>4, <1>6, <1>7, SeqEqual
<1>9. QED
  BY <1>8 DEF u, x, y, z

(* The columns of characters, put together. *)
LEMMA DumpTextMeans ==
  ASSUME NEW p \in Seq(Byte)
  PROVE  LET lines == Lines(Hex!cc_hexdump_encode(p, DumpWidth))
             text  == FlattenSeq([k \in DOMAIN lines |-> TextColumn(lines[k])])
         IN  text = [i \in DOMAIN p |-> Hex!Printable(p[i])]
<1> DEFINE n == Len(p)
           m == DumpLines(p)
           lines == Lines(Hex!cc_hexdump_encode(p, DumpWidth))
           X(k) == DumpText(p, DumpStart(k))
           ss == [k \in DOMAIN lines |-> TextColumn(lines[k])]
           T == [i \in DOMAIN p |-> Hex!Printable(p[i])]
<1>1. /\ m \in Nat /\ DumpDone(p, 0) = 0 /\ DumpDone(p, m) = n
      /\ \A k \in 1 .. m : DumpAt(p, k)
  BY DumpWhere, Zenon
<1>2. ss = [k \in 1 .. m |-> X(k)]
  <2>1. lines = [k \in 1 .. m |-> DumpBody(p, DumpStart(k))]
    BY DumpRead, Zenon DEF DumpBodies
  <2>2. \A k \in 1 .. m : TextColumn(DumpBody(p, DumpStart(k))) = X(k)
    BY <1>1, DumpBodyParts, Zenon DEF DumpAt
  <2> HIDE DEF m, lines, X
  <2>3. DOMAIN lines = 1 .. m /\ \A k \in 1 .. m : lines[k] = DumpBody(p, DumpStart(k))
    BY <2>1
  <2>4. QED
    BY <2>2, <2>3
<1>3. ASSUME NEW k \in 1 .. m PROVE X(k) \in Seq(Nat)
  <2>1. X(k) \in Seq(Plain)
    BY <1>1, DumpTextType, Zenon DEF DumpAt
  <2> HIDE DEF X
  <2>2. QED
    BY <2>1, PlainText
<1>4. T \in Seq(Nat) /\ Len(T) = n /\ \A i \in 1 .. n : T[i] = Hex!Printable(p[i])
  <2>1. n \in Nat /\ DOMAIN p = 1 .. n /\ \A i \in 1 .. n : p[i] \in Byte
    BY LenProperties, ElementOfSeq
  <2>2. \A b \in Byte : Hex!Printable(b) \in Nat
    BY DEF Hex!Printable, Byte
  <2>3. \A i \in 1 .. n : Hex!Printable(p[i]) \in Nat
    BY <2>1, <2>2
  <2> HIDE DEF n
  <2>4. T = [i \in 1 .. n |-> Hex!Printable(p[i])]
    BY <2>1
  <2> HIDE DEF T
  <2>5. QED
    BY <2>1, <2>3, <2>4
<1> HIDE DEF m, lines, X, ss, T, n
<1>5. ss \in Seq(Seq(Nat)) /\ Len(ss) = m /\ \A k \in 1 .. m : ss[k] = X(k)
  BY <1>1, <1>2, <1>3
<1>6. PICK f \in [Nat -> Seq(Nat)] :
        /\ f[0] = <<>> /\ \A i \in 1 .. Len(ss) : f[i] = f[i - 1] \o ss[i]
        /\ FlattenSeq(ss) = f[Len(ss)]
  BY <1>5, FlattenSteps
<1> DEFINE Reads(i) == f[i] = First(T, DumpDone(p, i))
           E == {i \in Nat : i <= m => Reads(i)}
<1>7. 0 \in E
  <2>1. First(T, 0) = <<>>
    BY <1>4, FirstSteps, Zenon
  <2>2. Reads(0)
    BY <1>1, <1>6, <2>1, Zenon
  <2> HIDE DEF Reads
  <2>3. QED
    BY <2>2
<1>8. ASSUME NEW k \in Nat, k \in E PROVE k + 1 \in E
  <2> DEFINE i == k + 1
             line == DumpStart(i)
             c == DumpCount(p, line)
  <2> HIDE DEF Reads
  <2>1. SUFFICES ASSUME i <= m PROVE Reads(i)
    OBVIOUS
  <2>2. i \in 1 .. m /\ i - 1 = k /\ Reads(k)
    BY <1>1, <1>8, <2>1
  <2>3. f[i] = f[k] \o X(i)
    BY <1>5, <1>6, <2>2
  <2>4. Row(p, line) /\ line = DumpDone(p, k) /\ line + c = DumpDone(p, i)
    BY <1>1, <2>2, Zenon DEF DumpAt
  <2>5. c \in Nat /\ line + c <= n /\ line \in Nat
    <3>1. c \in Nat /\ line + c <= n
      BY <2>4, DumpCountType, Zenon DEF n
    <3> HIDE DEF line
    <3>2. line \in Nat
      BY <2>4 DEF Row
    <3>3. QED
      BY <3>1, <3>2, Zenon
  <2>6. X(i) = [j \in 1 .. c |-> Hex!Printable(p[line + j])]
    BY Zenon DEF X, DumpText
  <2> HIDE DEF line, c
  <2>7. [j \in 1 .. c |-> Hex!Printable(p[line + j])] = [j \in 1 .. c |-> T[line + j]]
    <3>1. n \in Nat
      BY LenProperties DEF n
    <3>2. \A j \in 1 .. c : line + j \in 1 .. n
      BY <2>5, <3>1
    <3>3. QED
      BY <1>4, <3>2
  <2>8. First(T, line) \o [j \in 1 .. c |-> T[line + j]] = First(T, line + c)
    BY <1>4, <2>5, FirstConcat, Zenon
  <2>9. f[k] = First(T, line)
    BY <2>2, <2>4, Zenon DEF Reads
  <2>10. QED
    BY <2>3, <2>4, <2>6, <2>7, <2>8, <2>9, Zenon DEF Reads
<1> HIDE DEF E
<1>9. \A i \in Nat : i \in E
  BY <1>7, <1>8, SetInduction
<1>10. FlattenSeq(ss) = T
  <2>1. Reads(m)
    <3> HIDE DEF Reads
    <3>1. QED
      BY <1>1, <1>9 DEF E
  <2>2. First(T, n) = T
    BY <1>4, FirstSteps, Zenon
  <2>3. QED
    BY <1>1, <1>5, <1>6, <2>1, <2>2, Zenon
<1>11. QED
  BY <1>10, Zenon DEF ss, lines, T

-----------------------------------------------------------------------------
(* Hex text and dumps mean the bytes they were made from, and what stands     *)
(* between hex digits makes no difference when it is ignored.                 *)
THEOREM HexMeaning == Spec => []HexMeant
<1>1. Typed => HexRoundTrip
  <2> SUFFICES ASSUME str \in Seq(Byte), str # <<>> PROVE
        /\ \A len \in LineLens, up, ignore \in BOOLEAN :
             LET text == Hex!cc_hex_encode(str, len, up)
             IN  IF len % 2 # 0 THEN text = Hex!Failed
                 ELSE Hex!cc_hex_decode(text, ignore) = str
        /\ LET lines == Lines(Hex!cc_hexdump_encode(str, DumpWidth))
               hex   == FlattenSeq([k \in DOMAIN lines |-> HexColumn(lines[k])])
               text  == FlattenSeq([k \in DOMAIN lines |-> TextColumn(lines[k])])
           IN  /\ Hex!cc_hex_decode(hex, TRUE) = str
               /\ text = [i \in DOMAIN str |-> Hex!Printable(str[i])]
    BY Zenon DEF HexRoundTrip, Typed, TriedAs
  <2>1. ASSUME NEW len \in LineLens, NEW up \in BOOLEAN, NEW ignore \in BOOLEAN
        PROVE  IF len % 2 # 0 THEN Hex!cc_hex_encode(str, len, up) = Hex!Failed
               ELSE Hex!cc_hex_decode(Hex!cc_hex_encode(str, len, up), ignore) = str
    <3>1. CASE len % 2 # 0
      <4>1. Hex!cc_hex_encode(str, len, up) = Hex!Failed
        BY <3>1, Zenon DEF Hex!cc_hex_encode
      <4>2. QED
        BY <3>1, <4>1, Zenon
    <3>2. CASE ~(len % 2 # 0)
      <4>1. len \in Nat /\ len % 2 = 0
        BY <3>2, LineAssumption, Zenon
      <4>2. Hex!cc_hex_decode(Hex!cc_hex_encode(str, len, up), ignore) = str
        BY <4>1, HexReads, Zenon
      <4>3. QED
        BY <3>2, <4>2, Zenon
    <3>3. QED
      BY <3>1, <3>2, Zenon
  <2>2. QED
    BY <2>1, DumpHexMeans, DumpTextMeans, Zenon
<1>2. Typed => HexIgnoring
  BY HexIgnores, Zenon DEF HexIgnoring, Typed, TriedAs
<1>3. Typed => HexMeant
  BY <1>1, <1>2, Zenon DEF HexMeant
<1>4. QED
  BY <1>3, StringTyped, PTL

-----------------------------------------------------------------------------
(* What base64 means.  The octet of the eight bits of a byte is the byte. *)
IsBit(x) == x = 0 \/ x = 1
Eight(a, b, c, d, e, f, g, h) == 128 * a + 64 * b + 32 * c + 16 * d + 8 * e + 4 * f + 2 * g + h
Six(a, b, c, d, e, f) == 32 * a + 16 * b + 8 * c + 4 * d + 2 * e + f
IsSix(v, a, b, c, d, e, f) ==
  IsBit(a) /\ IsBit(b) /\ IsBit(c) /\ IsBit(d) /\ IsBit(e) /\ IsBit(f) /\ v = Six(a, b, c, d, e, f)
IsEight(v, x) ==
  /\ \A i \in 1 .. 8 : IsBit(x[i])
  /\ v = Eight(x[1], x[2], x[3], x[4], x[5], x[6], x[7], x[8])

LEMMA HalfOf == ASSUME NEW v \in Nat PROVE \E h \in Nat, b \in 0 .. 1 : v = 2 * h + b
<1>1. v \div 2 \in Nat /\ v % 2 \in 0 .. 1 /\ v = 2 * (v \div 2) + (v % 2)
  OBVIOUS
<1>2. QED
  BY <1>1

LEMMA EightBits == ASSUME NEW v \in Byte PROVE \E x : IsEight(v, x)
<1>0. v \in Nat /\ v < 256
  BY DEF Byte
<1>1. PICK v1 \in Nat, h \in 0 .. 1 : v = 2 * v1 + h
  BY <1>0, HalfOf
<1>2. PICK v2 \in Nat, g \in 0 .. 1 : v1 = 2 * v2 + g
  BY HalfOf
<1>3. PICK v3 \in Nat, f \in 0 .. 1 : v2 = 2 * v3 + f
  BY HalfOf
<1>4. PICK v4 \in Nat, e \in 0 .. 1 : v3 = 2 * v4 + e
  BY HalfOf
<1>5. PICK v5 \in Nat, d \in 0 .. 1 : v4 = 2 * v5 + d
  BY HalfOf
<1>6. PICK v6 \in Nat, c \in 0 .. 1 : v5 = 2 * v6 + c
  BY HalfOf
<1>7. PICK a \in Nat, b \in 0 .. 1 : v6 = 2 * a + b
  BY HalfOf
<1>8. a \in 0 .. 1 /\ v = Eight(a, b, c, d, e, f, g, h)
  BY <1>0, <1>1, <1>2, <1>3, <1>4, <1>5, <1>6, <1>7 DEF Eight
<1> DEFINE x == <<a, b, c, d, e, f, g, h>>
<1>9. x[1] = a /\ x[2] = b /\ x[3] = c /\ x[4] = d /\ x[5] = e /\ x[6] = f /\ x[7] = g /\ x[8] = h
  OBVIOUS
<1>10. IsBit(a) /\ IsBit(b) /\ IsBit(c) /\ IsBit(d) /\ IsBit(e) /\ IsBit(f) /\ IsBit(g) /\ IsBit(h)
  BY <1>8 DEF IsBit
<1> HIDE DEF x
<1>11. \A i \in 1 .. 8 : i = 1 \/ i = 2 \/ i = 3 \/ i = 4 \/ i = 5 \/ i = 6 \/ i = 7 \/ i = 8
  OBVIOUS
<1>12. \A i \in 1 .. 8 : IsBit(x[i])
  BY <1>9, <1>10, <1>11, Zenon
<1>13. v = Eight(x[1], x[2], x[3], x[4], x[5], x[6], x[7], x[8])
  BY <1>8, <1>9, Zenon
<1>14. QED
  BY <1>12, <1>13, Zenon DEF IsEight

(* The bits of a sextet. *)
BitsAre(v, a, b, c, d, e, f) ==
  /\ Bit(v, 5) = a /\ Bit(v, 4) = b /\ Bit(v, 3) = c
  /\ Bit(v, 2) = d /\ Bit(v, 1) = e /\ Bit(v, 0) = f

LEMMA BitsOfSix ==
  ASSUME NEW a, NEW b, NEW c, NEW d, NEW e, NEW f,
         NEW v, IsSix(v, a, b, c, d, e, f)
  PROVE  BitsAre(v, a, b, c, d, e, f)
<1>0. /\ a \in 0 .. 1 /\ b \in 0 .. 1 /\ c \in 0 .. 1 /\ d \in 0 .. 1 /\ e \in 0 .. 1 /\ f \in 0 .. 1
      /\ v = 32 * a + 16 * b + 8 * c + 4 * d + 2 * e + f
  BY DEF IsBit, IsSix, Six
<1>1. Power[1] = 2 /\ Power[2] = 4 /\ Power[3] = 8 /\ Power[4] = 16 /\ Power[5] = 32
  BY DEF Power
<1>2. /\ Bit(v, 0) = v % 2
      /\ Bit(v, 1) = (v \div 2) % 2 /\ Bit(v, 2) = (v \div 4) % 2 /\ Bit(v, 3) = (v \div 8) % 2
      /\ Bit(v, 4) = (v \div 16) % 2 /\ Bit(v, 5) = (v \div 32) % 2
  BY <1>1 DEF Bit
<1>3. v % 2 = f
  BY <1>0
<1>4. v \div 2 = 16 * a + 8 * b + 4 * c + 2 * d + e
  BY <1>0
<1>5. v \div 4 = 8 * a + 4 * b + 2 * c + d
  BY <1>0
<1>6. v \div 8 = 4 * a + 2 * b + c
  BY <1>0
<1>7. v \div 16 = 2 * a + b
  BY <1>0
<1>8. v \div 32 = a
  BY <1>0
<1>9. /\ (16 * a + 8 * b + 4 * c + 2 * d + e) % 2 = e /\ (8 * a + 4 * b + 2 * c + d) % 2 = d
      /\ (4 * a + 2 * b + c) % 2 = c /\ (2 * a + b) % 2 = b /\ a % 2 = a
  BY <1>0
<1>10. QED
  BY <1>2, <1>3, <1>4, <1>5, <1>6, <1>7, <1>8, <1>9, Zenon DEF BitsAre

LEMMA SixRange ==
  ASSUME NEW a, NEW b, NEW c, NEW d, NEW e, NEW f,
         IsBit(a), IsBit(b), IsBit(c), IsBit(d), IsBit(e), IsBit(f)
  PROVE  Six(a, b, c, d, e, f) \in 0 .. 63
  BY DEF IsBit, Six

LEMMA SixParts ==
  ASSUME NEW a, NEW b, NEW c, NEW d, NEW e, NEW f, NEW v, IsSix(v, a, b, c, d, e, f)
  PROVE  /\ v = 16 * Six(0, 0, 0, 0, a, b) + Six(0, 0, c, d, e, f)
         /\ v = 4 * Six(0, 0, a, b, c, d) + Six(0, 0, 0, 0, e, f)
  BY DEF IsSix, IsBit, Six

(* The bits that a byte gives to one sextet and to the next. *)
LEMMA EightParts ==
  ASSUME NEW v, NEW x, IsEight(v, x)
  PROVE  /\ v = 4 * Six(x[1], x[2], x[3], x[4], x[5], x[6]) + Six(0, 0, 0, 0, x[7], x[8])
         /\ v = 16 * Six(0, 0, x[1], x[2], x[3], x[4]) + Six(0, 0, x[5], x[6], x[7], x[8])
         /\ v = 64 * Six(0, 0, 0, 0, x[1], x[2]) + Six(x[3], x[4], x[5], x[6], x[7], x[8])
<1>1. /\ IsBit(x[1]) /\ IsBit(x[2]) /\ IsBit(x[3]) /\ IsBit(x[4])
      /\ IsBit(x[5]) /\ IsBit(x[6]) /\ IsBit(x[7]) /\ IsBit(x[8])
  BY SMT DEF IsEight
<1>2. v = Eight(x[1], x[2], x[3], x[4], x[5], x[6], x[7], x[8])
  BY Zenon DEF IsEight
<1>3. QED
  BY <1>1, <1>2 DEF IsBit, Six, Eight

(* The four sextets of three bytes. *)
LEMMA SextetsOf ==
  ASSUME NEW g \in Seq(Byte), NEW x, NEW y, NEW z,
         IsEight(GroupByte(g, 1), x), IsEight(GroupByte(g, 2), y), IsEight(GroupByte(g, 3), z)
  PROVE  /\ IsSix(Sextet(g)[1], x[1], x[2], x[3], x[4], x[5], x[6])
         /\ IsSix(Sextet(g)[2], x[7], x[8], y[1], y[2], y[3], y[4])
         /\ IsSix(Sextet(g)[3], y[5], y[6], y[7], y[8], z[1], z[2])
         /\ IsSix(Sextet(g)[4], z[3], z[4], z[5], z[6], z[7], z[8])
<1> DEFINE v == GroupNumber(g)
           s1 == Six(x[1], x[2], x[3], x[4], x[5], x[6])
           s2 == Six(x[7], x[8], y[1], y[2], y[3], y[4])
           s3 == Six(y[5], y[6], y[7], y[8], z[1], z[2])
           s4 == Six(z[3], z[4], z[5], z[6], z[7], z[8])
<1>0. /\ IsBit(x[1]) /\ IsBit(x[2]) /\ IsBit(x[3]) /\ IsBit(x[4])
      /\ IsBit(x[5]) /\ IsBit(x[6]) /\ IsBit(x[7]) /\ IsBit(x[8])
      /\ IsBit(y[1]) /\ IsBit(y[2]) /\ IsBit(y[3]) /\ IsBit(y[4])
      /\ IsBit(y[5]) /\ IsBit(y[6]) /\ IsBit(y[7]) /\ IsBit(y[8])
      /\ IsBit(z[1]) /\ IsBit(z[2]) /\ IsBit(z[3]) /\ IsBit(z[4])
      /\ IsBit(z[5]) /\ IsBit(z[6]) /\ IsBit(z[7]) /\ IsBit(z[8])
  BY SMT DEF IsEight
<1>z. IsBit(0)
  BY DEF IsBit
<1>1. s1 \in 0 .. 63 /\ s2 \in 0 .. 63 /\ s3 \in 0 .. 63 /\ s4 \in 0 .. 63
  BY <1>0, SixRange, Zenon
<1>2. v = 262144 * s1 + 4096 * s2 + 64 * s3 + s4
  <2> DEFINE p == Six(0, 0, 0, 0, x[7], x[8])
             q == Six(0, 0, y[1], y[2], y[3], y[4])
             r == Six(0, 0, y[5], y[6], y[7], y[8])
             t == Six(0, 0, 0, 0, z[1], z[2])
             a == GroupByte(g, 1)
             b == GroupByte(g, 2)
             c == GroupByte(g, 3)
  <2>1. v = (a * 256 + b) * 256 + c
    BY DEF GroupNumber
  <2>5. a = 4 * s1 + p
    BY EightParts, Zenon
  <2>6. b = 16 * q + r
    BY EightParts, Zenon
  <2>7. c = 64 * t + s4
    BY EightParts, Zenon
  <2>8. s2 = 16 * p + q
    <3>1. IsSix(s2, x[7], x[8], y[1], y[2], y[3], y[4])
      BY <1>0, Zenon DEF IsSix
    <3>2. QED
      BY <3>1, SixParts, Zenon
  <2>9. s3 = 4 * r + t
    <3>1. IsSix(s3, y[5], y[6], y[7], y[8], z[1], z[2])
      BY <1>0, Zenon DEF IsSix
    <3>2. QED
      BY <3>1, SixParts, Zenon
  <2>10. p \in 0 .. 63 /\ q \in 0 .. 63 /\ r \in 0 .. 63 /\ t \in 0 .. 63
    BY <1>0, <1>z, SixRange, Zenon
  <2> HIDE DEF v, s1, s2, s3, s4, p, q, r, t, a, b, c
  <2>11. QED
    BY <1>1, <2>1, <2>5, <2>6, <2>7, <2>8, <2>9, <2>10, SMT
<1>3. /\ Sextet(g)[1] = v \div 262144 /\ Sextet(g)[2] = (v \div 4096) % 64
      /\ Sextet(g)[3] = (v \div 64) % 64 /\ Sextet(g)[4] = v % 64
  BY SMT DEF Sextet
<1> HIDE DEF v, s1, s2, s3, s4
<1>4. v \div 262144 = s1
  BY <1>1, <1>2, SMT
<1>5. v \div 4096 = 64 * s1 + s2 /\ (64 * s1 + s2) % 64 = s2
  BY <1>1, <1>2, SMT
<1>6. v \div 64 = 4096 * s1 + 64 * s2 + s3 /\ (4096 * s1 + 64 * s2 + s3) % 64 = s3
  BY <1>1, <1>2, SMT
<1>7. v % 64 = s4
  BY <1>1, <1>2, SMT
<1>8. Sextet(g)[1] = s1 /\ Sextet(g)[2] = s2 /\ Sextet(g)[3] = s3 /\ Sextet(g)[4] = s4
  BY <1>3, <1>4, <1>5, <1>6, <1>7, SMT
<1>9. QED
  BY <1>0, <1>8, Zenon DEF s1, s2, s3, s4, IsSix

(* The bits of a group, six of each sextet, are the eight of each byte. *)
GroupBit(g, h) == Bit(Sextet(g)[(h + 5) \div 6], 5 - ((h - 1) % 6))

LEMMA GroupBitAt ==
  ASSUME NEW g, NEW i \in 1 .. 4, NEW h \in 1 .. 6 PROVE GroupBit(g, 6 * (i - 1) + h) = Bit(Sextet(g)[i], 6 - h)
<1> DEFINE j == 6 * (i - 1) + h
<1>1. (j + 5) \div 6 = i /\ 5 - ((j - 1) % 6) = 6 - h
  OBVIOUS
<1>2. GroupBit(g, j) = Bit(Sextet(g)[i], 6 - h)
  BY <1>1, Zenon DEF GroupBit
<1>3. QED
  BY <1>2

LEMMA OctetOf ==
  ASSUME NEW v, NEW x, IsEight(v, x), NEW b, \A k \in 1 .. 8 : b[k] = x[k] PROVE Octet(b) = v
<1>1. /\ x[1] \in 0 .. 1 /\ x[2] \in 0 .. 1 /\ x[3] \in 0 .. 1 /\ x[4] \in 0 .. 1
      /\ x[5] \in 0 .. 1 /\ x[6] \in 0 .. 1 /\ x[7] \in 0 .. 1 /\ x[8] \in 0 .. 1
  BY DEF IsEight, IsBit
<1>2. /\ b[1] = x[1] /\ b[2] = x[2] /\ b[3] = x[3] /\ b[4] = x[4]
      /\ b[5] = x[5] /\ b[6] = x[6] /\ b[7] = x[7] /\ b[8] = x[8]
  OBVIOUS
<1>3. Octet(b) = 2 * (2 * (2 * (2 * (2 * (2 * (2 * x[1] + x[2]) + x[3]) + x[4]) + x[5]) + x[6]) + x[7]) + x[8]
  BY <1>2, Zenon DEF Octet
<1>4. QED
  BY <1>1, <1>3 DEF IsEight, Eight

LEMMA GroupMeans ==
  ASSUME NEW g \in Seq(Byte), NEW p \in 1 .. 3, NEW b, \A k \in 1 .. 8 : b[k] = GroupBit(g, 8 * (p - 1) + k)
  PROVE  Octet(b) = GroupByte(g, p)
<1>1. GroupByte(g, 1) \in Byte /\ GroupByte(g, 2) \in Byte /\ GroupByte(g, 3) \in Byte
  BY GroupBytes
<1>2. PICK x : IsEight(GroupByte(g, 1), x)
  BY <1>1, EightBits, Zenon
<1>3. PICK y : IsEight(GroupByte(g, 2), y)
  BY <1>1, EightBits, Zenon
<1>4. PICK z : IsEight(GroupByte(g, 3), z)
  BY <1>1, EightBits, Zenon
<1>5. /\ IsSix(Sextet(g)[1], x[1], x[2], x[3], x[4], x[5], x[6])
      /\ IsSix(Sextet(g)[2], x[7], x[8], y[1], y[2], y[3], y[4])
      /\ IsSix(Sextet(g)[3], y[5], y[6], y[7], y[8], z[1], z[2])
      /\ IsSix(Sextet(g)[4], z[3], z[4], z[5], z[6], z[7], z[8])
  BY <1>2, <1>3, <1>4, SextetsOf
<1> DEFINE G(h) == GroupBit(g, h)
<1>6. \A i \in 1 .. 4, h \in 1 .. 6 : G(6 * (i - 1) + h) = Bit(Sextet(g)[i], 6 - h)
  BY GroupBitAt, Zenon
<1> HIDE DEF G
<1>7. /\ G(1) = Bit(Sextet(g)[1], 5) /\ G(2) = Bit(Sextet(g)[1], 4) /\ G(3) = Bit(Sextet(g)[1], 3)
      /\ G(4) = Bit(Sextet(g)[1], 2) /\ G(5) = Bit(Sextet(g)[1], 1) /\ G(6) = Bit(Sextet(g)[1], 0)
  <2>1. G(1) = Bit(Sextet(g)[1], 5)
    <3>1. 6 * (1 - 1) + 1 = 1 /\ 6 - 1 = 5 /\ 1 \in 1 .. 4 /\ 1 \in 1 .. 6
      OBVIOUS
    <3>2. QED
      BY <1>6, <3>1
  <2>2. G(2) = Bit(Sextet(g)[1], 4)
    <3>1. 6 * (1 - 1) + 2 = 2 /\ 6 - 2 = 4 /\ 1 \in 1 .. 4 /\ 2 \in 1 .. 6
      OBVIOUS
    <3>2. QED
      BY <1>6, <3>1
  <2>3. G(3) = Bit(Sextet(g)[1], 3)
    <3>1. 6 * (1 - 1) + 3 = 3 /\ 6 - 3 = 3 /\ 1 \in 1 .. 4 /\ 3 \in 1 .. 6
      OBVIOUS
    <3>2. QED
      BY <1>6, <3>1
  <2>4. G(4) = Bit(Sextet(g)[1], 2)
    <3>1. 6 * (1 - 1) + 4 = 4 /\ 6 - 4 = 2 /\ 1 \in 1 .. 4 /\ 4 \in 1 .. 6
      OBVIOUS
    <3>2. QED
      BY <1>6, <3>1
  <2>5. G(5) = Bit(Sextet(g)[1], 1)
    <3>1. 6 * (1 - 1) + 5 = 5 /\ 6 - 5 = 1 /\ 1 \in 1 .. 4 /\ 5 \in 1 .. 6
      OBVIOUS
    <3>2. QED
      BY <1>6, <3>1
  <2>6. G(6) = Bit(Sextet(g)[1], 0)
    <3>1. 6 * (1 - 1) + 6 = 6 /\ 6 - 6 = 0 /\ 1 \in 1 .. 4 /\ 6 \in 1 .. 6
      OBVIOUS
    <3>2. QED
      BY <1>6, <3>1
  <2>7. QED
    BY <2>1, <2>2, <2>3, <2>4, <2>5, <2>6, Zenon
<1>8. /\ G(7) = Bit(Sextet(g)[2], 5) /\ G(8) = Bit(Sextet(g)[2], 4) /\ G(9) = Bit(Sextet(g)[2], 3)
      /\ G(10) = Bit(Sextet(g)[2], 2) /\ G(11) = Bit(Sextet(g)[2], 1) /\ G(12) = Bit(Sextet(g)[2], 0)
  <2>1. G(7) = Bit(Sextet(g)[2], 5)
    <3>1. 6 * (2 - 1) + 1 = 7 /\ 6 - 1 = 5 /\ 2 \in 1 .. 4 /\ 1 \in 1 .. 6
      OBVIOUS
    <3>2. QED
      BY <1>6, <3>1
  <2>2. G(8) = Bit(Sextet(g)[2], 4)
    <3>1. 6 * (2 - 1) + 2 = 8 /\ 6 - 2 = 4 /\ 2 \in 1 .. 4 /\ 2 \in 1 .. 6
      OBVIOUS
    <3>2. QED
      BY <1>6, <3>1
  <2>3. G(9) = Bit(Sextet(g)[2], 3)
    <3>1. 6 * (2 - 1) + 3 = 9 /\ 6 - 3 = 3 /\ 2 \in 1 .. 4 /\ 3 \in 1 .. 6
      OBVIOUS
    <3>2. QED
      BY <1>6, <3>1
  <2>4. G(10) = Bit(Sextet(g)[2], 2)
    <3>1. 6 * (2 - 1) + 4 = 10 /\ 6 - 4 = 2 /\ 2 \in 1 .. 4 /\ 4 \in 1 .. 6
      OBVIOUS
    <3>2. QED
      BY <1>6, <3>1
  <2>5. G(11) = Bit(Sextet(g)[2], 1)
    <3>1. 6 * (2 - 1) + 5 = 11 /\ 6 - 5 = 1 /\ 2 \in 1 .. 4 /\ 5 \in 1 .. 6
      OBVIOUS
    <3>2. QED
      BY <1>6, <3>1
  <2>6. G(12) = Bit(Sextet(g)[2], 0)
    <3>1. 6 * (2 - 1) + 6 = 12 /\ 6 - 6 = 0 /\ 2 \in 1 .. 4 /\ 6 \in 1 .. 6
      OBVIOUS
    <3>2. QED
      BY <1>6, <3>1
  <2>7. QED
    BY <2>1, <2>2, <2>3, <2>4, <2>5, <2>6, Zenon
<1>9. /\ G(13) = Bit(Sextet(g)[3], 5) /\ G(14) = Bit(Sextet(g)[3], 4) /\ G(15) = Bit(Sextet(g)[3], 3)
      /\ G(16) = Bit(Sextet(g)[3], 2) /\ G(17) = Bit(Sextet(g)[3], 1) /\ G(18) = Bit(Sextet(g)[3], 0)
  <2>1. G(13) = Bit(Sextet(g)[3], 5)
    <3>1. 6 * (3 - 1) + 1 = 13 /\ 6 - 1 = 5 /\ 3 \in 1 .. 4 /\ 1 \in 1 .. 6
      OBVIOUS
    <3>2. QED
      BY <1>6, <3>1
  <2>2. G(14) = Bit(Sextet(g)[3], 4)
    <3>1. 6 * (3 - 1) + 2 = 14 /\ 6 - 2 = 4 /\ 3 \in 1 .. 4 /\ 2 \in 1 .. 6
      OBVIOUS
    <3>2. QED
      BY <1>6, <3>1
  <2>3. G(15) = Bit(Sextet(g)[3], 3)
    <3>1. 6 * (3 - 1) + 3 = 15 /\ 6 - 3 = 3 /\ 3 \in 1 .. 4 /\ 3 \in 1 .. 6
      OBVIOUS
    <3>2. QED
      BY <1>6, <3>1
  <2>4. G(16) = Bit(Sextet(g)[3], 2)
    <3>1. 6 * (3 - 1) + 4 = 16 /\ 6 - 4 = 2 /\ 3 \in 1 .. 4 /\ 4 \in 1 .. 6
      OBVIOUS
    <3>2. QED
      BY <1>6, <3>1
  <2>5. G(17) = Bit(Sextet(g)[3], 1)
    <3>1. 6 * (3 - 1) + 5 = 17 /\ 6 - 5 = 1 /\ 3 \in 1 .. 4 /\ 5 \in 1 .. 6
      OBVIOUS
    <3>2. QED
      BY <1>6, <3>1
  <2>6. G(18) = Bit(Sextet(g)[3], 0)
    <3>1. 6 * (3 - 1) + 6 = 18 /\ 6 - 6 = 0 /\ 3 \in 1 .. 4 /\ 6 \in 1 .. 6
      OBVIOUS
    <3>2. QED
      BY <1>6, <3>1
  <2>7. QED
    BY <2>1, <2>2, <2>3, <2>4, <2>5, <2>6, Zenon
<1>10. /\ G(19) = Bit(Sextet(g)[4], 5) /\ G(20) = Bit(Sextet(g)[4], 4) /\ G(21) = Bit(Sextet(g)[4], 3)
      /\ G(22) = Bit(Sextet(g)[4], 2) /\ G(23) = Bit(Sextet(g)[4], 1) /\ G(24) = Bit(Sextet(g)[4], 0)
  <2>1. G(19) = Bit(Sextet(g)[4], 5)
    <3>1. 6 * (4 - 1) + 1 = 19 /\ 6 - 1 = 5 /\ 4 \in 1 .. 4 /\ 1 \in 1 .. 6
      OBVIOUS
    <3>2. QED
      BY <1>6, <3>1
  <2>2. G(20) = Bit(Sextet(g)[4], 4)
    <3>1. 6 * (4 - 1) + 2 = 20 /\ 6 - 2 = 4 /\ 4 \in 1 .. 4 /\ 2 \in 1 .. 6
      OBVIOUS
    <3>2. QED
      BY <1>6, <3>1
  <2>3. G(21) = Bit(Sextet(g)[4], 3)
    <3>1. 6 * (4 - 1) + 3 = 21 /\ 6 - 3 = 3 /\ 4 \in 1 .. 4 /\ 3 \in 1 .. 6
      OBVIOUS
    <3>2. QED
      BY <1>6, <3>1
  <2>4. G(22) = Bit(Sextet(g)[4], 2)
    <3>1. 6 * (4 - 1) + 4 = 22 /\ 6 - 4 = 2 /\ 4 \in 1 .. 4 /\ 4 \in 1 .. 6
      OBVIOUS
    <3>2. QED
      BY <1>6, <3>1
  <2>5. G(23) = Bit(Sextet(g)[4], 1)
    <3>1. 6 * (4 - 1) + 5 = 23 /\ 6 - 5 = 1 /\ 4 \in 1 .. 4 /\ 5 \in 1 .. 6
      OBVIOUS
    <3>2. QED
      BY <1>6, <3>1
  <2>6. G(24) = Bit(Sextet(g)[4], 0)
    <3>1. 6 * (4 - 1) + 6 = 24 /\ 6 - 6 = 0 /\ 4 \in 1 .. 4 /\ 6 \in 1 .. 6
      OBVIOUS
    <3>2. QED
      BY <1>6, <3>1
  <2>7. QED
    BY <2>1, <2>2, <2>3, <2>4, <2>5, <2>6, Zenon
<1>s1. G(1) = x[1] /\ G(2) = x[2] /\ G(3) = x[3] /\ G(4) = x[4] /\ G(5) = x[5] /\ G(6) = x[6]
  <2>1. BitsAre(Sextet(g)[1], x[1], x[2], x[3], x[4], x[5], x[6])
    BY <1>5, BitsOfSix, Zenon
  <2>2. QED
    BY <1>7, <2>1, Zenon DEF BitsAre
<1>s2. G(7) = x[7] /\ G(8) = x[8] /\ G(9) = y[1] /\ G(10) = y[2] /\ G(11) = y[3] /\ G(12) = y[4]
  <2>1. BitsAre(Sextet(g)[2], x[7], x[8], y[1], y[2], y[3], y[4])
    BY <1>5, BitsOfSix, Zenon
  <2>2. QED
    BY <1>8, <2>1, Zenon DEF BitsAre
<1>s3. G(13) = y[5] /\ G(14) = y[6] /\ G(15) = y[7] /\ G(16) = y[8] /\ G(17) = z[1] /\ G(18) = z[2]
  <2>1. BitsAre(Sextet(g)[3], y[5], y[6], y[7], y[8], z[1], z[2])
    BY <1>5, BitsOfSix, Zenon
  <2>2. QED
    BY <1>9, <2>1, Zenon DEF BitsAre
<1>s4. G(19) = z[3] /\ G(20) = z[4] /\ G(21) = z[5] /\ G(22) = z[6] /\ G(23) = z[7] /\ G(24) = z[8]
  <2>1. BitsAre(Sextet(g)[4], z[3], z[4], z[5], z[6], z[7], z[8])
    BY <1>5, BitsOfSix, Zenon
  <2>2. QED
    BY <1>10, <2>1, Zenon DEF BitsAre
<1>15. \A k \in 1 .. 8 : b[k] = G(8 * (p - 1) + k)
  BY Zenon DEF G
<1>16. ASSUME p = 1 PROVE Octet(b) = GroupByte(g, p)
  <2>1. \A k \in 1 .. 8 : b[k] = x[k]
    BY <1>s1, <1>s2, <1>15, <1>16
  <2>2. QED
    BY <1>2, <1>16, <2>1, OctetOf, Zenon
<1>17. ASSUME p = 2 PROVE Octet(b) = GroupByte(g, p)
  <2>1. \A k \in 1 .. 8 : b[k] = y[k]
    BY <1>s2, <1>s3, <1>15, <1>17
  <2>2. QED
    BY <1>3, <1>17, <2>1, OctetOf, Zenon
<1>18. ASSUME p = 3 PROVE Octet(b) = GroupByte(g, p)
  <2>1. \A k \in 1 .. 8 : b[k] = z[k]
    BY <1>s3, <1>s4, <1>15, <1>18
  <2>2. QED
    BY <1>4, <1>18, <2>1, OctetOf, Zenon
<1>19. p = 1 \/ p = 2 \/ p = 3
  OBVIOUS
<1>20. QED
  BY <1>16, <1>17, <1>18, <1>19, Zenon

(* A letter is no newline and no '=', and stands for one sextet. *)
LEMMA LetterPlain ==
  ASSUME NEW v \in 0 .. 63, NEW url \in BOOLEAN
  PROVE  B64!Letter(v, url) \in Byte \ {LF, 61}
<1>1. B64!Letter(v, TRUE) \in Byte \ {LF, 61}
  BY DEF B64!Letter, Byte, LF
<1>2. B64!Letter(v, FALSE) \in Byte \ {LF, 61}
  BY DEF B64!Letter, Byte, LF
<1>3. QED
  BY <1>1, <1>2

LEMMA LetterOnce ==
  ASSUME NEW v \in 0 .. 63, NEW w \in 0 .. 63, NEW url \in BOOLEAN, B64!Letter(v, url) = B64!Letter(w, url)
  PROVE  v = w
<1>1. CASE url = TRUE
  <2>1. B64!Letter(v, TRUE) = B64!Letter(w, TRUE)
    BY <1>1
  <2>2. QED
    BY <2>1 DEF B64!Letter
<1>2. CASE url = FALSE
  <2>1. B64!Letter(v, FALSE) = B64!Letter(w, FALSE)
    BY <1>2
  <2>2. QED
    BY <2>1 DEF B64!Letter
<1>3. QED
  BY <1>1, <1>2

LEMMA ValueOfLetter ==
  ASSUME NEW v \in 0 .. 63, NEW url \in BOOLEAN PROVE LetterValue(B64!Letter(v, url), url) = v
<1> DEFINE c == B64!Letter(v, url)
           Means(w) == B64!Letter(w, url) = c
           u == CHOOSE w \in 0 .. 63 : Means(w)
<1>1. u = LetterValue(c, url)
  BY DEF LetterValue
<1>2. Means(v)
  OBVIOUS
<1>3. ASSUME NEW w \in 0 .. 63, Means(w) PROVE w = v
  BY <1>3, LetterOnce, Zenon
<1> HIDE DEF c, Means
<1>4. u \in 0 .. 63 /\ Means(u)
  BY <1>2, Zenon
<1> HIDE DEF u
<1>5. u = v
  BY <1>3, <1>4, Zenon
<1>6. QED
  BY <1>1, <1>5 DEF c

(* What is left of a string without some characters, one character longer. *)
LEMMA WithoutNone == ASSUME NEW C PROVE Without(<<>>, C) = <<>>
<1>1. <<>> \in Seq(Byte) /\ Len(<<>>) = 0
  BY EmptySeq
<1>2. PICK w : Leaves(<<>>, C, w)
  BY <1>1, WithoutSteps, Zenon
<1>3. w[0] = <<>> /\ Without(<<>>, C) = w[Len(<<>>)]
  BY <1>2, Zenon DEF Leaves
<1>4. QED
  BY <1>1, <1>3

LEMMA WithoutAppend ==
  ASSUME NEW s \in Seq(Byte), NEW c \in Byte, NEW C
  PROVE  /\ Without(s, C) \in Seq(Byte)
         /\ c \in C => Without(s \o <<c>>, C) = Without(s, C)
         /\ c \notin C => Without(s \o <<c>>, C) = Without(s, C) \o <<c>>
<1> DEFINE t == s \o <<c>>
           n == Len(s)
<1>1. n \in Nat
  BY LenProperties
<1>2. t \in Seq(Byte) /\ Len(t) = n + 1 /\ t[n + 1] = c /\ \A i \in 1 .. n : t[i] = s[i]
  BY AppendIsConcat, AppendProperties
<1>3. PICK f : Leaves(s, C, f)
  BY WithoutSteps, Zenon
<1> HIDE DEF t
<1>4. PICK g : Leaves(t, C, g)
  BY <1>2, WithoutSteps, Zenon
<1>5. /\ f \in [Nat -> Seq(Byte)] /\ f[0] = <<>> /\ Without(s, C) = f[n]
      /\ \A i \in 1 .. n : (s[i] \in C => f[i] = f[i - 1]) /\ (s[i] \notin C => f[i] = f[i - 1] \o <<s[i]>>)
  BY <1>3, Zenon DEF Leaves
<1>6. /\ g \in [Nat -> Seq(Byte)] /\ g[0] = <<>> /\ Without(t, C) = g[Len(t)]
      /\ \A i \in 1 .. Len(t) : (t[i] \in C => g[i] = g[i - 1]) /\ (t[i] \notin C => g[i] = g[i - 1] \o <<t[i]>>)
  BY <1>4, Zenon DEF Leaves
<1> HIDE DEF n
<1> DEFINE E == {i \in Nat : i <= n => f[i] = g[i]}
<1>7. 0 \in E
  BY <1>5, <1>6
<1>8. ASSUME NEW i \in Nat, i \in E PROVE i + 1 \in E
  <2>1. SUFFICES ASSUME i + 1 <= n PROVE f[i + 1] = g[i + 1]
    OBVIOUS
  <2>2. i + 1 \in 1 .. n /\ i + 1 \in 1 .. Len(t) /\ (i + 1) - 1 = i /\ f[i] = g[i]
    BY <1>1, <1>2, <1>8, <2>1
  <2> DEFINE j == i + 1
  <2>3. j \in 1 .. n /\ j \in 1 .. Len(t) /\ j - 1 = i /\ t[j] = s[j]
    BY <1>2, <2>2
  <2> HIDE DEF j
  <2>4. (s[j] \in C => f[j] = f[i]) /\ (s[j] \notin C => f[j] = f[i] \o <<s[j]>>)
    BY <1>5, <2>3
  <2>5. (s[j] \in C => g[j] = g[i]) /\ (s[j] \notin C => g[j] = g[i] \o <<s[j]>>)
    BY <1>6, <2>3
  <2>6. f[j] = g[j]
    BY <2>2, <2>4, <2>5, Zenon
  <2>7. QED
    BY <2>6 DEF j
<1> HIDE DEF E
<1>9. \A i \in Nat : i \in E
  BY <1>7, <1>8, SetInduction
<1>10. f[n] = g[n] /\ n + 1 \in 1 .. Len(t) /\ (n + 1) - 1 = n
  BY <1>1, <1>2, <1>9 DEF E
<1>11. (c \in C => g[n + 1] = g[n]) /\ (c \notin C => g[n + 1] = g[n] \o <<c>>)
  BY <1>2, <1>6, <1>10
<1>12. Without(t, C) = g[n + 1] /\ Without(s, C) = g[n]
  BY <1>2, <1>5, <1>6, <1>10
<1>13. g[n] \in Seq(Byte)
  BY <1>1, <1>6
<1>14. QED
  BY <1>11, <1>12, <1>13, Zenon DEF t

(* s without C is the first m characters of F. *)
Kept(s, C, F, m) == s \in Seq(Byte) /\ m \in Nat /\ Without(s, C) = [k \in 1 .. m |-> F[k]]

LEMMA KeptNone == ASSUME NEW C, NEW F PROVE Kept(<<>>, C, F, 0)
<1>1. <<>> \in Seq(Byte)
  BY EmptySeq
<1>2. [k \in 1 .. 0 |-> F[k]] = <<>>
  OBVIOUS
<1>3. QED
  BY <1>1, <1>2, WithoutNone DEF Kept

LEMMA KeptOne ==
  ASSUME NEW C, NEW F \in [Nat -> Byte], NEW s, NEW m, Kept(s, C, F, m), NEW c \in Byte
  PROVE  /\ c \in C => Kept(s \o <<c>>, C, F, m)
         /\ c \notin C /\ c = F[m + 1] => Kept(s \o <<c>>, C, F, m + 1)
<1>1. s \in Seq(Byte) /\ m \in Nat /\ Without(s, C) = [k \in 1 .. m |-> F[k]]
  BY Zenon DEF Kept
<1>2. s \o <<c>> \in Seq(Byte)
  <2>1. <<c>> \in Seq(Byte)
    OBVIOUS
  <2>2. QED
    BY <1>1, <2>1, ConcatProperties
<1>3. ASSUME c \in C PROVE Kept(s \o <<c>>, C, F, m)
  BY <1>1, <1>2, <1>3, WithoutAppend, Zenon DEF Kept
<1>4. ASSUME c \notin C, c = F[m + 1] PROVE Kept(s \o <<c>>, C, F, m + 1)
  <2> DEFINE w == [k \in 1 .. m |-> F[k]]
  <2>1. Without(s \o <<c>>, C) = w \o <<c>>
    <3>1. Without(s \o <<c>>, C) = Without(s, C) \o <<c>>
      BY <1>1, <1>4, WithoutAppend, Zenon
    <3>2. Without(s, C) = w
      BY <1>1, Zenon
    <3> HIDE DEF w
    <3>3. QED
      BY <3>1, <3>2, Zenon
  <2>2. w \in Seq(Byte) /\ Len(w) = m /\ \A k \in 1 .. m : w[k] = F[k]
    <3>1. \A k \in 1 .. m : F[k] \in Byte
      BY <1>1
    <3>2. QED
      BY <1>1, <3>1
  <2> HIDE DEF w
  <2>3. w \o <<c>> = Append(w, c)
    BY <2>2, AppendIsConcat
  <2>4. AppendIs(w, c, m)
    BY <2>2, AppendForm, Zenon
  <2>5. Append(w, c) = [k \in 1 .. m + 1 |-> IF k <= m THEN w[k] ELSE c]
    BY <2>4, Zenon DEF AppendIs
  <2>6. \A k \in 1 .. m + 1 : (IF k <= m THEN w[k] ELSE c) = F[k]
    BY <1>1, <1>4, <2>2
  <2>7. [k \in 1 .. m + 1 |-> IF k <= m THEN w[k] ELSE c] = [k \in 1 .. m + 1 |-> F[k]]
    BY <2>6
  <2>8. Without(s \o <<c>>, C) = [k \in 1 .. m + 1 |-> F[k]]
    BY <2>1, <2>3, <2>5, <2>7, Zenon
  <2>9. m + 1 \in Nat
    BY <1>1
  <2>10. QED
    BY <1>2, <2>8, <2>9, Zenon DEF Kept
<1>5. QED
  BY <1>3, <1>4, Zenon

LEMMA KeptMore ==
  ASSUME NEW C, NEW F \in [Nat -> Byte], NEW s, NEW m, Kept(s, C, F, m), NEW x \in Seq(Byte),
         NEW n \in Nat, n <= Len(x),
         \A j \in 1 .. n : x[j] = F[m + j] /\ x[j] \notin C,
         \A j \in n + 1 .. Len(x) : x[j] \in C
  PROVE  Kept(s \o x, C, F, m + n)
<1> DEFINE z == Len(x)
           G(i) == s \o First(x, i)
           E == {i \in Nat : i <= z => Kept(G(i), C, F, m + Least(i, n))}
<1>1. z \in Nat /\ s \in Seq(Byte) /\ m \in Nat
  BY LenProperties DEF Kept
<1>2. First(x, 0) = <<>> /\ First(x, z) = x
  BY FirstSteps
<1>3. 0 \in E
  <2>1. G(0) = s
    BY <1>1, <1>2, ConcatEmptySeq
  <2>2. m + Least(0, n) = m
    BY <1>1 DEF Least
  <2>3. Kept(G(0), C, F, m + Least(0, n))
    BY <2>1, <2>2, Zenon
  <2> HIDE DEF G
  <2>4. QED
    BY <2>3
<1>4. ASSUME NEW i \in Nat, i \in E PROVE i + 1 \in E
  <2>1. SUFFICES ASSUME i + 1 <= z PROVE Kept(G(i + 1), C, F, m + Least(i + 1, n))
    OBVIOUS
  <2> DEFINE j == i + 1
             y == First(x, i)
             l == Least(i, n)
  <2>2. j \in 1 .. z /\ j - 1 = i /\ i <= z
    BY <1>1, <2>1
  <2>3. Kept(G(i), C, F, m + l)
    BY <1>4, <2>2
  <2> HIDE DEF j, l
  <2>4. First(x, j) = Append(First(x, j - 1), x[j]) /\ First(x, j - 1) \in Seq(Byte) /\ x[j] \in Byte
    BY <2>2, FirstSteps
  <2>5. y \in Seq(Byte) /\ First(x, j) = Append(y, x[j])
    BY <2>2, <2>4
  <2> HIDE DEF y
  <2>6. First(x, j) = y \o <<x[j]>> /\ <<x[j]>> \in Seq(Byte)
    <3>1. Append(y, x[j]) = y \o <<x[j]>>
      BY <2>4, <2>5, AppendIsConcat, Zenon
    <3>2. <<x[j]>> \in Seq(Byte)
      BY <2>4
    <3>3. QED
      BY <2>5, <3>1, <3>2, Zenon
  <2>7. Associates(s, y, <<x[j]>>)
    BY <1>1, <2>5, <2>6, Associative, Zenon
  <2>8. G(j) = G(i) \o <<x[j]>>
    BY <2>6, <2>7, Zenon DEF Associates, y
  <2> HIDE DEF G
  <2>9. ASSUME i < n PROVE Kept(G(j), C, F, m + Least(j, n))
    <3>1. l = i /\ Least(j, n) = j /\ j \in 1 .. n
      BY <1>1, <2>2, <2>9 DEF Least, l
    <3>2. x[j] = F[m + j] /\ x[j] \notin C
      BY <3>1
    <3>3. (m + i) + 1 = m + j
      BY <1>1, <2>2
    <3>4. Kept(G(i), C, F, m + i)
      BY <2>3, <3>1
    <3>5. x[j] \notin C /\ x[j] = F[(m + i) + 1]
      BY <3>2, <3>3, Zenon
    <3>6. Kept(G(i) \o <<x[j]>>, C, F, (m + i) + 1)
      BY <2>4, <3>4, <3>5, KeptOne, Zenon
    <3>7. QED
      BY <2>8, <3>1, <3>3, <3>6, Zenon
  <2>10. ASSUME ~(i < n) PROVE Kept(G(j), C, F, m + Least(j, n))
    <3>1. l = n /\ Least(j, n) = n /\ j \in n + 1 .. z
      BY <1>1, <2>2, <2>10 DEF Least, l
    <3>2. x[j] \in C
      BY <3>1
    <3>3. Kept(G(i), C, F, m + n)
      BY <2>3, <3>1, Zenon
    <3>4. Kept(G(i) \o <<x[j]>>, C, F, m + n)
      BY <2>4, <3>2, <3>3, KeptOne, Zenon
    <3>5. QED
      BY <2>8, <3>1, <3>4, Zenon
  <2>11. QED
    BY <2>9, <2>10, Zenon DEF j
<1> HIDE DEF E
<1>5. \A i \in Nat : i \in E
  BY <1>3, <1>4, SetInduction
<1>6. Kept(G(z), C, F, m + Least(z, n))
  <2> HIDE DEF G, z
  <2>1. z <= z
    BY <1>1
  <2>2. QED
    BY <1>1, <1>5, <2>1, Zenon DEF E
<1>7. Least(z, n) = n
  BY <1>1 DEF Least
<1>8. QED
  BY <1>2, <1>6, <1>7, Zenon

(* The bytes of the g-th group, the last of which may be short or empty. *)
GroupLast(n, g) == IF 3 * g <= n THEN 3 * g ELSE n
Triple(bytes, g) == SubSeq(bytes, 3 * g - 2, GroupLast(Len(bytes), g))
TripleLen(n, g) == IF 3 * g <= n THEN 3 ELSE IF 3 * g - 2 <= n THEN n - (3 * g - 3) ELSE 0

LEMMA TripleEnds ==
  ASSUME NEW n \in Nat, NEW g \in Nat \ {0}
  PROVE  /\ 3 * g - 2 <= GroupLast(n, g) => GroupLast(n, g) - (3 * g - 2) + 1 = TripleLen(n, g)
         /\ GroupLast(n, g) < 3 * g - 2 => TripleLen(n, g) = 0
<1>1. CASE 3 * g <= n
  <2>1. GroupLast(n, g) = 3 * g /\ TripleLen(n, g) = 3
    BY <1>1 DEF GroupLast, TripleLen
  <2>2. QED
    BY <2>1
<1>2. CASE ~(3 * g <= n)
  <2>1. GroupLast(n, g) = n /\ TripleLen(n, g) = IF 3 * g - 2 <= n THEN n - (3 * g - 3) ELSE 0
    BY <1>2 DEF GroupLast, TripleLen
  <2>2. QED
    BY <2>1
<1>3. QED
  BY <1>1, <1>2

LEMMA TripleType ==
  ASSUME NEW bytes \in Seq(Byte), NEW g \in Nat \ {0}, NEW n, n = Len(bytes)
  PROVE  /\ Triple(bytes, g) \in Seq(Byte) /\ Len(Triple(bytes, g)) = TripleLen(n, g)
         /\ TripleLen(n, g) \in 0 .. 3
         /\ \A p \in 1 .. TripleLen(n, g) : Triple(bytes, g)[p] = bytes[3 * (g - 1) + p]
<1> DEFINE a == 3 * g - 2
           b == GroupLast(n, g)
           t == SubSeq(bytes, a, b)
           l == TripleLen(n, g)
<1>1. n \in Nat /\ a \in Nat /\ 1 <= a /\ b \in Nat /\ b <= n /\ l \in 0 .. 3
  BY LenProperties DEF GroupLast, TripleLen
<1>2. (a <= b => b - a + 1 = l) /\ (b < a => l = 0)
  BY <1>1, TripleEnds, Zenon
<1>3. b < a => l = 0
  BY <1>2
<1>4. \A i \in 1 .. n : bytes[i] \in Byte
  BY ElementOfSeq
<1>z. \A p \in 1 .. 3 : a + p - 1 = 3 * (g - 1) + p
  OBVIOUS
<1> HIDE DEF a, b, l
<1>5. \A i \in a .. b : bytes[i] \in Byte
  BY <1>1, <1>4
<1>6. ASSUME a <= b PROVE t \in Seq(Byte) /\ Len(t) = l /\ \A p \in 1 .. l : t[p] = bytes[a + p - 1]
  BY <1>1, <1>2, <1>5, <1>6, SubSeqProperties
<1>7. ASSUME b < a PROVE t = <<>> /\ l = 0
  BY <1>1, <1>3, <1>5, <1>7, SubSeqProperties
<1> HIDE DEF t
<1>8. a <= b \/ b < a
  BY <1>1
<1>9. t \in Seq(Byte) /\ Len(t) = l /\ \A p \in 1 .. l : t[p] = bytes[a + p - 1]
  <2>1. CASE a <= b
    BY <1>6, <2>1
  <2>2. CASE b < a
    <3>1. t = <<>> /\ l = 0
      BY <1>7, <2>2
    <3>2. <<>> \in Seq(Byte) /\ Len(<<>>) = 0
      BY EmptySeq
    <3>3. QED
      BY <3>1, <3>2
  <2>3. QED
    BY <1>8, <2>1, <2>2, Zenon
<1>10. \A p \in 1 .. l : a + p - 1 = 3 * (g - 1) + p
  BY <1>1, <1>z
<1>11. t = Triple(bytes, g)
  BY DEF t, a, b, Triple
<1>12. \A p \in 1 .. l : t[p] = bytes[3 * (g - 1) + p]
  BY <1>9, <1>10
<1>13. QED
  BY <1>1, <1>9, <1>11, <1>12, Zenon DEF l

(* The characters of a text without its newlines. *)
CharAt(bytes, k, url) == B64!Group(Triple(bytes, (k + 3) \div 4), url)[((k - 1) % 4) + 1]
Chars(bytes, url) == [k \in Nat |-> IF k = 0 THEN 0 ELSE CharAt(bytes, k, url)]

LEMMA CharsType == ASSUME NEW bytes \in Seq(Byte), NEW url \in BOOLEAN PROVE Chars(bytes, url) \in [Nat -> Byte]
<1>1. ASSUME NEW k \in Nat, k # 0 PROVE CharAt(bytes, k, url) \in Byte
  <2> DEFINE g == (k + 3) \div 4
             i == ((k - 1) % 4) + 1
  <2>1. g \in Nat \ {0} /\ i \in 1 .. 4
    BY <1>1
  <2> HIDE DEF g, i
  <2>2. Triple(bytes, g) \in Seq(Byte)
    BY <2>1, TripleType
  <2>3. B64!Group(Triple(bytes, g), url) \in Seq(Byte) /\ Len(B64!Group(Triple(bytes, g), url)) = 4
    BY <2>2, GroupType, Zenon
  <2>4. B64!Group(Triple(bytes, g), url)[i] \in Byte
    BY <2>1, <2>3, ElementOfSeq
  <2>5. QED
    BY <2>4, Zenon DEF CharAt, g, i
<1>2. 0 \in Byte
  BY DEF Byte
<1>3. QED
  BY <1>1, <1>2, Zenon DEF Chars

LEMMA CharsOf ==
  ASSUME NEW bytes \in Seq(Byte), NEW url \in BOOLEAN, NEW g \in Nat \ {0}, NEW i \in 1 .. 4
  PROVE  Chars(bytes, url)[4 * (g - 1) + i] = B64!Group(Triple(bytes, g), url)[i]
<1> DEFINE k == 4 * (g - 1) + i
<1>1. k \in Nat /\ k # 0 /\ (k + 3) \div 4 = g /\ ((k - 1) % 4) + 1 = i
  OBVIOUS
<1> HIDE DEF k
<1>2. Chars(bytes, url)[k] = CharAt(bytes, k, url)
  BY <1>1, Zenon DEF Chars
<1>3. CharAt(bytes, k, url) = B64!Group(Triple(bytes, g), url)[i]
  BY <1>1, Zenon DEF CharAt
<1>4. QED
  BY <1>2, <1>3 DEF k

(* The characters of a group: letters, then '='. *)
GroupShows(t, url, i) ==
  /\ i <= Len(t) + 1 => B64!Group(t, url)[i] = B64!Letter(Sextet(t)[i], url)
  /\ ~(i <= Len(t) + 1) => B64!Group(t, url)[i] = 61
  /\ Sextet(t)[i] \in 0 .. 63
  /\ B64!Letter(Sextet(t)[i], url) \in Byte \ {LF, 61}

LEMMA GroupChars ==
  ASSUME NEW t \in Seq(Byte), NEW url \in BOOLEAN, NEW i \in 1 .. 4 PROVE GroupShows(t, url, i)
<1> DEFINE C(j) == IF j <= Len(t) + 1 THEN B64!Letter(Sextet(t)[j], url) ELSE 61
<1>1. B64!Group(t, url) = [j \in 1 .. 4 |-> C(j)]
  BY GroupForm, Zenon
<1> HIDE DEF C
<1>2. B64!Group(t, url)[i] = C(i)
  BY <1>1
<1>3. Sextet(t)[i] \in 0 .. 63
  BY SextetRange, Zenon
<1>4. B64!Letter(Sextet(t)[i], url) \in Byte \ {LF, 61}
  BY <1>3, LetterPlain, Zenon
<1>5. QED
  BY <1>2, <1>3, <1>4, Zenon DEF C, GroupShows

-----------------------------------------------------------------------------
(* How far a text is: both without its newlines, and without '=' too, it is *)
(* the first characters that the groups make.                                *)
Breaks == {LF}
Blanks == {LF, 61}

LEMMA LettersAtMost == ASSUME NEW l \in 1 .. 3 PROVE l + 1 \in Nat /\ l + 1 <= 4
  OBVIOUS

(* A group adds four characters, of which so many letters as it has bytes and *)
(* one more.                                                                  *)
LEMMA GroupKept ==
  ASSUME NEW bytes \in Seq(Byte), NEW url \in BOOLEAN, NEW g \in Nat \ {0}, NEW s,
         Kept(s, Breaks, Chars(bytes, url), 4 * (g - 1)), Kept(s, Blanks, Chars(bytes, url), 4 * (g - 1)),
         NEW l, l = Len(Triple(bytes, g)), 1 <= l
  PROVE  LET t == s \o B64!Group(Triple(bytes, g), url)
         IN  /\ Kept(t, Breaks, Chars(bytes, url), 4 * (g - 1) + 4)
             /\ Kept(t, Blanks, Chars(bytes, url), 4 * (g - 1) + (l + 1))
<1> DEFINE F == Chars(bytes, url)
           m == 4 * (g - 1)
           x == B64!Group(Triple(bytes, g), url)
<1>1. F \in [Nat -> Byte]
  BY CharsType
<1>2. Triple(bytes, g) \in Seq(Byte) /\ l \in 1 .. 3
  <2>1. Triple(bytes, g) \in Seq(Byte) /\ l = TripleLen(Len(bytes), g) /\ TripleLen(Len(bytes), g) \in 0 .. 3
    BY TripleType
  <2>2. QED
    BY <2>1
<1>3. x \in Seq(Byte) /\ Len(x) = 4
  BY <1>2, GroupType, Zenon
<1>4. \A i \in 1 .. 4 : x[i] = F[m + i]
  BY CharsOf, Zenon
<1>5. \A i \in 1 .. 4 : /\ i <= l + 1 => x[i] \in Byte \ {LF, 61}
                        /\ ~(i <= l + 1) => x[i] = 61
  <2> SUFFICES ASSUME NEW i \in 1 .. 4
               PROVE  /\ i <= l + 1 => x[i] \in Byte \ {LF, 61}
                      /\ ~(i <= l + 1) => x[i] = 61
    OBVIOUS
  <2> DEFINE t == Triple(bytes, g)
             y == B64!Letter(Sextet(t)[i], url)
  <2>1. /\ i <= Len(t) + 1 => x[i] = y
        /\ ~(i <= Len(t) + 1) => x[i] = 61
        /\ y \in Byte \ {LF, 61}
    <3>1. GroupShows(t, url, i)
      BY <1>2, GroupChars, Zenon
    <3>2. QED
      BY <3>1, Zenon DEF GroupShows
  <2>2. l = Len(t)
    OBVIOUS
  <2> HIDE DEF t, y, x
  <2>3. QED
    BY <2>1, <2>2, Zenon
<1> HIDE DEF F, m, x
<1>6. Kept(s \o x, Breaks, F, m + 4)
  <2>1. \A j \in 1 .. 4 : x[j] = F[m + j] /\ x[j] \notin Breaks
    BY <1>4, <1>5 DEF Breaks, LF
  <2>2. Kept(s, Breaks, F, m)
    BY DEF F, m
  <2>3. \A j \in 4 + 1 .. Len(x) : x[j] \in Breaks
    BY <1>3
  <2>4. 4 \in Nat /\ 4 <= Len(x)
    BY <1>3
  <2>5. QED
    BY <1>1, <1>3, <2>1, <2>2, <2>3, <2>4, KeptMore, Zenon
<1>7. Kept(s \o x, Blanks, F, m + (l + 1))
  <2>1. \A j \in 1 .. l + 1 : x[j] = F[m + j] /\ x[j] \notin Blanks
    BY <1>2, <1>4, <1>5 DEF Blanks
  <2>2. Kept(s, Blanks, F, m)
    BY DEF F, m
  <2>3. \A j \in (l + 1) + 1 .. Len(x) : x[j] \in Blanks
    BY <1>2, <1>3, <1>5 DEF Blanks
  <2>4. l + 1 \in Nat /\ l + 1 <= Len(x)
    <3>1. l + 1 \in Nat /\ l + 1 <= 4
      BY <1>2, LettersAtMost, Zenon
    <3>2. QED
      BY <1>3, <3>1, Zenon
  <2>5. QED
    BY <1>1, <1>3, <2>1, <2>2, <2>3, <2>4, KeptMore, Zenon
<1>8. QED
  BY <1>6, <1>7 DEF F, m, x

(* A newline adds nothing. *)
LEMMA BreakKept ==
  ASSUME NEW C, LF \in C, NEW F \in [Nat -> Byte], NEW s, NEW m, Kept(s, C, F, m), NEW ends \in BOOLEAN
  PROVE  Kept(s \o (IF ends THEN <<LF>> ELSE <<>>), C, F, m)
<1>1. LF \in Byte
  BY DEF LF, Byte
<1>2. Kept(s \o <<LF>>, C, F, m)
  BY <1>1, KeptOne, Zenon
<1>3. s \in Seq(Byte)
  BY DEF Kept
<1>4. s \o <<>> = s
  BY <1>3, ConcatEmptySeq
<1>5. QED
  BY <1>2, <1>4, Zenon

(* Both readings of the text are as far as m and k characters. *)
BothKept(s, F, m, k) == Kept(s, Breaks, F, m) /\ Kept(s, Blanks, F, k)

(* The letters of a text for n bytes. *)
LettersOf(n) == 4 * (n \div 3) + (IF n % 3 = 0 THEN 0 ELSE (n % 3) + 1)

LEMMA WholeGroups ==
  ASSUME NEW bytes \in Seq(Byte), NEW n, n = Len(bytes), NEW g \in 1 .. n \div 3
  PROVE  /\ Triple(bytes, g) = SubSeq(bytes, 3 * g - 2, 3 * g) /\ Len(Triple(bytes, g)) = 3
         /\ g \in Nat \ {0}
<1>1. n \in Nat /\ g \in Nat \ {0} /\ 3 * g <= n
  BY LenProperties
<1>2. GroupLast(n, g) = 3 * g /\ TripleLen(n, g) = 3
  BY <1>1 DEF GroupLast, TripleLen
<1>3. Len(Triple(bytes, g)) = TripleLen(n, g)
  BY <1>1, TripleType, Zenon
<1>4. Triple(bytes, g) = SubSeq(bytes, 3 * g - 2, 3 * g)
  BY <1>2, Zenon DEF Triple
<1>5. QED
  BY <1>1, <1>2, <1>3, <1>4, Zenon

LEMMA PieceKept ==
  ASSUME NEW bytes \in Seq(Byte), NEW n, n = Len(bytes), NEW g \in 1 .. n \div 3, NEW len \in Nat,
         NEW url \in BOOLEAN, NEW s, BothKept(s, Chars(bytes, url), 4 * (g - 1), 4 * (g - 1))
  PROVE  BothKept(s \o Base64Piece(bytes, g, len, url), Chars(bytes, url), 4 * g, 4 * g)
<1> DEFINE F == Chars(bytes, url)
           m == 4 * (g - 1)
           t == Triple(bytes, g)
           x == B64!Group(t, url)
           ends == len > 0 /\ g % (len \div 4) = 0
           e == IF ends THEN <<LF>> ELSE <<>>
           u == s \o x
<1>1. F \in [Nat -> Byte]
  BY CharsType
<1>2. t = SubSeq(bytes, 3 * g - 2, 3 * g) /\ Len(t) = 3 /\ g \in Nat \ {0}
  BY WholeGroups, Zenon
<1>3. t \in Seq(Byte)
  BY <1>2, TripleType, Zenon
<1>4. m + 4 = 4 * g /\ m + (3 + 1) = 4 * g
  BY <1>2
<1>5. Kept(s, Breaks, F, m) /\ Kept(s, Blanks, F, m)
  BY Zenon DEF BothKept
<1>6. Kept(u, Breaks, F, m + 4) /\ Kept(u, Blanks, F, m + (3 + 1))
  <2>1. 1 <= 3
    OBVIOUS
  <2>2. QED
    BY <1>2, <1>5, <2>1, GroupKept, Zenon
<1>7. Base64Piece(bytes, g, len, url) = x \o e
  BY <1>2, Zenon DEF Base64Piece
<1>8. x \in Seq(Byte)
  BY <1>3, GroupType, Zenon
<1>9. s \in Seq(Byte) /\ e \in Seq(Byte) /\ ends \in BOOLEAN
  <2>1. <<LF>> \in Seq(Byte) /\ <<>> \in Seq(Byte)
    BY DEF LF, Byte
  <2>2. QED
    BY <1>5, <2>1, Zenon DEF Kept
<1> HIDE DEF F, m, x, ends, u, t
<1>10. LF \in Breaks /\ LF \in Blanks
  BY DEF Breaks, Blanks
<1>11. Kept(u \o e, Breaks, F, m + 4) /\ Kept(u \o e, Blanks, F, m + (3 + 1))
  BY <1>1, <1>6, <1>9, <1>10, BreakKept, Zenon
<1> HIDE DEF e
<1>12. Associates(s, x, e)
  BY <1>8, <1>9, Associative, Zenon
<1>13. s \o (x \o e) = u \o e
  BY <1>12, Zenon DEF Associates, u
<1>14. QED
  BY <1>4, <1>7, <1>11, <1>13, Zenon DEF BothKept, F

(* The bytes after the full groups are the next, a short one. *)
LEMMA RestGroup ==
  ASSUME NEW bytes \in Seq(Byte), NEW n, n = Len(bytes), n % 3 # 0, NEW g, g = n \div 3 + 1
  PROVE  /\ g \in Nat \ {0}
         /\ Triple(bytes, g) = SubSeq(bytes, 3 * (n \div 3) + 1, n)
         /\ Len(Triple(bytes, g)) = n % 3
<1>1. n \in Nat
  BY LenProperties
<1> DEFINE q == n \div 3
           r == n % 3
<1>2. q \in Nat /\ r \in 1 .. 2 /\ n = 3 * q + r
  BY <1>1
<1>3. g = q + 1
  OBVIOUS
<1> HIDE DEF q, r
<1>4. g \in Nat \ {0} /\ ~(3 * g <= n) /\ 3 * g - 2 <= n /\ 3 * g - 2 = 3 * q + 1 /\ n - (3 * g - 3) = r
  BY <1>2, <1>3
<1>5. GroupLast(n, g) = n /\ TripleLen(n, g) = r
  BY <1>4 DEF GroupLast, TripleLen
<1>6. Len(Triple(bytes, g)) = TripleLen(n, g)
  BY <1>4, TripleType, Zenon
<1>7. Triple(bytes, g) = SubSeq(bytes, 3 * q + 1, n)
  BY <1>4, <1>5, Zenon DEF Triple
<1>8. QED
  BY <1>4, <1>5, <1>6, <1>7, Zenon DEF q, r

LEMMA TailKept ==
  ASSUME NEW bytes \in Seq(Byte), NEW n, n = Len(bytes), NEW url \in BOOLEAN, NEW s,
         BothKept(s, Chars(bytes, url), 4 * (n \div 3), 4 * (n \div 3))
  PROVE  BothKept(s \o Base64Tail(bytes, url), Chars(bytes, url), 4 * ((n + 2) \div 3), LettersOf(n))
<1> DEFINE F == Chars(bytes, url)
           q == n \div 3
           rest == SubSeq(bytes, 3 * q + 1, n)
           tail == Base64Tail(bytes, url)
<1>1. n \in Nat /\ q \in Nat
  BY LenProperties
<1>2. tail = IF rest = <<>> THEN <<>> ELSE B64!Group(rest, url)
  BY Zenon DEF Base64Tail
<1>3. Kept(s, Breaks, F, 4 * q) /\ Kept(s, Blanks, F, 4 * q)
  BY Zenon DEF BothKept
<1>4. s \in Seq(Byte)
  BY <1>3, Zenon DEF Kept
<1>5. ASSUME n % 3 = 0
      PROVE  BothKept(s \o tail, F, 4 * ((n + 2) \div 3), LettersOf(n))
  <2>1. (n + 2) \div 3 = q /\ 3 * q = n
    BY <1>1, <1>5
  <2>2. LettersOf(n) = 4 * q
    <3>1. LettersOf(n) = 4 * q + 0
      BY <1>5, Zenon DEF LettersOf
    <3> HIDE DEF q
    <3>2. QED
      BY <1>1, <3>1
  <2>3. rest = <<>>
    <3>1. n + 1 \in Int /\ n < n + 1 /\ \A i \in n + 1 .. n : bytes[i] \in Byte
      BY <1>1
    <3>2. SubSeq(bytes, n + 1, n) = <<>>
      BY <1>1, <3>1, SubSeqProperties
    <3> HIDE DEF q
    <3>3. QED
      BY <2>1, <3>2, Zenon
  <2> HIDE DEF tail, rest, F, q
  <2>4. s \o tail = s
    BY <1>2, <1>4, <2>3, ConcatEmptySeq
  <2>5. QED
    BY <1>3, <2>1, <2>2, <2>4, Zenon DEF BothKept
<1>6. ASSUME n % 3 # 0
      PROVE  BothKept(s \o tail, F, 4 * ((n + 2) \div 3), LettersOf(n))
  <2> DEFINE g == q + 1
             r == n % 3
  <2>1. (n + 2) \div 3 = g /\ r \in 1 .. 2
    BY <1>1, <1>6
  <2>2. LettersOf(n) = 4 * q + (r + 1)
    BY <1>6, Zenon DEF LettersOf
  <2>3. g \in Nat \ {0} /\ Triple(bytes, g) = rest /\ Len(Triple(bytes, g)) = r
    BY <1>6, RestGroup, Zenon
  <2>z. 4 * (g - 1) = 4 * q /\ 4 * q + 4 = 4 * g
    BY <1>1
  <2>y. 1 <= r
    BY <2>1
  <2>4. rest # <<>>
    <3> HIDE DEF rest, r
    <3>1. Len(rest) # 0
      BY <2>1, <2>3
    <3>2. QED
      BY <3>1, EmptySeq
  <2> HIDE DEF g, r, rest, q, tail, F
  <2>5. tail = B64!Group(Triple(bytes, g), url)
    BY <1>2, <2>3, <2>4, Zenon
  <2>6. Kept(s, Breaks, F, 4 * (g - 1)) /\ Kept(s, Blanks, F, 4 * (g - 1))
    BY <1>3, <2>z, Zenon
  <2>7. Kept(s \o tail, Breaks, F, 4 * (g - 1) + 4) /\ Kept(s \o tail, Blanks, F, 4 * (g - 1) + (r + 1))
    BY <2>3, <2>5, <2>6, <2>y, GroupKept, Zenon DEF F
  <2>8. Kept(s \o tail, Breaks, F, 4 * g) /\ Kept(s \o tail, Blanks, F, 4 * q + (r + 1))
    BY <2>7, <2>z, Zenon
  <2>9. QED
    BY <2>1, <2>2, <2>8, Zenon DEF BothKept
<1>7. QED
  BY <1>5, <1>6, Zenon

(* The whole text. *)
LEMMA TextKept ==
  ASSUME NEW bytes \in Seq(Byte), bytes # <<>>, NEW len \in Nat, len % 4 = 0, NEW url \in BOOLEAN,
         NEW n, n = Len(bytes)
  PROVE  BothKept(B64!cc_base64_encode(bytes, len, url), Chars(bytes, url), 4 * ((n + 2) \div 3), LettersOf(n))
<1> DEFINE F == Chars(bytes, url)
           q == n \div 3
           P(g) == Base64Piece(bytes, g, len, url)
           tail == Base64Tail(bytes, url)
           end == Base64End(bytes, len)
<1>1. n \in Nat /\ q \in Nat
  BY LenProperties
<1>2. PICK f \in [Nat -> Seq(Byte)] :
        /\ f[0] = <<>> /\ \A g \in 1 .. q : f[g] = f[g - 1] \o P(g)
        /\ B64!cc_base64_encode(bytes, len, url) = (f[q] \o tail) \o end
  BY Base64Steps, Zenon
<1> DEFINE Far(g) == BothKept(f[g], F, 4 * g, 4 * g)
           E == {g \in Nat : g <= q => Far(g)}
<1>3. 0 \in E
  <2>1. 4 * 0 = 0
    OBVIOUS
  <2>2. Kept(<<>>, Breaks, F, 0) /\ Kept(<<>>, Blanks, F, 0)
    BY KeptNone, Zenon
  <2>3. Far(0)
    BY <1>2, <2>1, <2>2, Zenon DEF BothKept
  <2> HIDE DEF Far
  <2>4. QED
    BY <2>3
<1>4. ASSUME NEW g \in Nat, g \in E PROVE g + 1 \in E
  <2>1. ASSUME g + 1 <= q PROVE Far(g + 1)
    <3> DEFINE h == g + 1
    <3>1. h \in 1 .. q /\ h - 1 = g /\ g <= q
      BY <1>1, <2>1
    <3>2. Far(g)
      BY <1>4, <3>1
    <3> HIDE DEF h
    <3>3. BothKept(f[h - 1], F, 4 * (h - 1), 4 * (h - 1))
      BY <3>1, <3>2, Zenon
    <3>4. f[h] = f[h - 1] \o P(h)
      BY <1>2, <3>1, Zenon
    <3>5. BothKept(f[h - 1] \o P(h), F, 4 * h, 4 * h)
      BY <3>1, <3>3, PieceKept, Zenon
    <3>6. Far(h)
      BY <3>4, <3>5, Zenon
    <3>7. QED
      BY <3>6 DEF h
  <2> HIDE DEF Far
  <2>2. QED
    BY <2>1
<1> HIDE DEF E
<1>5. \A g \in Nat : g \in E
  BY <1>3, <1>4, SetInduction
<1>6. Far(q)
  <2> HIDE DEF Far, q
  <2>1. q <= q
    BY <1>1
  <2>2. QED
    BY <1>1, <1>5, <2>1 DEF E
<1>7. BothKept(f[q] \o tail, F, 4 * ((n + 2) \div 3), LettersOf(n))
  BY <1>6, TailKept, Zenon
<1>8. BothKept((f[q] \o tail) \o end, F, 4 * ((n + 2) \div 3), LettersOf(n))
  <2> DEFINE ends == len > 0 /\ (Len(bytes) \div 3) % (len \div 4) # 0
             t == f[q] \o tail
             m == 4 * ((n + 2) \div 3)
             k == LettersOf(n)
  <2>1. end = IF ends THEN <<LF>> ELSE <<>>
    BY Zenon DEF Base64End
  <2>2. ends \in BOOLEAN
    OBVIOUS
  <2>3. LF \in Breaks /\ LF \in Blanks
    BY DEF Breaks, Blanks
  <2>4. F \in [Nat -> Byte]
    BY CharsType
  <2>5. Kept(t, Breaks, F, m) /\ Kept(t, Blanks, F, k)
    BY <1>7, Zenon DEF BothKept
  <2> HIDE DEF ends, t, m, k, F, end
  <2>6. Kept(t \o end, Breaks, F, m) /\ Kept(t \o end, Blanks, F, k)
    BY <2>1, <2>2, <2>3, <2>4, <2>5, BreakKept, Zenon
  <2>7. QED
    BY <2>6, Zenon DEF BothKept, t, m, k
<1>9. QED
  BY <1>2, <1>8, Zenon

(* Where the k-th bit of the p-th byte of the g-th group stands. *)
ByteNumber(g, p) == 3 * (g - 1) + p
BitNumber(p, k)  == 8 * (p - 1) + k
LetterOf(p, k)   == (BitNumber(p, k) + 5) \div 6
BitStands(g, p, k) ==
  /\ 8 * (ByteNumber(g, p) - 1) + k = 24 * (g - 1) + BitNumber(p, k)
  /\ ((8 * (ByteNumber(g, p) - 1) + k) + 5) \div 6 = 4 * (g - 1) + LetterOf(p, k)
  /\ ((8 * (ByteNumber(g, p) - 1) + k) - 1) % 6 = (BitNumber(p, k) - 1) % 6
  /\ LetterOf(p, k) \in 1 .. p + 1
  /\ BitNumber(p, k) <= 6 * LetterOf(p, k) /\ BitNumber(p, k) \in 1 .. 24

LEMMA BitPlace == ASSUME NEW g \in Nat \ {0}, NEW p \in 1 .. 3, NEW k \in 1 .. 8 PROVE BitStands(g, p, k)
<1> DEFINE h == BitNumber(p, k)
           c == LetterOf(p, k)
           K == 8 * (ByteNumber(g, p) - 1) + k
<1>1. h \in 1 .. 24 /\ K = 24 * (g - 1) + h /\ h <= 8 * p
  BY DEF BitNumber, ByteNumber
<1>2. c = (h + 5) \div 6
  BY Zenon DEF LetterOf
<1> HIDE DEF h, c, K
<1>3. h <= 6 * c /\ 6 * c <= h + 5 /\ c \in Int
  BY <1>1, <1>2
<1>4. c \in 1 .. p + 1
  BY <1>1, <1>3
<1>5. (K + 5) \div 6 = 4 * (g - 1) + c
  BY <1>1, <1>3
<1>6. (K - 1) % 6 = (h - 1) % 6
  BY <1>1
<1>7. QED
  BY <1>1, <1>3, <1>4, <1>5, <1>6, Zenon DEF h, c, K, BitStands

(* Each byte is in a group, which has as many letters as it has bytes and one *)
(* more.                                                                      *)
Grouped(n, i, g, p) ==
  /\ g \in Nat \ {0} /\ p \in 1 .. 3 /\ i = ByteNumber(g, p) /\ p <= TripleLen(n, g)
  /\ 4 * (g - 1) + (p + 1) <= LettersOf(n)

LEMMA ByteGrouped ==
  ASSUME NEW n \in Nat, NEW i \in 1 .. n PROVE \E g, p : Grouped(n, i, g, p)
<1> DEFINE g == (i - 1) \div 3 + 1
           p == ((i - 1) % 3) + 1
           q == n \div 3
           r == n % 3
<1>1. g \in Nat \ {0} /\ p \in 1 .. 3 /\ i = 3 * (g - 1) + p
  OBVIOUS
<1>2. q \in Nat /\ r \in 0 .. 2 /\ n = 3 * q + r
  OBVIOUS
<1>3. LettersOf(n) = 4 * q + (IF r = 0 THEN 0 ELSE r + 1)
  BY DEF LettersOf
<1>4. i = ByteNumber(g, p)
  BY <1>1 DEF ByteNumber
<1> HIDE DEF g, p, q, r
<1>5. CASE 3 * g <= n
  <2>1. TripleLen(n, g) = 3
    BY <1>5 DEF TripleLen
  <2>2. g <= q
    BY <1>1, <1>2, <1>5
  <2>3. LettersOf(n) >= 4 * q
    BY <1>2, <1>3
  <2>4. 4 * (g - 1) + (p + 1) <= LettersOf(n)
    BY <1>1, <1>2, <1>3, <2>2
  <2>5. Grouped(n, i, g, p)
    BY <1>1, <1>4, <2>1, <2>4 DEF Grouped
  <2>6. QED
    BY <2>5
<1>6. CASE ~(3 * g <= n)
  <2>1. 3 * g - 2 <= n
    BY <1>1
  <2>2. g = q + 1 /\ r # 0 /\ p <= r
    BY <1>1, <1>2, <1>6, <2>1
  <2>3. TripleLen(n, g) = r
    <3>1. n - (3 * g - 3) = r
      BY <1>2, <2>2
    <3>2. QED
      BY <1>6, <2>1, <3>1 DEF TripleLen
  <2>4. 4 * (g - 1) + (p + 1) <= LettersOf(n)
    BY <1>1, <1>2, <1>3, <2>2
  <2>5. Grouped(n, i, g, p)
    BY <1>1, <1>4, <2>2, <2>3, <2>4 DEF Grouped
  <2>6. QED
    BY <2>5
<1>7. QED
  BY <1>5, <1>6

LEMMA LettersFill == ASSUME NEW n \in Nat PROVE LettersOf(n) \in Nat /\ (6 * LettersOf(n)) \div 8 = n
<1> DEFINE q == n \div 3
           r == n % 3
           m == LettersOf(n)
<1>1. q \in Nat /\ r \in 0 .. 2 /\ n = 3 * q + r
  OBVIOUS
<1>2. m = 4 * q + (IF r = 0 THEN 0 ELSE r + 1)
  BY DEF LettersOf
<1> HIDE DEF q, r, m
<1>3. m \in Nat
  BY <1>1, <1>2
<1>4. 6 * m = 24 * q + (IF r = 0 THEN 0 ELSE 6 * r + 6)
  BY <1>1, <1>2
<1>5. (6 * m) \div 8 = n
  BY <1>1, <1>3, <1>4
<1>6. QED
  BY <1>3, <1>5 DEF m

LEMMA LetterPlace ==
  ASSUME NEW m \in Nat, NEW g \in Nat \ {0}, NEW p \in 1 .. 3, NEW l \in 0 .. 3, p <= l,
         4 * (g - 1) + (p + 1) <= m, NEW c \in 1 .. p + 1
  PROVE  c \in 1 .. 4 /\ 4 * (g - 1) + c \in 1 .. m /\ c <= l + 1
  OBVIOUS

(* The letters of a text stand for its bytes. *)
LEMMA LettersMean ==
  ASSUME NEW bytes \in Seq(Byte), NEW url \in BOOLEAN
  PROVE  BytesOf(Bits([k \in 1 .. LettersOf(Len(bytes)) |-> Chars(bytes, url)[k]], url)) = bytes
<1> DEFINE F == Chars(bytes, url)
           n == Len(bytes)
           m == LettersOf(n)
           w == [k \in 1 .. m |-> F[k]]
           V(k) == Bit(LetterValue(w[(k + 5) \div 6], url), 5 - ((k - 1) % 6))
           bits == Bits(w, url)
           O(i) == Octet([k \in 1 .. 8 |-> bits[8 * (i - 1) + k]])
<1>1. n \in Nat
  BY LenProperties
<1>2. m \in Nat /\ (6 * m) \div 8 = n
  BY <1>1, LettersFill, Zenon
<1> HIDE DEF F, m
<1>4. Len(w) = m /\ \A k \in 1 .. m : w[k] = F[k]
  BY <1>2
<1>t. \A g \in Nat \ {0} :
        /\ Triple(bytes, g) \in Seq(Byte) /\ Len(Triple(bytes, g)) = TripleLen(n, g)
        /\ TripleLen(n, g) \in 0 .. 3
        /\ \A p \in 1 .. TripleLen(n, g) : Triple(bytes, g)[p] = bytes[3 * (g - 1) + p]
  BY TripleType
<1>n. bytes = [i \in 1 .. n |-> bytes[i]]
  BY LenProperties
<1> HIDE DEF n, w
<1>5. bits = [k \in 1 .. 6 * Len(w) |-> V(k)]
  BY Zenon DEF Bits
<1>6. bits = [k \in 1 .. 6 * m |-> V(k)]
  BY <1>4, <1>5, Zenon
<1> HIDE DEF V, bits
<1>7. Len(bits) = 6 * m /\ \A k \in 1 .. 6 * m : bits[k] = V(k)
  BY <1>2, <1>6
<1>8. BytesOf(bits) = [i \in 1 .. n |-> O(i)]
  <2>1. BytesOf(bits) = [i \in 1 .. Len(bits) \div 8 |-> O(i)]
    BY Zenon DEF BytesOf
  <2>2. Len(bits) \div 8 = n
    BY <1>2, <1>7
  <2>3. QED
    BY <2>1, <2>2, Zenon
<1>9. ASSUME NEW i \in 1 .. n PROVE O(i) = bytes[i]
  <2>1. PICK g, p : Grouped(n, i, g, p)
    BY <1>1, ByteGrouped, Zenon
  <2>2. /\ g \in Nat \ {0} /\ p \in 1 .. 3 /\ i = ByteNumber(g, p) /\ p <= TripleLen(n, g)
        /\ 4 * (g - 1) + (p + 1) <= m
    BY <2>1, Zenon DEF Grouped, m
  <2> DEFINE t == Triple(bytes, g)
             l == TripleLen(n, g)
  <2>3. t \in Seq(Byte) /\ Len(t) = l /\ l \in 0 .. 3 /\ \A j \in 1 .. l : t[j] = bytes[3 * (g - 1) + j]
    BY <1>t, <2>2, Zenon
  <2>4. ASSUME NEW c \in 1 .. p + 1 PROVE /\ 4 * (g - 1) + c \in 1 .. m
                                          /\ LetterValue(w[4 * (g - 1) + c], url) = Sextet(t)[c]
    <3>1. c \in 1 .. 4 /\ 4 * (g - 1) + c \in 1 .. m /\ c <= l + 1
      <4> HIDE DEF l
      <4>1. p <= l
        BY <2>2, Zenon DEF l
      <4>2. QED
        BY <1>2, <2>2, <2>3, <2>4, <4>1, LetterPlace, Zenon
    <3>2. w[4 * (g - 1) + c] = F[4 * (g - 1) + c]
      BY <1>4, <3>1
    <3>3. F[4 * (g - 1) + c] = B64!Group(t, url)[c]
      BY <2>2, <3>1, CharsOf, Zenon DEF F
    <3>4. GroupShows(t, url, c)
      BY <2>3, <3>1, GroupChars, Zenon
    <3>5. c <= Len(t) + 1
      BY <2>3, <3>1, Zenon
    <3> HIDE DEF t, l
    <3>6. B64!Group(t, url)[c] = B64!Letter(Sextet(t)[c], url) /\ Sextet(t)[c] \in 0 .. 63
      BY <3>4, <3>5, Zenon DEF GroupShows
    <3>7. LetterValue(B64!Letter(Sextet(t)[c], url), url) = Sextet(t)[c]
      BY <3>6, ValueOfLetter, Zenon
    <3>8. QED
      BY <3>1, <3>2, <3>3, <3>6, <3>7, Zenon
  <2>5. ASSUME NEW k \in 1 .. 8 PROVE bits[8 * (i - 1) + k] = GroupBit(t, 8 * (p - 1) + k)
    <3> DEFINE K == 8 * (i - 1) + k
               h == BitNumber(p, k)
               c == LetterOf(p, k)
    <3>1. BitStands(g, p, k)
      BY <2>2, BitPlace, Zenon
    <3>2. /\ K = 24 * (g - 1) + h /\ (K + 5) \div 6 = 4 * (g - 1) + c /\ (K - 1) % 6 = (h - 1) % 6
          /\ c \in 1 .. p + 1 /\ h <= 6 * c /\ h \in 1 .. 24
      BY <2>2, <3>1, Zenon DEF BitStands
    <3>3. c = (h + 5) \div 6 /\ h = 8 * (p - 1) + k
      BY Zenon DEF LetterOf, BitNumber
    <3> HIDE DEF K, h, c, t
    <3>4. 4 * (g - 1) + c \in 1 .. m /\ LetterValue(w[4 * (g - 1) + c], url) = Sextet(t)[c]
      BY <2>4, <3>2, Zenon
    <3>5. K \in 1 .. 6 * m
      BY <1>2, <2>2, <3>2, <3>4
    <3>6. bits[K] = V(K)
      BY <1>7, <3>5, Zenon
    <3>7. V(K) = Bit(Sextet(t)[c], 5 - ((h - 1) % 6))
      BY <3>2, <3>4, Zenon DEF V
    <3>8. GroupBit(t, h) = Bit(Sextet(t)[c], 5 - ((h - 1) % 6))
      BY <3>3, Zenon DEF GroupBit
    <3>9. QED
      BY <3>3, <3>6, <3>7, <3>8, Zenon DEF K
  <2> DEFINE b == [k \in 1 .. 8 |-> bits[8 * (i - 1) + k]]
  <2>6. \A k \in 1 .. 8 : b[k] = GroupBit(t, 8 * (p - 1) + k)
    BY <2>5, Zenon
  <2> HIDE DEF b, t, l
  <2>7. Octet(b) = GroupByte(t, p)
    BY <2>2, <2>3, <2>6, GroupMeans, Zenon
  <2>8. p <= l /\ p \in 1 .. l
    <3>1. p <= l
      BY <2>2, Zenon DEF l
    <3>2. QED
      BY <2>2, <2>3, <3>1
  <2>9. GroupByte(t, p) = t[p]
    <3>1. p <= Len(t)
      BY <2>3, <2>8, Zenon
    <3>2. QED
      BY <3>1, Zenon DEF GroupByte
  <2>10. t[p] = bytes[i]
    BY <2>2, <2>3, <2>8, Zenon DEF ByteNumber
  <2>11. QED
    BY <2>7, <2>9, <2>10, Zenon DEF b
<1> HIDE DEF O
<1>11. [i \in 1 .. n |-> O(i)] = [i \in 1 .. n |-> bytes[i]]
  BY <1>9
<1>12. QED
  BY <1>8, <1>n, <1>11, Zenon DEF bits, w, m, n, F

(* '=' stands in the last group only, after two letters at least. *)
LEMMA PadLast ==
  ASSUME NEW bytes \in Seq(Byte), NEW n, n = Len(bytes), NEW url \in BOOLEAN,
         NEW i \in 1 .. 4 * ((n + 2) \div 3)
  PROVE  Chars(bytes, url)[i] = 61 => i > 4 * ((n + 2) \div 3) - 2
<1> DEFINE g == (i - 1) \div 4 + 1
           c == ((i - 1) % 4) + 1
           q == (n + 2) \div 3
           t == Triple(bytes, g)
           l == TripleLen(n, g)
<1>f. \A h \in Nat \ {0}, j \in 1 .. 4 :
        Chars(bytes, url)[4 * (h - 1) + j] = B64!Group(Triple(bytes, h), url)[j]
  BY CharsOf, Zenon
<1>1. n \in Nat
  BY LenProperties
<1>2. q \in Nat /\ 3 * q >= n /\ 3 * q <= n + 2
  BY <1>1
<1>3. i \in 1 .. 4 * q
  OBVIOUS
<1> HIDE DEF q
<1>4. i \in Nat /\ i >= 1 /\ i <= 4 * q
  BY <1>2, <1>3
<1>5. g \in Nat \ {0} /\ c \in 1 .. 4 /\ i = 4 * (g - 1) + c
  BY <1>4
<1> HIDE DEF g, c
<1>6. g <= q
  BY <1>2, <1>4, <1>5
<1>7. 3 * g - 2 <= n /\ (3 * g <= n \/ g = q)
  BY <1>1, <1>2, <1>5, <1>6
<1>8. (3 * g <= n => l = 3) /\ l >= 1
  BY <1>1, <1>5, <1>7 DEF TripleLen
<1>9. t \in Seq(Byte) /\ Len(t) = l /\ l \in 0 .. 3
  BY <1>5, TripleType, Zenon
<1>10. Chars(bytes, url)[i] = B64!Group(t, url)[c]
  <2>0. g \in Nat \ {0} /\ c \in 1 .. 4
    BY <1>5
  <2>1. Chars(bytes, url)[4 * (g - 1) + c] = B64!Group(t, url)[c]
    BY <1>f, <2>0, Zenon
  <2> HIDE DEF t
  <2>2. QED
    BY <1>5, <2>1, Zenon
<1>11. GroupShows(t, url, c)
  BY <1>5, <1>9, GroupChars, Zenon
<1> HIDE DEF t, l
<1>12. ASSUME Chars(bytes, url)[i] = 61 PROVE ~(c <= Len(t) + 1)
  <2>1. ASSUME c <= Len(t) + 1 PROVE FALSE
    <3>1. B64!Group(t, url)[c] \in Byte \ {LF, 61}
      BY <1>11, <2>1, Zenon DEF GroupShows
    <3>2. B64!Group(t, url)[c] = 61
      BY <1>10, <1>12, Zenon
    <3>3. QED
      BY <3>1, <3>2
  <2>2. QED
    BY <2>1
<1>13. ASSUME ~(c <= l + 1) PROVE i > 4 * q - 2
  <2>1. c > 2 /\ l < 3
    BY <1>5, <1>8, <1>9, <1>13
  <2>2. g = q
    BY <1>7, <1>8, <1>9, <2>1
  <2>3. QED
    BY <1>2, <1>5, <2>1, <2>2
<1>14. Chars(bytes, url)[i] = 61 => i > 4 * q - 2
  BY <1>9, <1>12, <1>13, Zenon
<1>15. QED
  BY <1>14 DEF q

(* Base64 text in either alphabet, broken into lines or not, stands for the   *)
(* bytes it was made from: src/cc/format/base64.c, cc_base64_encode.          *)
THEOREM Base64Meaningful == Spec => []Base64Meant
<1>1. Typed => Base64Meant
  <2> SUFFICES ASSUME str \in Seq(Byte), str # <<>>, NEW len \in LineLens, NEW url \in BOOLEAN
               PROVE  LET text == B64!cc_base64_encode(str, len, url)
                          flat == Without(text, {LF})
                      IN  IF len % 4 # 0 THEN text = <<-1>>
                          ELSE /\ Base64Meaning(text, url) = str
                               /\ Len(flat) % 4 = 0
                               /\ \A i \in DOMAIN flat : flat[i] = 61 => i > Len(flat) - 2
    BY Zenon DEF Base64Meant, Typed, TriedAs
  <2> DEFINE text == B64!cc_base64_encode(str, len, url)
             flat == Without(text, {LF})
             n == Len(str)
             m == 4 * ((n + 2) \div 3)
             F == Chars(str, url)
  <2>0. len \in Nat
    BY LineAssumption
  <2>1. ASSUME len % 4 # 0 PROVE text = <<-1>>
    BY <2>1, Zenon DEF B64!cc_base64_encode, B64!Failed
  <2>2. ASSUME len % 4 = 0
        PROVE  /\ Base64Meaning(text, url) = str
               /\ Len(flat) % 4 = 0
               /\ \A i \in DOMAIN flat : flat[i] = 61 => i > Len(flat) - 2
    <3>1. BothKept(text, F, m, LettersOf(n))
      BY <2>0, <2>2, TextKept, Zenon
    <3>2. Without(text, Breaks) = [k \in 1 .. m |-> F[k]] /\ m \in Nat
      BY <3>1, Zenon DEF BothKept, Kept
    <3>3. Without(text, Blanks) = [k \in 1 .. LettersOf(n) |-> F[k]]
      BY <3>1, Zenon DEF BothKept, Kept
    <3>4. BytesOf(Bits(Without(text, Blanks), url)) = str
      <4>1. BytesOf(Bits([k \in 1 .. LettersOf(n) |-> F[k]], url)) = str
        BY LettersMean, Zenon
      <4> HIDE DEF text, n, F
      <4>2. QED
        BY <3>3, <4>1, Zenon
    <3>5. Base64Meaning(text, url) = str
      BY <3>4, Zenon DEF Base64Meaning, Blanks
    <3>6. flat = [k \in 1 .. m |-> F[k]]
      BY <3>2, Zenon DEF Breaks
    <3>7. \A i \in 1 .. m : F[i] = 61 => i > m - 2
      BY PadLast, Zenon
    <3>8. m % 4 = 0
      BY LenProperties
    <3> HIDE DEF flat, m, F
    <3>9. Len(flat) = m /\ DOMAIN flat = 1 .. m /\ \A i \in 1 .. m : flat[i] = F[i]
      BY <3>2, <3>6
    <3>10. Len(flat) % 4 = 0 /\ \A i \in DOMAIN flat : flat[i] = 61 => i > Len(flat) - 2
      BY <3>7, <3>8, <3>9, Zenon
    <3>11. QED
      BY <3>5, <3>10, Zenon
  <2>3. QED
    BY <2>1, <2>2, Zenon
<1>2. QED
  BY <1>1, StringTyped, PTL
=============================================================================
