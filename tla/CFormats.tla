------------------------------ MODULE CFormats ------------------------------
(***************************************************************************)
(* src/cc/format/cformat.c: text as a C string literal, bytes as a C       *)
(* initialiser, and back.  The input comes in reads of a buffer's size;    *)
(* the decoders look at the bytes behind a read's last one, which are what *)
(* an earlier read left there, or nobody's.                                *)
(***************************************************************************)
EXTENDS Integers, Sequences, SequencesExt

LOCAL Hex == INSTANCE HexCodec

Nobodys == -1              \* a byte of the buffer, or behind it, that was not read
Escape  == 92
Named   == [n |-> <<110, 10>>, r |-> <<114, 13>>, t |-> <<116, 9>>,
            backslash |-> <<92, 92>>, quote |-> <<34, 34>>]     \* letter, meaning

(* A buffer size below STACK_BUFFER_SIZE is not obeyed. *)
BufferSize(wanted, stack) == IF wanted > stack THEN wanted ELSE stack

(* The input as it is read: full buffers, then the rest. *)
Reads(s, size) ==
  [k \in 1 .. (Len(s) + size - 1) \div size |->
     SubSeq(s, (k - 1) * size + 1, IF k * size < Len(s) THEN k * size ELSE Len(s))]

(* The buffer while a read is decoded: read k, then the end of the one before. *)
Behind(reads, k, i) ==
  IF i <= Len(reads[k]) THEN reads[k][i]
  ELSE IF k > 1 /\ i <= Len(reads[k - 1]) THEN reads[k - 1][i] ELSE Nobodys

-----------------------------------------------------------------------------
cstr_encode(s) ==
  FlattenSeq([i \in DOMAIN s |->
    IF \E e \in DOMAIN Named : Named[e][2] = s[i]
    THEN <<Escape, Named[CHOOSE e \in DOMAIN Named : Named[e][2] = s[i]][1]>>
    ELSE <<s[i]>>])

(* Definitions named ...Bug are mistakes this code could easily have had; each *)
(* stands before the definition it would spoil.                               *)
UnescapedBug(c) == c                       \* every escaped char stands for itself

Unescaped(c) ==
  IF \E e \in DOMAIN Named : Named[e][1] = c
  THEN Named[CHOOSE e \in DOMAIN Named : Named[e][1] = c][2] ELSE c

cstr_decode_buf(reads, k) ==
  LET from[i \in 1 .. Len(reads[k]) + 2] ==
        IF i > Len(reads[k]) THEN <<>>
        ELSE IF reads[k][i] = Escape THEN <<Unescaped(Behind(reads, k, i + 1))>> \o from[i + 2]
        ELSE <<reads[k][i]>> \o from[i + 1]
  IN  from[1]
cstr_decode(reads) == FlattenSeq([k \in DOMAIN reads |-> cstr_decode_buf(reads, k)])

-----------------------------------------------------------------------------
(* "0xHH" for the first byte of a read, ", 0xHH" for the others. *)
Token(b) == <<48, 120>> \o Hex!HexByte(b, FALSE)
cbytes_encode(reads) ==
  FlattenSeq([k \in DOMAIN reads |->
    FlattenSeq([i \in DOMAIN reads[k] |->
      (IF i > 1 THEN <<44, 32>> ELSE <<>>) \o Token(reads[k][i])])])

TokenAt(reads, k, p) == Behind(reads, k, p) = 48 /\ Behind(reads, k, p + 1) = 120

(* i counts to the end of the read, p is where the decoder looks: a token     *)
(* takes four chars and counts for five.  out ends with Nobodys if a char that *)
(* is no digit ended the decoding.                                            *)
Advance(i) == i + 5
cbytes_decode_buf(reads, k) ==
  LET n == Len(reads[k])
      value(p) == 16 * Hex!hexchar2int(Behind(reads, k, p + 2)) + Hex!hexchar2int(Behind(reads, k, p + 3))
      digits(p) == \A d \in {2, 3} : Hex!cc_is_hex_char(Behind(reads, k, p + d))
      from[i \in 1 .. n + 5, p \in 1 .. n + 5] ==
        IF i > n THEN <<>>
        ELSE IF ~TokenAt(reads, k, p) THEN from[i + 1, p + 1]
        ELSE IF ~digits(p) THEN <<Nobodys>>
        ELSE <<value(p)>> \o from[Advance(i), p + 4]
  IN  from[1, 1]

cbytes_decode(reads) ==
  FoldLeft(LAMBDA out, k : IF out # <<>> /\ Last(out) = Nobodys THEN out
                           ELSE out \o cbytes_decode_buf(reads, k),
           <<>>, [k \in DOMAIN reads |-> k])
=============================================================================
