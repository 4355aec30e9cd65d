----------------------------- MODULE Asn1Parse ------------------------------
(***************************************************************************)
(* src/cc/asn1.c: headers of BER elements and the walk over them.  mem is  *)
(* the memory the input lies in, the input is the len bytes from at on;    *)
(* behind mem there are zeros.  A tag number keeps its last four groups of *)
(* seven bits; the inputs are too short to fill the 64 bits of a length.   *)
(***************************************************************************)
EXTENDS Integers, Sequences, SequencesExt

LOCAL Hex == INSTANCE HexCodec

Byte(mem, i) == IF i \in DOMAIN mem THEN mem[i] ELSE 0

(* Definitions named ...Bug are mistakes this code could easily have had; each *)
(* stands before the definition it would spoil.                               *)
NextByteBug(mem, p) ==           \* fails one byte too late
  IF ~p.ok \/ p.left < 0 THEN [p EXCEPT !.ok = FALSE]
  ELSE [ok |-> TRUE, at |-> p.at + 1, left |-> p.left - 1, c |-> Byte(mem, p.at + 1)]

(* NEXT_BYTE: the byte that is read may be the one behind the input. *)
NextByte(mem, p) ==
  IF ~p.ok \/ p.left = 0 THEN [p EXCEPT !.ok = FALSE]
  ELSE [ok |-> TRUE, at |-> p.at + 1, left |-> p.left - 1, c |-> Byte(mem, p.at + 1)]

(* A tag number of more than one byte, up to a byte without the high bit. *)
RECURSIVE LongTag(_, _, _)
LongTag(mem, p, n) ==
  LET q == NextByte(mem, p)
      v == 128 * (n % 2 ^ 21) + (q.c % 128)
  IN  IF q.ok /\ q.c >= 128 THEN LongTag(mem, q, v) ELSE [p |-> q, n |-> v]

(* A length of count bytes, the first of which has been read. *)
RECURSIVE LongLength(_, _, _, _)
LongLength(mem, p, count, n) ==
  IF count = 0 \/ ~p.ok THEN [p |-> p, n |-> n]
  ELSE LongLength(mem, NextByte(mem, p), count - 1, 256 * n + p.c)

NoInfo == [ok |-> FALSE]

cc_asn1_parse_1(mem, at, len) ==
  LET c     == Byte(mem, at)
      start == [ok |-> TRUE, at |-> at, left |-> len, c |-> c]
      tag   == IF c % 32 = 31 THEN LongTag(mem, start, 0) ELSE [p |-> start, n |-> c % 32]
      q     == NextByte(mem, tag.p)
      first == NextByte(mem, q)
      size  == IF q.c >= 128 THEN LongLength(mem, first, q.c % 128, 0) ELSE [p |-> first, n |-> q.c]
  IN  IF len = 0 \/ ~size.p.ok THEN NoInfo
      ELSE [ok |-> TRUE, constructed |-> (c \div 32) % 2 = 1, number |-> tag.n,
            length |-> size.n, tag |-> at, data |-> size.p.at]

(* The walk: every child of a constructed value is parsed from the place the *)
(* first one is at, until their sizes make up the length.                     *)
RECURSIVE parse_cb_r(_, _, _, _), Children(_, _, _, _)
parse_cb_r(mem, at, len, level) ==
  LET info == cc_asn1_parse_1(mem, at, len)
      kids == IF info.constructed THEN Children(mem, info, info.length, level + 1)
              ELSE [ok |-> TRUE, seen |-> <<>>]
  IN  IF ~info.ok THEN [ok |-> FALSE, seen |-> <<>>, size |-> 0]
      ELSE [ok |-> kids.ok, seen |-> <<[level |-> level, info |-> info]>> \o kids.seen,
            size |-> info.data - info.tag + info.length]
Children(mem, parent, left, level) ==
  LET child == parse_cb_r(mem, parent.data, parent.length, level)
      rest  == Children(mem, parent, left - child.size, level)
  IN  IF left <= 0 THEN [ok |-> TRUE, seen |-> <<>>]
      ELSE IF ~child.ok THEN [ok |-> FALSE, seen |-> child.seen]
      ELSE [rest EXCEPT !.seen = child.seen \o @]

cc_asn1_parse_cb(mem, len) ==
  IF len = 0 THEN [ok |-> FALSE, seen |-> <<>>, size |-> 0] ELSE parse_cb_r(mem, 1, len, 0)
cc_is_asn1(mem, len) == cc_asn1_parse_cb(mem, len).ok

(* What is printed of an element goes by its number alone, whatever its class: *)
(* its name, the bytes of these, and a newline after two of them.              *)
TagName(n) ==
  CASE n = 1 -> "BOOLEAN" [] n = 2 -> "INTEGER" [] n = 3 -> "BIT_STRING" [] n = 4 -> "OCTET_STRING"
    [] n = 5 -> "NULL" [] n = 6 -> "OBJECT_IDENTIFIER" [] n = 7 -> "ObjectDescriptor"
    [] n = 8 -> "EXTERNAL" [] n = 9 -> "REAL" [] n = 10 -> "ENUMERATED" [] n = 16 -> "SEQUENCE"
    [] OTHER -> ""
print_cb(mem, level, info) ==
  [indent  |-> 2 * level,
   name    |-> TagName(info.number),
   bytes   |-> IF info.number = 1 THEN <<IF Byte(mem, info.data) # 0 THEN 1 ELSE 0>>
               ELSE IF info.number \in (2 .. 10) \ {5}
               THEN [i \in 1 .. info.length |-> Byte(mem, info.data + i - 1)] ELSE <<>>,
   newline |-> info.number \in {2, 16}]
cc_asn1_print(mem, len) ==
  LET seen == cc_asn1_parse_cb(mem, len).seen
  IN  [k \in DOMAIN seen |-> print_cb(mem, seen[k].level, seen[k].info)]

-----------------------------------------------------------------------------
(* src/utils/string.c: printable chars, and the leading bytes of UTF-8's      *)
(* longer ones with as many bytes 10xxxxxx behind them.                       *)
is_ascii_char(c) == c \in 32 .. 126 \cup {9, 10, 13}
Followers(c) == CASE c \in 192 .. 223 -> 1 [] c \in 224 .. 239 -> 2 [] c \in 240 .. 247 -> 3
RECURSIVE is_utf8_string(_)
is_utf8_string(s) ==
  LET n == IF is_ascii_char(s[1]) THEN 0 ELSE Followers(s[1])
  IN  \/ s = <<>>
      \/ /\ is_ascii_char(s[1]) \/ s[1] \in 192 .. 247
         /\ n < Len(s) /\ \A i \in 2 .. n + 1 : s[i] \in 128 .. 191
         /\ is_utf8_string(SubSeq(s, n + 2, Len(s)))
BOM == <<239, 187, 191>>
IsText(s) == is_utf8_string(IF IsPrefix(BOM, s) THEN SubSeq(s, 4, Len(s)) ELSE s)

(* asn1: text is searched for PEM blocks, of which none is ever found, and    *)
(* then decoded as hex; anything else is an element as it is.                 *)
sc_asn1(s) ==
  LET bytes == IF IsText(s) THEN Hex!cc_hex_decode(s, FALSE) ELSE s
  IN  IF bytes = Hex!Failed THEN [ret |-> "FAIL", printed |-> <<>>]
      ELSE [ret |-> "OK", printed |-> cc_asn1_print(bytes, Len(bytes))]
=============================================================================
