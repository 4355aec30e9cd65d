---------------------------- MODULE Base64Codec -----------------------------
(***************************************************************************)
(* src/cc/format/base64.c: the encoder.  (cc_base64_decode is a stub.)     *)
(***************************************************************************)
EXTENDS Integers, Sequences, SequencesExt

Newline == 10
Failed  == <<-1>>

(* BASE64ENCSTR_STD and BASE64ENCSTR_URL. *)
Letter(v, url) ==
  CASE v < 26 -> 65 + v
    [] v \in 26 .. 51 -> 71 + v
    [] v \in 52 .. 61 -> v - 4
    [] v = 62 -> IF url THEN 45 ELSE 43
    [] v = 63 -> IF url THEN 95 ELSE 47

GroupBug(g, url) ==       \* no '=' for the missing bytes
  LET byte(i) == IF i <= Len(g) THEN g[i] ELSE 0
      v       == (byte(1) * 256 + byte(2)) * 256 + byte(3)
      sextet  == <<v \div 262144, (v \div 4096) % 64, (v \div 64) % 64, v % 64>>
  IN  [i \in 1 .. 4 |-> Letter(sextet[i], url)]

(* One, two or three bytes become four characters. *)
Group(g, url) ==
  LET byte(i) == IF i <= Len(g) THEN g[i] ELSE 0
      v       == (byte(1) * 256 + byte(2)) * 256 + byte(3)
      sextet  == <<v \div 262144, (v \div 4096) % 64, (v \div 64) % 64, v % 64>>
  IN  [i \in 1 .. 4 |-> IF i <= Len(g) + 1 THEN Letter(sextet[i], url) ELSE 61]

(* Only full groups count towards a line; a group of one or two bytes at the *)
(* end is followed by a newline only if full groups stand before it in its   *)
(* line.                                                                     *)
cc_base64_encode(bytes, lineLen, url) ==
  LET full    == Len(bytes) \div 3
      rest    == SubSeq(bytes, 3 * full + 1, Len(bytes))
      perLine == lineLen \div 4
      Break(g) == IF lineLen > 0 /\ g % perLine = 0 THEN <<Newline>> ELSE <<>>
      lines   == FlattenSeq([g \in 1 .. full |->
                   Group(SubSeq(bytes, 3 * g - 2, 3 * g), url) \o Break(g)])
      tail    == IF rest = <<>> THEN <<>> ELSE Group(rest, url)
  IN  IF bytes = <<>> \/ lineLen % 4 # 0 THEN Failed
      ELSE lines \o tail \o
           IF lineLen > 0 /\ full % perLine # 0 THEN <<Newline>> ELSE <<>>
=============================================================================
