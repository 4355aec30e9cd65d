------------------------------ MODULE PemScan -------------------------------
(***************************************************************************)
(* src/cc/format/decoder.c: the search for "-----BEGIN label-----" and     *)
(* "-----END label-----" in a text, and the text XIO_write_pem prints.  A  *)
(* position is an index into the text; NULL is 0.                          *)
(***************************************************************************)
EXTENDS Integers, Sequences, SequencesExt

CONSTANTS MarkerDashes                    \* how many dashes a marker has: 5

Dash == 45
LineBreak == {10, 13}
Row(n)    == [i \in 1 .. n |-> Dash]
PemBegin  == Append(Row(MarkerDashes), 66)      \* "BEGIN " and "END " count as one char each
PemEnd    == Append(Row(MarkerDashes), 69)
NoPos     == 0

(* strstr. *)
IsAt(s, i, sub) == i + Len(sub) - 1 <= Len(s) /\ SubSeq(s, i, i + Len(sub) - 1) = sub
strstr(s, from, sub) ==
  IF \E i \in from .. Len(s) : IsAt(s, i, sub)
  THEN CHOOSE i \in from .. Len(s) : IsAt(s, i, sub) /\ \A j \in from .. i - 1 : ~IsAt(s, j, sub)
  ELSE NoPos

(* The label ends at a dash; a line break or the end of the text is in the way. *)
skip_to_pem_label_end(s, from) ==
  LET stop == {i \in from .. Len(s) : s[i] = Dash \/ s[i] \in LineBreak}
      p    == CHOOSE i \in stop : \A j \in stop : i <= j
  IN  IF stop # {} /\ s[p] = Dash THEN p ELSE NoPos

(* Definitions named ...Bug are mistakes this code could easily have had; each *)
(* stands before the definition it would spoil.                               *)
DashTailBug(s, from) ==          \* the tail is not passed over
  IF IsAt(s, from, Row(MarkerDashes)) THEN from ELSE NoPos

(* The line breaks behind the dashes are to be skipped, but no char is both  *)
(* of them.                                                                   *)
skip_pem_dash_tail(s, from) ==
  IF IsAt(s, from, Row(MarkerDashes)) THEN from + MarkerDashes ELSE NoPos

(* One marker with its label: where it goes on, and whether it is complete. *)
Marker(s, from, mark) ==
  LET p2 == from + Len(mark)
      p3 == skip_to_pem_label_end(s, p2)
      p4 == skip_pem_dash_tail(s, p3)
  IN  IF p3 = NoPos THEN [next |-> p2, whole |-> FALSE]
      ELSE IF p4 = NoPos THEN [next |-> p3, whole |-> FALSE]
      ELSE [next |-> p4, whole |-> TRUE]

find_pem_1(s, from) ==
  LET p1 == strstr(s, from, PemBegin)
      b  == Marker(s, p1, PemBegin)
      p5 == strstr(s, b.next, PemEnd)
  IN  IF p1 = NoPos THEN NoPos
      ELSE IF ~b.whole \/ p5 = NoPos THEN b.next
      ELSE Marker(s, p5, PemEnd).next

(* cc_pem_find: from one position to the next until there is none, which is  *)
(* what it then reports, and cc_pem_find_all with it: nothing found.  At most *)
(* one position per char is kept here.                                        *)
Positions(s) ==
  FoldLeft(LAMBDA ps, n : IF Last(ps) = NoPos THEN ps ELSE Append(ps, find_pem_1(s, Last(ps))),
           <<1>>, [n \in 1 .. Len(s) + 1 |-> n])
cc_pem_find(s) == Last(Positions(s)) # NoPos

(* XIO_write_pem of bytes whose base64 text is given. *)
XIO_write_pem(label, base64) ==
  PemBegin \o label \o Row(MarkerDashes) \o <<10>> \o base64 \o PemEnd \o label \o Row(MarkerDashes) \o <<10>>
=============================================================================
