------------------------------ MODULE HexCodec ------------------------------
(***************************************************************************)
(* src/cc/format/hex.c: text with two hex digits per byte, optionally      *)
(* broken into lines, and the decoder, which is a left-to-right automaton  *)
(* over the characters.  Characters and bytes are numbers 0..255.          *)
(***************************************************************************)
EXTENDS Integers, Sequences, SequencesExt

Newline == 10
Space   == {32, 10, 9, 13}                         \* is_space_char
Failed  == <<-1>>                                  \* a NULL result

cc_is_hex_char(c) == c \in 48 .. 57 \cup 65 .. 70 \cup 97 .. 102

HexDigit(n, upper) == IF n < 10 THEN 48 + n ELSE IF upper THEN 55 + n ELSE 87 + n
HexByte(b, upper)  == <<HexDigit(b \div 16, upper), HexDigit(b % 16, upper)>>

(* Definitions named ...Bug are mistakes this code could easily have had; each *)
(* stands before the definition it would spoil.                               *)
LineEndsBug(i, n, lineLen) == lineLen > 0 /\ (2 * i % (lineLen + 2) = 0 \/ i = n)

(* A line ends when it holds lineLen characters, and the last one always. *)
LineEnds(i, n, lineLen) == lineLen > 0 /\ (2 * i % lineLen = 0 \/ i = n)

(* An odd line length and an empty input have no encoding. *)
cc_hex_encode(bytes, lineLen, upper) ==
  IF bytes = <<>> \/ lineLen % 2 # 0 THEN Failed
  ELSE FlattenSeq([i \in DOMAIN bytes |->
         HexByte(bytes[i], upper) \o
           IF LineEnds(i, Len(bytes), lineLen) THEN <<Newline>> ELSE <<>>])

(* The -1 of a character that is no digit is stored in a uint8_t. *)
hexchar2int(c) ==
  CASE c \in 48 .. 57  -> c - 48
    [] c \in 97 .. 102 -> c - 97 + 10
    [] c \in 65 .. 70  -> c - 65 + 10
    [] OTHER           -> -1
Digit(c) == hexchar2int(c) % 256

DecodeStepBug(st, c, ignoreNonHex) ==      \* forgets a digit before a separator
  IF c \in Space \/ (ignoreNonHex /\ ~cc_is_hex_char(c)) THEN [st EXCEPT !.part = FALSE]
  ELSE IF st.part THEN [st EXCEPT !.out = Append(@, 16 * st.b + Digit(c)), !.part = FALSE]
  ELSE [st EXCEPT !.b = Digit(c), !.part = TRUE]

(* One turn of the decoder's loop: b is the high digit while part holds, *)
(* and t < 0 never holds of an unsigned t.                                *)
DecodeStep(st, c, ignoreNonHex) ==
  LET t == Digit(c)
      b == IF t > 15 THEN t ELSE ((st.b * 16) % 256) + t      \* (b << 4) | t
  IN  IF c \in Space \/ (ignoreNonHex /\ ~cc_is_hex_char(c)) THEN st
      ELSE IF t < 0 THEN [st EXCEPT !.failed = TRUE]
      ELSE IF st.part THEN [st EXCEPT !.out = Append(@, b), !.b = 0, !.part = FALSE]
      ELSE [st EXCEPT !.b = t, !.part = TRUE]

DecodeStart == [out |-> <<>>, b |-> 0, part |-> FALSE, failed |-> FALSE]

(* Where the loop is after each number of characters. *)
DecodeLoop(text, ignoreNonHex) ==
  LET after[n \in 0 .. Len(text)] ==
        IF n = 0 THEN DecodeStart ELSE DecodeStep(after[n - 1], text[n], ignoreNonHex)
  IN  after

(* An odd number of digits fails at the end. *)
cc_hex_decode(text, ignoreNonHex) ==
  LET st == DecodeLoop(text, ignoreNonHex)[Len(text)]
  IN  IF text = <<>> \/ st.failed \/ st.part THEN Failed ELSE st.out

(* The callers that need a number of bytes, and those that have room for one. *)
cc_hex_dec_expect_len(text, expectlen) ==
  LET out == cc_hex_decode(text, FALSE)
  IN  IF out = Failed \/ Len(out) # expectlen THEN Failed ELSE out
cc_hex_dec_max_len(text, maxlen) ==
  LET out == cc_hex_decode(text, FALSE)
  IN  IF out = Failed \/ Len(out) > maxlen THEN Failed ELSE out
(* A dump: the offset, which is one char here, the bytes of a line in hex with *)
(* a gap in the middle, blanks for those the last line lacks, and the          *)
(* printable ones.  Lines of perLine bytes: 16, the gap after 8.               *)
Offset(line) == 256 + line
Printable(b) == IF b > 31 /\ b < 127 THEN b ELSE 46
DumpLine(p, line, perLine) ==
  LET count == IF Len(p) - line > perLine THEN perLine ELSE Len(p) - line
      Cell(i) == (IF i = perLine \div 2 THEN <<32>> ELSE <<>>) \o
                 (IF i < count THEN HexByte(p[line + i + 1], FALSE) ELSE <<32, 32>>) \o <<32>>
  IN  <<Offset(line), 58, 32>> \o FlattenSeq([i \in 1 .. perLine |-> Cell(i - 1)]) \o <<32>> \o
      [i \in 1 .. count |-> Printable(p[line + i])] \o <<Newline>>
cc_hexdump_encode(p, perLine) ==
  FlattenSeq([k \in 1 .. (Len(p) + perLine - 1) \div perLine |-> DumpLine(p, (k - 1) * perLine, perLine)])
=============================================================================
