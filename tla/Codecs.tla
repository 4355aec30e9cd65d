------------------------------- MODULE Codecs -------------------------------
(***************************************************************************)
(* The hex and base64 codecs against reference definitions, on a string    *)
(* that grows character by character: as bytes to encode, and as text to   *)
(* decode.                                                                 *)
(***************************************************************************)
EXTENDS Integers, Sequences, SequencesExt, FiniteSetsExt

CONSTANTS
  Trials,     \* what a string is tried as, the characters (0..255) it is made
              \* of, and bound: how long it gets
  LineLens,   \* line lengths to encode with
  DumpWidth   \* how many bytes a dumped line has: 16

ASSUME TrialAssumption ==
  \A t \in Trials : t.chars \subseteq 0 .. 255 /\ t.max \in Nat
ASSUME LineAssumption == LineLens \subseteq Nat /\ DumpWidth \in Nat \ {0}

Hex == INSTANCE HexCodec
B64 == INSTANCE Base64Codec

LF == 10

VARIABLES trial, str

vars == <<trial, str>>

Init == trial \in Trials /\ str = <<>>
Type(c) == Len(str) < trial.max /\ str' = Append(str, c) /\ UNCHANGED trial
Next == \E c \in trial.chars : Type(c)
Spec == Init /\ [][Next]_vars

(* There is a string, and it is tried as one of these kinds. *)
TriedAs(kinds) == str # <<>> /\ trial.kind \in kinds

-----------------------------------------------------------------------------
(* References. *)

Without(s, C) == FlattenSeq([i \in DOMAIN s |-> IF s[i] \in C THEN <<>> ELSE <<s[i]>>])

DigitValue(c) == CHOOSE n \in 0 .. 15 : c \in {Hex!HexDigit(n, TRUE), Hex!HexDigit(n, FALSE)}

(* A text of hex digits is the bytes of its pairs of digits. *)
Pairs(s) == [i \in 1 .. Len(s) \div 2 |-> 16 * DigitValue(s[2 * i - 1]) + DigitValue(s[2 * i])]

(* The bytes of a base64 text: six bits per letter, whole bytes only. *)
Power == <<2, 4, 8, 16, 32>>
Bit(v, k)  == IF k = 0 THEN v % 2 ELSE (v \div Power[k]) % 2
Octet(b)   == 2 * (2 * (2 * (2 * (2 * (2 * (2 * b[1] + b[2]) + b[3]) + b[4]) + b[5]) + b[6]) + b[7]) + b[8]
LetterValue(c, url) == CHOOSE v \in 0 .. 63 : B64!Letter(v, url) = c
Bits(s, url) == [k \in 1 .. 6 * Len(s) |->
  Bit(LetterValue(s[(k + 5) \div 6], url), 5 - ((k - 1) % 6))]
BytesOf(bits) == [n \in 1 .. Len(bits) \div 8 |-> Octet([k \in 1 .. 8 |-> bits[8 * (n - 1) + k]])]
Base64Meaning(s, url) == BytesOf(Bits(Without(s, {LF, 61}), url))

(* The lengths of the lines of a text; what follows the last newline counts. *)
LineLengths(s) ==
  LET ends == {0, Len(s) + 1} \cup {i \in DOMAIN s : s[i] = LF}
  IN  {Min({e \in ends : e > b}) - b - 1 : b \in ends \ {Len(s) + 1}}

(* The lines of a text, each ended by its newline. *)
LineStep(l, c) ==
  IF c = LF THEN [ended |-> Append(l.ended, l.open), open |-> <<>>]
  ELSE [l EXCEPT !.open = Append(@, c)]
NoLine == [ended |-> <<>>, open |-> <<>>]
LineLoop(s) ==
  LET after[n \in 0 .. Len(s)] == IF n = 0 THEN NoLine ELSE LineStep(after[n - 1], s[n])
  IN  after
Lines(s) == LineLoop(s)[Len(s)].ended

(* The columns of a dump: hex, then text. *)
HexColumn(line)  == SubSeq(line, 4, 3 * DumpWidth + 4)
TextColumn(line) == SubSeq(line, 3 * DumpWidth + 6, Len(line))

-----------------------------------------------------------------------------
(* Hex text written with any line length and case decodes to the bytes it    *)
(* was made from, with either flag; only an odd line length has no encoding.  *)
(* So do the hex columns of a dump, which stand in the same place in each     *)
(* line, and beside them there is a char for each byte.                       *)
HexRoundTrip ==
  TriedAs({"hex", "bytes"}) =>
    /\ \A len \in LineLens, up, ignore \in BOOLEAN :
         LET text == Hex!cc_hex_encode(str, len, up)
         IN  IF len % 2 # 0 THEN text = Hex!Failed
             ELSE Hex!cc_hex_decode(text, ignore) = str
    /\ LET lines == Lines(Hex!cc_hexdump_encode(str, DumpWidth))
           hex   == FlattenSeq([k \in DOMAIN lines |-> HexColumn(lines[k])])
           text  == FlattenSeq([k \in DOMAIN lines |-> TextColumn(lines[k])])
       IN  /\ Hex!cc_hex_decode(hex, TRUE) = str
           /\ text = [i \in DOMAIN str |-> Hex!Printable(str[i])]

(* Characters that are not hex digits may stand anywhere, between the two     *)
(* digits of a byte too; the result is the bytes of the digits, or nothing if *)
(* their number is odd.                                                       *)
HexIgnoring ==
  LET digits == Without(str, {c \in 0 .. 255 : ~Hex!cc_is_hex_char(c)})
  IN  TriedAs({"hex"}) =>
        Hex!cc_hex_decode(str, TRUE) = IF Len(digits) % 2 # 0 THEN Hex!Failed ELSE Pairs(digits)

(* Hex text means its pairs of digits: whatever was written reads back, and   *)
(* what stands between the digits makes no difference when it is ignored.     *)
HexMeant == HexRoundTrip /\ HexIgnoring

(* Encodings keep to the line length, and to the buffer that was allocated   *)
(* before the first character was written, terminator included, without ever *)
(* needing its 80 spare bytes.                                                *)
LinesFit ==
  TriedAs({"hex", "bytes"}) => \A len \in LineLens :
    LET h    == Hex!cc_hex_encode(str, len, FALSE)
        b    == B64!cc_base64_encode(str, len, FALSE)
        size == ((Len(str) + 2) \div 3) * 4
        Need(n) == IF len > 0 THEN n + 1 + (n \div len) + 1 ELSE n + 1
    IN  /\ len % 2 = 0 => /\ Len(h) + 1 <= Need(2 * Len(str))
                          /\ len > 0 => \A n \in LineLengths(h) : n <= len
        /\ len % 4 = 0 => /\ Len(b) + 1 <= Need(size)
                          /\ len > 0 => \A n \in LineLengths(b) : n <= len

(* Base64 text in either alphabet, broken into lines or not, is four letters *)
(* for three bytes, padded at the end only, and stands for the bytes it was  *)
(* made from.                                                                *)
Base64Meant ==
  TriedAs({"hex", "bytes"}) => \A len \in LineLens, url \in BOOLEAN :
    LET text == B64!cc_base64_encode(str, len, url)
        flat == Without(text, {LF})
    IN  IF len % 4 # 0 THEN text = <<-1>>
        ELSE /\ Base64Meaning(text, url) = str
             /\ Len(flat) % 4 = 0
             /\ \A i \in DOMAIN flat : flat[i] = 61 => i > Len(flat) - 2

-----------------------------------------------------------------------------
(* Statements of the repository about the codecs. *)

(* hex.c refuses "invalid hex char" when it does not ignore them. *)
InvalidCharRefused ==
  (trial.kind = "hex" /\ \E i \in DOMAIN str : str[i] \notin Hex!Space /\ ~Hex!cc_is_hex_char(str[i])) =>
    Hex!cc_hex_decode(str, FALSE) = Hex!Failed
=============================================================================
