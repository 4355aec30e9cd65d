----------------------------- MODULE SizeParse ------------------------------
(***************************************************************************)
(* src/utils/converter.c: the text of a size, "16", "0x10" or "1k", as a   *)
(* long.  A long has LongMax as its largest value; a suffix is multiplied in   *)
(* without a look at whether the product fits, and wraps.                  *)
(***************************************************************************)
EXTENDS Integers, Sequences, SequencesExt

LOCAL Hex == INSTANCE HexCodec

CONSTANTS LongMax, KiloBytes

Blank == {32, 9, 10, 11, 12, 13}
Minus == 45
SuffixChars == <<{107, 75}, {109, 77}, {103, 71}>>      \* kK mM gG
ByteChar == {98, 66}

Refused == [ok |-> FALSE, value |-> 0]

Wrapped(n) == ((n + LongMax + 1) % (2 * (LongMax + 1))) - (LongMax + 1)
At(s, i)   == IF i \in DOMAIN s THEN s[i] ELSE 0

IsDigit(c, base) == Hex!cc_is_hex_char(c) /\ Hex!hexchar2int(c) < base

(* The first position from i on whose char is not in a run. *)
After(s, i, InRun(_)) ==
  CHOOSE j \in i .. Len(s) + 1 : ~(j <= Len(s) /\ InRun(s[j])) /\ \A k \in i .. j - 1 : InRun(s[k])

AfterSign(s, i)  == IF At(s, i) \in {Minus, 43} THEN i + 1 ELSE i
AfterX(s, i, base) ==
  IF base = 16 /\ At(s, i) = 48 /\ At(s, i + 1) = 120 /\ IsDigit(At(s, i + 2), 16) THEN i + 2 ELSE i
Number(digits, base) ==          \* at most one too large
  FoldLeft(LAMBDA v, c : LET n == base * v + Hex!hexchar2int(c) IN IF n > LongMax + 1 THEN LongMax + 1 ELSE n,
           0, digits)
Signed(minus, n) == IF minus THEN 0 - n ELSE IF n > LongMax THEN LongMax ELSE n

(* strtol from position i on: blanks, a sign, an "0x" before hex digits; a   *)
(* number too large becomes the largest.  end = i: there was none.           *)
strtol(s, i, base) ==
  LET b == After(s, i, LAMBDA c : c \in Blank)
      d == AfterX(s, AfterSign(s, b), base)
      e == After(s, d, LAMBDA c : IsDigit(c, base))
  IN  IF e = d THEN [end |-> i, value |-> 0]
      ELSE [end |-> e, value |-> Signed(At(s, b) = Minus, Number(SubSeq(s, d, e - 1), base))]

(* Definitions named ...Bug are mistakes this code could easily have had; each *)
(* stands before the definition it would spoil.                               *)
FactorBug(c) ==            \* "mb" is taken for megabits
  CASE c \in SuffixChars[1] -> KiloBytes [] c \in SuffixChars[2] -> KiloBytes [] c \in SuffixChars[3] -> KiloBytes ^ 3
    [] OTHER -> 1
Factor(c) ==
  CASE c \in SuffixChars[1] -> KiloBytes [] c \in SuffixChars[2] -> KiloBytes ^ 2 [] c \in SuffixChars[3] -> KiloBytes ^ 3
    [] OTHER -> 1

AfterSuffix(s, i) == IF Factor(At(s, i)) > 1 THEN i + 1 ELSE i
AfterB(s, i)      == IF At(s, i) \in ByteChar THEN i + 1 ELSE i

(* With CONV_SIZE: hex prefix, suffix, no negative numbers. *)
string_to_long(s) ==
  LET hex == At(s, 1) = 48 /\ At(s, 2) = 120
      i   == IF hex THEN 3 ELSE 1
      r   == strtol(s, i, IF hex THEN 16 ELSE 10)
  IN  IF r.end = i \/ r.value < 0 \/ AfterB(s, AfterSuffix(s, r.end)) <= Len(s) THEN Refused
      ELSE [ok |-> TRUE, value |-> Wrapped(r.value * Factor(At(s, r.end)))]
=============================================================================
