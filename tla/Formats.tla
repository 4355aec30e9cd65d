------------------------------ MODULE Formats -------------------------------
(***************************************************************************)
(* The other text formats, on the strings of Codecs: C literals and        *)
(* initialisers, sizes, PEM blocks, BER elements.                          *)
(***************************************************************************)
EXTENDS Codecs

CONSTANTS
  LongMax, KiloBytes,    \* the largest long, and what "k" stands for: 1024
  MarkerDashes           \* how many dashes a PEM marker has: 5

ASSUME LongAssumption   == LongMax \in Nat \ {0} /\ KiloBytes \in Nat \ {0}
ASSUME MarkerAssumption == MarkerDashes \in Nat \ {0}

C    == INSTANCE CFormats
Size == INSTANCE SizeParse
Pem  == INSTANCE PemScan
Asn1 == INSTANCE Asn1Parse

-----------------------------------------------------------------------------
(* References. *)

(* Where an encoded text may be cut so that no escape is: behind its chars. *)
CutsOf(s) == {Len(C!cstr_encode(SubSeq(s, 1, n))) : n \in 0 .. Len(s)}

(* A size is decimal digits, or hex ones after "0x", then a suffix; as many *)
(* chars as can be are digits.                                               *)
IsRun(s, base)  == s # <<>> /\ \A i \in DOMAIN s : Size!IsDigit(s[i], base)
NumberOf(s, base) == FoldLeft(LAMBDA v, c : base * v + DigitValue(c), 0, s)
Tails == [n \in 0 .. 3 |-> {e \o b : e \in (IF n = 0 THEN {<<>>} ELSE {<<c>> : c \in Size!SuffixChars[n]}),
                                     b \in {<<>>, <<98>>, <<66>>}}]
Lead(base) == IF base = 16 THEN <<48, 120>> ELSE <<>>
Reading(s, base, power, k) ==      \* the digits end with the k-th char
  LET digits == SubSeq(s, Len(Lead(base)) + 1, k)
      tail   == SubSeq(s, k + 1, Len(s))
  IN  /\ IsPrefix(Lead(base), s)
      /\ IsRun(digits, base)
      /\ tail \in Tails[power]
      /\ ~(tail # <<>> /\ Size!IsDigit(tail[1], base))
SizesOf(s) ==
  {[number |-> NumberOf(SubSeq(s, Len(Lead(r[1])) + 1, r[3]), r[1]), unit |-> KiloBytes ^ r[2]] :
     r \in {q \in {10, 16} \X (0 .. 3) \X (1 .. Len(s)) : Reading(s, q[1], q[2], q[3])}}

(* BER: a tag, a length, as many bytes; constructed ones hold elements. *)
IsTag(t) ==
  IF t[1] % 32 = 31
  THEN Len(t) > 1 /\ Last(t) < 128 /\ \A i \in 2 .. Len(t) - 1 : t[i] >= 128
  ELSE Len(t) = 1
IsLength(b, n) ==
  \/ b = <<n>> /\ n < 128
  \/ Len(b) > 1 /\ b[1] = 127 + Len(b) /\ n = FoldLeft(LAMBDA v, d : 256 * v + d, 0, Tail(b))
Header(s, t, h) == IsTag(SubSeq(s, 1, t)) /\ IsLength(SubSeq(s, t + 1, h), Len(s) - h)
HeaderLengths(s) == {h \in 2 .. Len(s) : \E t \in 1 .. h - 1 : Header(s, t, h)}
Constructed(s) == (s[1] \div 32) % 2 = 1

RECURSIVE IsElement(_), AreElements(_)
IsElement(s) ==
  \E h \in HeaderLengths(s) : Constructed(s) => AreElements(SubSeq(s, h + 1, Len(s)))
AreElements(s) ==
  s = <<>> \/ \E n \in 2 .. Len(s) : IsElement(SubSeq(s, 1, n)) /\ AreElements(SubSeq(s, n + 1, Len(s)))

ContentsOf(s) == SubSeq(s, (CHOOSE h \in HeaderLengths(s) : TRUE) + 1, Len(s))
FirstOf(s)    == SubSeq(s, 1, CHOOSE n \in 2 .. Len(s) : IsElement(SubSeq(s, 1, n)))

(* The lines of an element made of sequences and integers; of others none.    *)
(* A sequence lists its first element only, and as often as it takes for its  *)
(* length to make up the sequence's: each element, if all are alike.          *)
RECURSIVE Listing(_, _)
Listing(s, level) ==
  LET c     == ContentsOf(s)
      first == FirstOf(c)
      below == Listing(first, level + 1)
      times == (Len(c) + Len(first) - 1) \div Len(first)
      Line(name, bytes) == [indent |-> 2 * level, name |-> name, bytes |-> bytes, newline |-> TRUE]
  IN  CASE s[1] = 2 -> <<Line("INTEGER", c)>>
        [] s[1] = 48 /\ c = <<>> -> <<Line("SEQUENCE", <<>>)>>
        [] s[1] = 48 /\ c # <<>> /\ below # <<>> ->
             <<Line("SEQUENCE", <<>>)>> \o FlattenSeq([k \in 1 .. times |-> below])
        [] OTHER -> <<>>

-----------------------------------------------------------------------------
(* A C literal has no newline or quote of the text's own, and it stands for  *)
(* the text if no read ends between an escape and its letter; if one does, a  *)
(* byte from behind the buffer gets into the text.                            *)
CStringMeant ==
  LET text == C!cstr_encode(str)
      Bare(i) == Cardinality({j \in 1 .. i - 1 : \A k \in j .. i - 1 : text[k] = C!Escape}) % 2 = 0
  IN  TriedAs({"c"}) =>
        /\ \A i \in DOMAIN text : text[i] \notin {10, 13, 9} /\ (text[i] = 34 => ~Bare(i))
        /\ \A size \in 1 .. Len(text) :
             LET back == C!cstr_decode(C!Reads(text, size))
                 cut  == \E k \in 1 .. Len(text) : k % size = 0 /\ k \notin CutsOf(str)
             IN  IF cut THEN \E i \in DOMAIN back : back[i] = C!Nobodys ELSE back = str

(* What a C initialiser is read back as, exactly.  The decoder counts five    *)
(* chars for a token of four, so in each read it stops a char early for every *)
(* token before: of a text in one read about six bytes in seven come back.    *)
(* In reads of any size those come back that are counted within their read,   *)
(* if no token is cut; the whole does only if none is cut or left out.  But    *)
(* a last digit alone in its read, if it is 0, is taken for the beginning of   *)
(* what the buffer still has, so the first byte comes back for the last.  And  *)
(* what is written in several reads has no comma where two meet.              *)
CBytesMeant ==
  LET text  == C!cbytes_encode(<<str>>)
      last  == Len(str) - 1                        \* token j is at 6 * j + 1
      At(size, j)      == (6 * j) \div size         \* the read it starts in
      Length(size, k)  == Min({size, Len(text) - size * k})
      Earlier(size, j) == Cardinality({i \in 0 .. j - 1 : At(size, i) = At(size, j)})
      Whole(size, j)   == (6 * j + 3) \div size = At(size, j)
      Counted(size, j) == ((6 * j) % size) + 1 + Earlier(size, j) <= Length(size, At(size, j))
      Back(size)       == C!cbytes_decode(C!Reads(text, size))
      Recalled(size)   == Len(str) > 3 /\ Last(text) = 48 /\ size = Len(text) - 1
  IN  TriedAs({"c"}) =>
        /\ Back(Len(text)) = SubSeq(str, 1, (6 * Len(str) + 4) \div 7)
        /\ \A size \in 1 .. Len(text) :
             /\ (\A j \in 0 .. last : Whole(size, j)) =>
                  Back(size) = FlattenSeq([n \in DOMAIN str |->
                                 IF Counted(size, n - 1) THEN <<str[n]>> ELSE <<>>])
             /\ Recalled(size) => Back(size) = Append(Front(str), str[1])
             /\ ~Recalled(size) =>
                  (Back(size) = str <=> \A j \in 0 .. last : Whole(size, j) /\ Counted(size, j))
        /\ \A size \in 1 .. Len(str) :
             C!cbytes_encode(C!Reads(str, size)) = text <=> size = Len(str)

(* Data written as a literal or an initialiser is read back where no read cuts *)
(* it and the decoder keeps its count, and only there; elsewhere what comes    *)
(* back is what these two say.                                                 *)
CFormatsMeant == CStringMeant /\ CBytesMeant

(* A text that is a size is taken for this size, exactly: a number too large  *)
(* for a long is the largest, and a product too large wraps.  What is no such *)
(* text is refused, but for the blanks, signs and second "0x" that strtol     *)
(* reads; with a minus sign only a zero is accepted.                          *)
SizeMeant ==
  LET Strtols == Size!Blank \cup {43, 45}
      result  == Size!string_to_long(str)
      Product(n) == Min({n.number, LongMax}) * n.unit
      Wraps(v, product) == v \in -LongMax - 1 .. LongMax /\ (v - product) % (2 * (LongMax + 1)) = 0
  IN  TriedAs({"size"}) =>
        /\ \A n \in SizesOf(str) : result.ok /\ Wraps(result.value, Product(n))
        /\ result.ok /\ (\A i \in DOMAIN str : str[i] \notin Strtols /\ (str[i] = 120 => i = 2)) =>
             SizesOf(str) # {}
        /\ result.ok /\ (\E i \in DOMAIN str : str[i] = Size!Minus) => result.value = 0

(* The search for PEM blocks goes on at a later position each time, until    *)
(* there is none; and the text XIO_write_pem makes of data, alone or behind  *)
(* another, is passed over as one block, whatever stands in it that is no    *)
(* marker.                                                                    *)
PemMeant ==
  LET at    == Pem!Positions(str)
      label == <<97>>
      block == Pem!XIO_write_pem(label, str)
      plain == \A i \in DOMAIN str : str[i] # Pem!Dash
  IN  TriedAs({"pem"}) =>
        /\ Last(at) = Pem!NoPos
        /\ \A n \in 1 .. Len(at) - 1 : at[n + 1] = Pem!NoPos \/ at[n + 1] > at[n]
        /\ plain => Pem!Positions(block \o block) = <<1, Len(block), 2 * Len(block), Pem!NoPos>>

(* The header of an element is read from the input alone, never from the byte *)
(* behind it that NEXT_BYTE fetches.  Well-formed elements are accepted; those *)
(* made of integers and of sequences are listed as the walk goes, a line for   *)
(* each, indented by its depth: a sequence's first element as many times as    *)
(* make up its length, and the others never.  asn1 lists the same of an        *)
(* element's bytes and of their hex text.                                      *)
Asn1Meant ==
  LET len == Len(str)
      Parsed(b) == Asn1!cc_asn1_parse_1(Append(str, b), 1, len)
      listing == Listing(str, 0)
  IN  TriedAs({"ber"}) =>
        /\ Parsed(0) = Parsed(129)
        /\ IsElement(str) =>
             /\ Asn1!cc_is_asn1(str, len)
             /\ listing # <<>> => Asn1!cc_asn1_print(str, len) = listing
             /\ \A s \in {str, Hex!cc_hex_encode(str, 0, TRUE)} :
                  Asn1!sc_asn1(s) = [ret |-> "OK", printed |-> Asn1!cc_asn1_print(str, len)]
=============================================================================
