--------------------------- MODULE MCCmdlineArgs ----------------------------
(* CmdlineArgs for TLC.  A line is up to three arguments, made of pieces      *)
(* written in one of the ways there are to write characters, with blanks      *)
(* around them, and perhaps an unfinished piece at its end.                   *)
EXTENDS CmdlineArgs, SequencesExt

a  == 97
sp == 32
sq == 39
dq == 34
bs == 92

MCChar      == {0, a, sp, sq, dq, bs}
MCBlank     == {sp}
MCQuotation == {sq, dq}
MCNoPtr     == -1
MCJunk      == -2

Piece(text, value) == [text |-> text, value |-> value]
Pieces == {Piece(<<a>>, <<a>>), Piece(<<bs, sp>>, <<sp>>), Piece(<<bs, bs>>, <<bs>>),
           Piece(<<sq, sq>>, <<>>), Piece(<<sq, sp, a, sq>>, <<sp, a>>),
           Piece(<<dq, sq, dq>>, <<sq>>), Piece(<<dq, bs, dq, dq>>, <<dq>>)}
Open   == {<<bs>>, <<sq>>, <<dq, sq>>, <<sq, a, bs, sq>>}

TextOf(w) == FlattenSeq([i \in DOMAIN w |-> w[i].text])
Value(w)  == FlattenSeq([i \in DOMAIN w |-> w[i].value])
Line(text, args, ok) == [text |-> text, args |-> args, ok |-> ok]

Glued   == {<<Piece(<<a>>, <<a>>), Piece(<<sq, sp, sq>>, <<sp>>), Piece(<<a>>, <<a>>)>>,
            <<Piece(<<dq, dq>>, <<>>), Piece(<<bs, a>>, <<a>>)>>}

MCLines ==
  {Line(<<sp>>, <<>>, TRUE)}
  \cup {Line(p.text, <<p.value>>, TRUE) : p \in Pieces}
  \cup {Line(TextOf(w), <<Value(w)>>, TRUE) : w \in Glued}
  \cup {Line(<<sp>> \o p.text \o <<sp, sp, a>>, <<p.value, <<a>>>>, TRUE) : p \in Pieces}
  \cup {Line(<<a, sp, a, sp, dq, a, dq>>, <<<<a>>, <<a>>, <<a>>>>, TRUE)}
  \cup {Line(<<a, sp>> \o o, <<>>, FALSE) : o \in Open}
=============================================================================
