------------------------------ MODULE MCXBytes ------------------------------
(* XBytes for TLC: every chunk of up to two bytes over a text byte and '\0', *)
(* buffers of up to four bytes, a growth slack of one.  XArray for TLC: four *)
(* elements of two bytes, a growth by one more than asked for.               *)
EXTENDS XBytes, XArray

MCByte  == {0, 1}
MCJunk  == 2
MCChunk == UNION {[1 .. n -> MCByte] : n \in 0 .. 2}

(* The two have nothing in common: either a buffer is used or an array. *)
MCVars == <<vars, arrayVars>>
MCInit == Init /\ ArrayInit
MCNext ==
  \/ Next /\ ArrayInit /\ UNCHANGED arrayVars
  \/ ArrayNext /\ Init /\ UNCHANGED vars
MCSpec == MCInit /\ [][MCNext]_MCVars
=============================================================================
