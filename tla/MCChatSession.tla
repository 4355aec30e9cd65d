--------------------------- MODULE MCChatSession ---------------------------
(* ChatSession for TLC: two people; blocks of two bytes, two blocks to a      *)
(* piece.  Lines of a piece and a byte, and of two whole pieces; and a plain   *)
(* one of hex digits, which is ciphertext by its look.  Lines are copied       *)
(* whole, or without the last block.                                           *)
EXTENDS ChatSession

MCTyped == {[hex |-> FALSE, len |-> 5], [hex |-> FALSE, len |-> 8], [hex |-> TRUE, len |-> 4]}
MCCuts  == {0, 4}
=============================================================================
