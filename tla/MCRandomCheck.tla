--------------------------- MODULE MCRandomCheck ---------------------------
(* All sequences of up to nine bits: as many as a 3 by 3 matrix has, one     *)
(* more than a byte; pointers of four bytes, so that half of the byte is     *)
(* beyond the bits the derivatives change.                                   *)
EXTENDS RandomCheck
=============================================================================
