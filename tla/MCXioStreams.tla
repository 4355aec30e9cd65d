---------------------------- MODULE MCXioStreams ----------------------------
(* XioStreams for TLC: two FILEs, two disks, real hex digits and letters. *)
EXTENDS XioStreams, TLC

MCText    == {<<>>, <<65, 66>>}
MCLetter  == {<<65>>}
MCUnknown == -1
MCSymmetry == Permutations(Handle)
=============================================================================
