------------------------------ MODULE ByteLog -------------------------------
(***************************************************************************)
(* What an xbytes object promises its callers: a byte string that grows at *)
(* its end only.  A call either takes all the bytes it was given and says  *)
(* so, or takes none and returns 0.  Capacity, growth and memory are gone. *)
(***************************************************************************)
EXTENDS Naturals, Sequences

CONSTANTS Chunk

VARIABLES open, content, ret

vars == <<open, content, ret>>

Init == open = FALSE /\ content = <<>> /\ ret = 0

Refuse == ret' = 0 /\ UNCHANGED <<open, content>>

(* A new object is empty, or holds the copy asked for. *)
Open(s) == ~open /\ open' = TRUE /\ content' \in {<<>>, s} /\ ret' = 1

Take(s) == open /\ content' = content \o s /\ ret' = Len(s) /\ UNCHANGED open

Clear == open /\ content' = <<>> /\ UNCHANGED <<open, ret>>

Close == open /\ open' = FALSE /\ content' = <<>> /\ UNCHANGED ret

Next ==
  \/ \E s \in Chunk : Open(s) \/ Take(s)
  \/ Open(<<>>) \/ Clear \/ Close \/ Refuse

Spec == Init /\ [][Next]_vars
=============================================================================
