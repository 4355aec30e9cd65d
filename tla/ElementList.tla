---------------------------- MODULE ElementList -----------------------------
(***************************************************************************)
(* What an xarray promises its callers: a list of elements.  Adding puts   *)
(* one at the end and gives its index, or leaves the list as it is and     *)
(* gives -1; removing takes out exactly one and hands it to the callback.  *)
(***************************************************************************)
EXTENDS Integers, Sequences, SequencesExt

CONSTANTS Element

VARIABLES list, index, released

vars == <<list, index, released>>

Init == list = <<>> /\ index = 0 /\ released = <<>>

Take(e) == list' = Append(list, e) /\ index' = Len(list) /\ UNCHANGED released

Refuse == index' = -1 /\ UNCHANGED <<list, released>>

TakeOut(i) ==
  /\ list' = RemoveAt(list, i) /\ released' = Append(released, list[i])
  /\ UNCHANGED index

(* Clean and free: every element goes to the callback, in order. *)
Clear == list' = <<>> /\ released' = released \o list /\ UNCHANGED index

Next ==
  \/ \E e \in Element : Take(e)
  \/ \E i \in DOMAIN list : TakeOut(i)
  \/ Refuse \/ Clear

Spec == Init /\ [][Next]_vars
=============================================================================
