------------------------------- MODULE XArray -------------------------------
(***************************************************************************)
(* The growable array of src/data/xarray.c.  An array is a record [block,  *)
(* count, capacity]; a cell of the block holds one element, Zero where it  *)
(* was cleared, or Garbage where realloc handed out memory nobody wrote.   *)
(* A pointer into the block is its distance from the start in bytes, which *)
(* need not be a multiple of the element size; NULL and pointers to other  *)
(* memory are distances the block does not have.                           *)
(***************************************************************************)
EXTENDS Integers, Sequences, SequencesExt

CONSTANTS
  Element,      \* what clients store: each element is stored once
  Zero,         \* an element of zero bytes
  Garbage,      \* the content of a cell nobody has written
  ElementSize,  \* bytes of an element
  Extra,        \* the 4 elements a growth adds to what is asked for
  MaxAhead      \* bound: capacity asked for at first, room asked for in advance

ASSUME ElementAssumption == Zero \notin Element /\ Garbage \notin Element /\ Zero # Garbage
ASSUME ElementSizeAssumption == ElementSize \in Nat \ {0}
ASSUME ExtraAssumption == Extra \in Nat /\ MaxAhead \in Nat

VARIABLES
  made,       \* the object exists
  arr,        \* *arr
  result,     \* the index the last add returned
  freed,      \* the elements the callback was given, in order
  filling     \* the slot add_new_item has handed out and the client is about to write

arrayVars == <<made, arr, result, freed, filling>>

-----------------------------------------------------------------------------
Null   == -1
NoSlot == -1
Slots  == Element \cup {Zero, Garbage}

Array(block, count, capacity) == [block |-> block, count |-> count, capacity |-> capacity]
Calloced(n) == Array([i \in 0 .. n - 1 |-> Zero], 0, n)

(* Definitions named ...Bug are mistakes this code could easily have had; each *)
(* stands before the definition it would spoil.                               *)
GrownBug(a, n) ==              \* a new block, the elements not copied
  Array([i \in 0 .. n - 1 |-> Garbage], a.count, n)

(* realloc: what was there stays. *)
Grown(a, n) ==
  Array([i \in 0 .. n - 1 |-> IF i < a.capacity THEN a.block[i] ELSE Garbage], a.count, n)

RoomForBug(a, req) ==          \* believes the capacity grew when it did not
  IF a.count + req > a.capacity THEN {Grown(a, a.capacity + req + Extra), Array(a.block, a.count, a.capacity + req)}
  ELSE {a}

(* xarray_require_size: room, or a failed realloc and nothing changed. *)
RoomFor(a, req) ==
  IF a.count + req > a.capacity THEN {Grown(a, a.capacity + req + Extra), a} ELSE {a}
Remaining(a) == a.capacity - a.count

Elements(a) == [i \in 1 .. a.count |-> a.block[i - 1]]

(* Pointers. *)
GetAtBug(a, i) == IF i < 0 \/ i > a.count THEN Null ELSE i * ElementSize
xarray_get_at(a, i) == IF i < 0 \/ i >= a.count THEN Null ELSE i * ElementSize

xarray_index_of(a, p) == IF p < 0 \/ p >= a.count * ElementSize THEN -1 ELSE p \div ElementSize

xarray_get_first(a)   == xarray_get_at(a, 0)
xarray_get_last(a)    == xarray_get_at(a, a.count - 1)
Neighbour(a, p, step) ==
  LET i == xarray_index_of(a, p)
  IN  IF p = Null \/ i < 0 THEN Null ELSE xarray_get_at(a, i + step)
xarray_get_next(a, p) == Neighbour(a, p, 1)
xarray_get_prev(a, p) == Neighbour(a, p, -1)

-----------------------------------------------------------------------------
ArrayInit ==
  /\ made = FALSE /\ arr = Calloced(0) /\ result = 0 /\ freed = <<>> /\ filling = NoSlot

(* What nobody has stored yet. *)
Stored   == {arr.block[i] : i \in 0 .. arr.count - 1} \cup ToSet(freed)
NotYet   == Element \ Stored
Ready    == made /\ filling = NoSlot

NewArray(n) ==
  /\ ~made
  /\ \/ made' = TRUE /\ arr' = Calloced(n)
     \/ UNCHANGED <<made, arr>>
  /\ UNCHANGED <<result, freed, filling>>

RequireRoom(n) ==
  /\ Ready
  /\ Remaining(arr) < n
  /\ arr' \in RoomFor(arr, n)
  /\ UNCHANGED <<made, result, freed, filling>>

xarray_add(e) ==
  /\ Ready
  /\ \E a \in RoomFor(arr, 1) :
       IF Remaining(a) < 1 THEN result' = -1 /\ arr' = a
       ELSE /\ arr' = Array([a.block EXCEPT ![a.count] = e], a.count + 1, a.capacity)
            /\ result' = a.count
  /\ UNCHANGED <<made, freed, filling>>

(* The slot keeps what was in it before: zeroes, garbage, or an element that *)
(* xarray_clean left there.                                                  *)
xarray_add_new_item ==
  /\ Ready
  /\ \E a \in RoomFor(arr, 1) :
       IF Remaining(a) < 1 THEN arr' = a /\ result' = -1 /\ UNCHANGED filling
       ELSE /\ arr' = Array(a.block, a.count + 1, a.capacity) /\ filling' = a.count
            /\ UNCHANGED result
  /\ UNCHANGED <<made, freed>>

(* The client writes to the slot it was given before it does anything else. *)
Fill(e) ==
  /\ filling # NoSlot
  /\ arr' = Array([arr.block EXCEPT ![filling] = e], arr.count, arr.capacity) /\ result' = filling
  /\ filling' = NoSlot
  /\ UNCHANGED <<made, freed>>

ShiftedBug(a, i) ==           \* moves one element too few
  [j \in DOMAIN a.block |-> IF j >= i /\ j < a.count - 2 THEN a.block[j + 1]
                            ELSE IF j = i THEN Zero ELSE a.block[j]]

(* memset of the element, memmove of those behind it; the last cell stays. *)
Shifted(a, i) ==
  [j \in DOMAIN a.block |-> IF j >= i /\ j < a.count - 1 THEN a.block[j + 1]
                            ELSE IF j = i THEN Zero ELSE a.block[j]]

RemoveAtIndex(i) ==
  /\ freed' = Append(freed, arr.block[i])
  /\ arr' = Array(Shifted(arr, i), arr.count - 1, arr.capacity)
  /\ UNCHANGED <<made, result, filling>>

xarray_remove_at(i) == Ready /\ i \in 0 .. arr.count - 1 /\ RemoveAtIndex(i)

(* By a pointer to the element, or to anywhere in it. *)
xarray_remove(p) == Ready /\ xarray_index_of(arr, p) >= 0 /\ RemoveAtIndex(xarray_index_of(arr, p))

xarray_clean ==
  /\ Ready
  /\ freed' = freed \o Elements(arr)
  /\ arr' = Array(arr.block, 0, arr.capacity)
  /\ UNCHANGED <<made, result, filling>>

xarray_free ==
  /\ Ready
  /\ freed' = freed \o Elements(arr)
  /\ made' = FALSE /\ arr' = Calloced(0)
  /\ UNCHANGED <<result, filling>>

ArrayNext ==
  \/ \E n \in 0 .. MaxAhead : NewArray(n) \/ RequireRoom(n)
  \/ \E e \in NotYet : xarray_add(e) \/ Fill(e)
  \/ NotYet # {} /\ xarray_add_new_item
  \/ \E i \in 0 .. arr.count - 1 : xarray_remove_at(i)
  \/ \E p \in 0 .. arr.count * ElementSize : xarray_remove(p)
  \/ xarray_clean \/ xarray_free

ArraySpec == ArrayInit /\ [][ArrayNext]_arrayVars

-----------------------------------------------------------------------------
(* Types; the block is as long as the capacity says, and every element in it. *)
ArrayTypeOK ==
  /\ made \in {TRUE, FALSE} /\ result \in Nat \cup {-1}
  /\ arr.count \in Nat /\ arr.capacity \in Nat /\ arr.count <= arr.capacity
  /\ arr.block \in [0 .. arr.capacity - 1 -> Slots]
  /\ filling \in {NoSlot, arr.count - 1}

(* An element that was stored is in the array or was handed to the callback, *)
(* once: none lost or handed over twice, although removed elements stay in   *)
(* the block and new slots show them again.                                  *)
Filled == IF filling = NoSlot THEN Elements(arr) ELSE Front(Elements(arr))
OwnedOnce ==
  LET all == Filled \o freed
  IN  /\ \A i, j \in DOMAIN all : i # j => all[i] # all[j]
      /\ \A i \in DOMAIN all : all[i] \in Element

(* xarray_foreach and xarray_foreach_reverse: starting at either end, the     *)
(* pointers visit every element in its order and then end, also if the body   *)
(* advances a pointer within the element.                                     *)
Within(p, inside) == IF p = Null THEN p ELSE p + inside
Forward(inside) ==
  LET walk[n \in 0 .. arr.count] ==
        IF n = 0 THEN xarray_get_first(arr) ELSE xarray_get_next(arr, Within(walk[n - 1], inside))
  IN  walk
Backward(inside) ==
  LET walk[n \in 0 .. arr.count] ==
        IF n = 0 THEN xarray_get_last(arr) ELSE xarray_get_prev(arr, Within(walk[n - 1], inside))
  IN  walk
VisitsAll ==
  \A inside \in 0 .. ElementSize - 1 :
    /\ \A n \in 0 .. arr.count - 1 :
         /\ Forward(inside)[n] = n * ElementSize
         /\ Backward(inside)[n] = (arr.count - 1 - n) * ElementSize
    /\ Forward(inside)[arr.count] = Null /\ Backward(inside)[arr.count] = Null

(* An xarray is a list whatever its block does: a failed growth changes      *)
(* nothing, and a slot becomes an element when it is written.                 *)
List == INSTANCE ElementList WITH list <- Filled, index <- result, released <- freed
IsList == List!Spec
=============================================================================
