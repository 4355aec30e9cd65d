------------------------------- MODULE XBytes -------------------------------
(***************************************************************************)
(* The growable byte buffer of src/data/xbytes.c.  Everything the program  *)
(* reads to the end, decodes or formats in memory goes through it.         *)
(*                                                                         *)
(* A buffer is a record [ptr, len, capacity]; ptr is the allocated block,  *)
(* indexed like the C array.  A cell of the block holds a byte, or Junk:   *)
(* memory that realloc handed out and nobody has written.  The operators   *)
(* on buffers are also used by the modules whose code calls xbytes.        *)
(***************************************************************************)
EXTENDS Integers, Sequences

CONSTANTS
  Byte,       \* byte values the callers write
  Nul,        \* the byte '\0'
  Junk,       \* the content of a cell nobody has written
  Chunk,      \* the byte strings callers pass to write, printf and new_copy
  Slack,      \* the 4096 extra bytes of a growth
  MaxLen,     \* bound: bytes stored in one object
  MaxRoom     \* bound: capacity asked of xbytes_new, room asked in advance

ASSUME ByteAssumption  == Nul \in Byte /\ Junk \notin Byte
ASSUME ChunkAssumption == Chunk \subseteq Seq(Byte)
ASSUME SizeAssumption  == Slack \in Nat \ {0} /\ MaxLen \in Nat /\ MaxRoom \in Nat

VARIABLES
  live,       \* the object exists
  mem,        \* *mem
  ret,        \* what the last call returned; a pointer is 0 (NULL) or 1
  room        \* what the last xbytes_require_size reported

vars == <<live, mem, ret, room>>

-----------------------------------------------------------------------------
(* Buffers. *)

Cell == Byte \cup {Junk}

Fresh(n) == [ptr |-> [i \in 0 .. n - 1 |-> Nul], len |-> 0, capacity |-> n]

(* What an observer reads through xbytes_buffer and xbytes_length. *)
Content(m) == [i \in 1 .. m.len |-> m.ptr[i - 1]]

(* Definitions named ...Bug are mistakes this code could easily have had; each *)
(* stands before the definition it would spoil.                               *)
ReallocBug(m, n) ==          \* the new capacity is not stored
  [ptr |-> [i \in 0 .. n - 1 |-> IF i < m.capacity THEN m.ptr[i] ELSE Junk],
   len |-> m.len, capacity |-> m.capacity]

(* realloc: what was there stays, the rest is uninitialised. *)
Realloc(m, n) ==
  [ptr |-> [i \in 0 .. n - 1 |-> IF i < m.capacity THEN m.ptr[i] ELSE Junk],
   len |-> m.len, capacity |-> n]

ReserveBug(m, req) ==        \* no byte more than asked for
  LET grown == Realloc(m, m.len + req)
  IN  IF m.len + req <= m.capacity THEN {[buf |-> m, room |-> m.capacity - m.len]}
      ELSE {[buf |-> grown, room |-> req], [buf |-> m, room |-> 0]}

(* The outcomes of xbytes_require_size.  When realloc fails the buffer *)
(* stays as it was and the room reported is 0.                         *)
Reserve(m, req) ==
  LET grown == Realloc(m, m.capacity + req + Slack)
  IN  IF m.len + req + 1 <= m.capacity
      THEN {[buf |-> m, room |-> m.capacity - m.len]}
      ELSE {[buf |-> grown, room |-> grown.capacity - m.len],
            [buf |-> m, room |-> 0]}

(* memcpy of s to offset off of a block. *)
Patched(block, off, s) ==
  [i \in DOMAIN block |->
     IF off <= i /\ i < off + Len(s) THEN s[i - off + 1] ELSE block[i]]

StoreGapBug(m, n, bytes) ==  \* copies one cell too far
  {IF r.room < n
   THEN [buf |-> m, ret |-> 0]
   ELSE [buf |-> [ptr |-> Patched(r.buf.ptr, m.len + 1, bytes),
                  len |-> m.len + n, capacity |-> r.buf.capacity],
         ret |-> n] : r \in Reserve(m, n)}
StoreRetBug(m, n, bytes) ==  \* reports success when nothing was stored
  {IF r.room < n
   THEN [buf |-> m, ret |-> n]
   ELSE [buf |-> [ptr |-> Patched(r.buf.ptr, m.len, bytes),
                  len |-> m.len + n, capacity |-> r.buf.capacity],
         ret |-> n] : r \in Reserve(m, n)}

(* Room for n bytes is reserved, then bytes is copied behind the content; *)
(* only its first n bytes become part of the content.                     *)
Store(m, n, bytes) ==
  {IF r.room < n
   THEN [buf |-> m, ret |-> 0]
   ELSE [buf |-> [ptr |-> Patched(r.buf.ptr, m.len, bytes),
                  len |-> m.len + n, capacity |-> r.buf.capacity],
         ret |-> n] : r \in Reserve(m, n)}

WriteOutcomes(m, s)   == Store(m, Len(s), s)
(* vsnprintf stores the terminator behind the text. *)
PrintfOutcomes(m, s) ==
  IF Len(s) = 0 THEN {[buf |-> m, ret |-> 0]} ELSE Store(m, Len(s), Append(s, Nul))

-----------------------------------------------------------------------------
(* The object. *)

Init == live = FALSE /\ mem = Fresh(0) /\ ret = 0 /\ room = 0

(* calloc gives zeroed memory, or the call fails. *)
New(n) ==
  /\ ~live
  /\ \/ live' = TRUE /\ mem' = Fresh(n) /\ ret' = 1
     \/ UNCHANGED <<live, mem>> /\ ret' = 0
  /\ UNCHANGED room

(* The result of the write into the fresh object is not looked at. *)
NewCopy(s) ==
  /\ ~live
  /\ Len(s) <= MaxLen
  /\ \/ live' = TRUE /\ ret' = 1 /\ \E o \in WriteOutcomes(Fresh(Len(s)), s) : mem' = o.buf
     \/ UNCHANGED <<live, mem>> /\ ret' = 0
  /\ UNCHANGED room

RequireSize(req) ==
  /\ live
  /\ mem.capacity + req <= MaxLen + MaxRoom + 1
  /\ \E r \in Reserve(mem, req) : mem' = r.buf /\ room' = r.room
  /\ UNCHANGED <<live, ret>>

Write(s) ==
  /\ live
  /\ mem.len + Len(s) <= MaxLen
  /\ \E o \in WriteOutcomes(mem, s) : mem' = o.buf /\ ret' = o.ret
  /\ UNCHANGED <<live, room>>

Vprintf(s) ==
  /\ live
  /\ mem.len + Len(s) <= MaxLen
  /\ \A i \in DOMAIN s : s[i] # Nul        \* the text of a %s holds no '\0'
  /\ \E o \in PrintfOutcomes(mem, s) : mem' = o.buf /\ ret' = o.ret
  /\ UNCHANGED <<live, room>>

Clean ==
  /\ live
  /\ mem' = Fresh(mem.capacity)
  /\ UNCHANGED <<live, ret, room>>

(* xbytes_free; for the object, xbytes_detach_and_free is the same. *)
Free == live /\ live' = FALSE /\ mem' = Fresh(0) /\ UNCHANGED <<ret, room>>

Next ==
  \/ \E n \in 0 .. MaxRoom : New(n) \/ RequireSize(n)
  \/ \E s \in Chunk : NewCopy(s) \/ Write(s) \/ Vprintf(s)
  \/ Clean
  \/ Free

Spec == Init /\ [][Next]_vars

-----------------------------------------------------------------------------
(* Types, and the one fact about the block that every access relies on: it *)
(* is exactly as long as the capacity field says.                          *)
TypeOK ==
  /\ live \in BOOLEAN
  /\ ret \in Nat /\ room \in Nat
  /\ mem.len \in Nat
  /\ mem.capacity \in Nat
  /\ mem.ptr \in [0 .. mem.capacity - 1 -> Cell]
  /\ mem = [ptr |-> mem.ptr, len |-> mem.len, capacity |-> mem.capacity]

(* Whatever sequence of calls and failed reallocs led here, the content lies *)
(* inside the block, and once there is content the byte behind it is inside  *)
(* the block too: xbytes_require_size always counts one byte more than asked,*)
(* so vsnprintf's terminator never falls off the end.                        *)
RoomForTerminator ==
  /\ mem.len <= mem.capacity
  /\ mem.len > 0 => mem.len < mem.capacity

(* No byte of the content is memory nobody wrote, although every growth *)
(* hands out such memory.                                               *)
ContentInitialised == \A i \in 0 .. mem.len - 1 : mem.ptr[i] # Junk

(* An xbytes object is an append-only byte string whatever its buffer does: *)
(* no growth or failed growth loses, repeats or reorders a byte, and the    *)
(* return value tells whether the bytes were taken.                         *)
Log == INSTANCE ByteLog WITH open <- live, content <- Content(mem)
AppendOnly == Log!Spec
=============================================================================
