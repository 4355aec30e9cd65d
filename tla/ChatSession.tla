---------------------------- MODULE ChatSession ----------------------------
(***************************************************************************)
(* src/cmd/sc_chat.c: people who talk over any channel they like, each     *)
(* running "xx chat" beside it.  The program turns a plain line into a     *)
(* line of hex digits and such a line back into the plain one; the people  *)
(* copy what it printed to each other, in any order, again, or in part.    *)
(* A session can be stopped at any moment and restored from its KEY.       *)
(***************************************************************************)
EXTENDS Integers, Sequences, FiniteSets

CONSTANTS
  User,       \* people
  Block,      \* bytes of a cipher block: SM4_BLOCK_SIZE
  Chunk,      \* bytes of a line encrypted at a time: 1024
  Typed,      \* lines people type: [hex, len], whether all are hex digits, and how many
  Pass,       \* pre-shared keys
  Cuts,       \* how many digits people lose from the end of a line they copy: 0, and more
  MaxRuns,    \* bound: processes started
  MaxLines    \* bound: lines printed

ASSUME ChatAssumption ==
  /\ Block \in Nat \ {0} /\ Chunk \in Nat \ {0} /\ Chunk % Block = 0
  /\ Typed \subseteq [hex : BOOLEAN, len : Nat]
  /\ Cuts \subseteq Nat

VARIABLES
  proc,     \* each user's process: where it is, its session and locals
  posted,   \* what was printed and can be copied: public keys and lines
  noted,    \* the KEYs each user has seen: they stay on his own terminal
  shown,    \* the line just deciphered, in which session, and what it became
  count     \* processes started, key pairs generated, lines printed

vars == <<proc, posted, noted, shown, count>>

-----------------------------------------------------------------------------
(* GmSSL, from how the code uses it.  A point is the set of the secrets the  *)
(* generator was multiplied with; the order does not matter.                 *)
(* Definitions named ...Bug are mistakes this code could easily have had; each *)
(* stands before the definition it would spoil.                               *)
SM2_point_mul_bytes(P, k) == P \cup {k}

(* The bytes update gives back of n more after held ones. *)
Encrypted(held, n) == Block * ((held + n) \div Block)
Decrypted(n)       == IF n = 0 THEN 0 ELSE Block * ((n - 1) \div Block)

-----------------------------------------------------------------------------
(* A key and an iv are a block of bytes; a byte is known by where it comes from. *)
Half(kind, from) == [i \in 1 .. Block |-> <<kind, from, i>>]
ZeroByte         == <<"zero">>
(* What is left of a half of which only the first n bytes were read. *)
Partly(half, n)  == [i \in 1 .. Block |-> IF i <= n THEN half[i] ELSE ZeroByte]

NoSession == [key |-> Partly(<<>>, 0), iv |-> Partly(<<>>, 0)]
NoLine    == [hex |-> TRUE, len |-> 0]
Nothing   == [line |-> NoLine, ids |-> {}, chars |-> <<>>]
Idle      == [at |-> "shell", secret |-> 0, session |-> NoSession, ids |-> {}, line |-> NoLine,
              i |-> 0, held |-> 0, out |-> NoLine]

Init ==
  /\ proc   = [u \in User |-> Idle]
  /\ posted = [keys |-> {}, lines |-> {}]
  /\ noted  = [u \in User |-> {}]
  /\ shown  = Nothing
  /\ count  = [runs |-> 0, pairs |-> 0, lines |-> 0]

(* pbkdf2: the same secret, the same 32 bytes, half for the key, half for the iv. *)
chat_kdf(kind, secret) == [key |-> Half("key", <<kind, secret>>), iv |-> Half("iv", <<kind, secret>>)]

Printed(l) == "key" \in DOMAIN l          \* else it was typed

-----------------------------------------------------------------------------
(* chat_session_start logs the KEY; from then on the session is known by it, *)
(* and by what the user gave: the two key pairs, the PSK, or the KEY he used. *)
KEY(session) == <<"KEY", session.key, session.iv>>

Started(u, session, known) ==
  /\ proc' = [proc EXCEPT ![u] = [Idle EXCEPT !.at = "chat",
                                    !.session = session, !.ids = {known, KEY(session)}]]
  /\ noted' = [noted EXCEPT ![u] = @ \cup {KEY(session)}]

ByKeys(P, secret) == <<"pairs", P \cup {secret}>>

CanRun(u) == proc[u].at = "shell" /\ count.runs < MaxRuns

(* --init: generate, print the public key, ask for the other side's. *)
Initiate(u) ==
  /\ CanRun(u)
  /\ LET s == count.pairs + 1
     IN  /\ proc' = [proc EXCEPT ![u] = [Idle EXCEPT !.at = "response", !.secret = s]]
         /\ posted' = [posted EXCEPT !.keys = @ \cup {{s}}]
         /\ count' = [count EXCEPT !.runs = @ + 1, !.pairs = s]
  /\ UNCHANGED noted

(* An invalid response is asked for again. *)
Response(u) ==
  /\ proc[u].at = "response"
  /\ \E P \in posted.keys :
       Started(u, chat_kdf("point", SM2_point_mul_bytes(P, proc[u].secret)),
               ByKeys(P, proc[u].secret))
  /\ UNCHANGED <<posted, count>>

(* --join KEY: the session starts at once, the other side has yet to answer. *)
Join(u) ==
  /\ CanRun(u)
  /\ LET s == count.pairs + 1
     IN  /\ \E P \in posted.keys :
              Started(u, chat_kdf("point", SM2_point_mul_bytes(P, s)), ByKeys(P, s))
         /\ posted' = [posted EXCEPT !.keys = @ \cup {{s}}]
         /\ count' = [count EXCEPT !.runs = @ + 1, !.pairs = s]

RestoredBug(k) == [key |-> k[3], iv |-> k[2]]       \* takes the halves in the wrong order

(* --restore KEY: the first half is the key, the second the iv. *)
Restored(k) == [key |-> k[2], iv |-> k[3]]

(* hex_to_bytes stops at a char that is no digit; nobody looks, and the rest *)
(* of that half stays zero.                                                   *)
Mistyped(k) == {[k EXCEPT ![h] = Partly(k[h], n)] : h \in {2, 3}, n \in 0 .. Block - 1}

Restore(u) ==
  /\ CanRun(u)
  /\ \E k \in noted[u] : \E given \in {k} \cup Mistyped(k) : Started(u, Restored(given), given)
  /\ count' = [count EXCEPT !.runs = @ + 1]
  /\ UNCHANGED posted

Psk(u) ==
  /\ CanRun(u)
  /\ \E w \in Pass : Started(u, chat_kdf("psk", w), <<"psk", w>>)
  /\ count' = [count EXCEPT !.runs = @ + 1]
  /\ UNCHANGED posted

(* No mode or two of them, a missing argument, a key that is no point, a KEY *)
(* that is not 64 chars long: the command ends.                              *)
Refuse(u) ==
  CanRun(u) /\ UNCHANGED <<proc, posted, noted, count>>

-----------------------------------------------------------------------------
(* The empty line counts, too. *)
is_cipher_string(l) == l.hex /\ l.len % (2 * Block) = 0

ReadLine(u, l) ==
  /\ proc[u].at = "chat"
  /\ is_cipher_string(l) \/ count.lines < MaxLines
  /\ proc' = [proc EXCEPT ![u].at = IF is_cipher_string(l) THEN "decrypt" ELSE "encrypt",
                          ![u].line = l]
  /\ count' = [count EXCEPT !.lines = @ + IF is_cipher_string(l) THEN 0 ELSE 1]
  /\ UNCHANGED <<posted, noted>>

TypeLine(u) == \E l \in Typed : ReadLine(u, l)

(* Something printed before, perhaps without its end. *)
PasteLine(u) ==
  \E l \in posted.lines : \E n \in Cuts :
    n < l.len /\ ReadLine(u, [l EXCEPT !.len = @ - n])

(* Before the first block is full update gives nothing back, cc_hex_encode of *)
(* nothing is NULL, and printf writes "(null)".                                *)
HexOut(out, n) ==
  IF n = 0 THEN [hex |-> FALSE, len |-> out.len + 6]
  ELSE [hex |-> out.hex, len |-> out.len + 2 * n]

ReadinShortBug(p) == IF p.line.len - p.i > Chunk THEN Chunk - 1 ELSE p.line.len - p.i
Readin(p) == IF p.line.len - p.i > Chunk THEN Chunk ELSE p.line.len - p.i

EncryptUpdate(u) ==
  LET p == proc[u]
      n == Readin(p)
      w == Encrypted(p.held, n)
  IN  /\ p.at = "encrypt" /\ p.i < p.line.len
      /\ proc' = [proc EXCEPT ![u].i = @ + n, ![u].held = p.held + n - w,
                              ![u].out = HexOut(@, w)]
      /\ UNCHANGED <<posted, noted, count>>

PromptedBug(p) == [p EXCEPT !.i = 0, !.held = 0, !.out = NoLine]   \* takes the same line again

(* Back to the prompt, the locals gone. *)
Prompted(p) == [p EXCEPT !.at = "chat", !.line = NoLine, !.i = 0, !.held = 0, !.out = NoLine]

(* finish pads, so there is always a block; the line is out.  n says how many *)
(* bytes of the line it holds.                                                *)
EncryptFinish(u) ==
  LET p   == proc[u]
      out == HexOut(p.out, Block)
  IN  /\ p.at = "encrypt" /\ p.i >= p.line.len
      /\ posted' = [posted EXCEPT !.lines = @ \cup
                     {[hex |-> out.hex, len |-> out.len, says |-> p.line, n |-> p.i,
                       key |-> p.session, ids |-> p.ids]}]
      /\ proc' = [proc EXCEPT ![u] = Prompted(@)]
      /\ UNCHANGED <<noted, count>>

PlainOutBug(update, final, ok) == update \o final \o update

(* What is printed: update's bytes and finish's.  When finish fails, which is *)
(* not looked at, plain and plain_len still hold what update left there.      *)
PlainOut(update, final, ok) == update \o (IF ok THEN final ELSE update)

(* The bytes of a line by their number; 0 is a byte the line does not have. *)
Upto(a, b)  == [i \in 1 .. b - a |-> a + i]
Garbage(n)  == [i \in 1 .. n |-> 0]
Blocks(l)   == l.len \div (2 * Block)

(* The bytes a + 1 to b of a printed line, deciphered with its key: in CBC the *)
(* iv goes into the first block only, byte by byte.                             *)
Seen(l, iv, a, b) ==
  [i \in 1 .. b - a |->
     IF a + i > l.n \/ (a + i <= Block /\ iv[a + i] # l.key.iv[a + i]) THEN 0 ELSE a + i]

(* The last block must end in a padding: another block does only by chance,   *)
(* be it one with another key, of a line without its end, or a first block     *)
(* with another iv.                                                            *)
DecryptOutcomes(l, session) ==
  LET m     == Decrypted(Block * Blocks(l))
      mine  == Printed(l) /\ l.key.key = session.key
      ended == m + Block > l.n /\ (m > 0 \/ l.key.iv = session.iv)
      upTo(b) == Seen(l, session.iv, 0, b)
      from(b) == Seen(l, session.iv, m, b)
  IN  IF ~mine THEN {PlainOut(Garbage(m), <<>>, FALSE)}
                      \cup {PlainOut(Garbage(m), Garbage(r), TRUE) : r \in 0 .. Block - 1}
      ELSE IF ended THEN {PlainOut(upTo(m), from(l.n), TRUE)}
      ELSE {PlainOut(upTo(m), <<>>, FALSE)}
             \cup {PlainOut(upTo(m), from(m + r), TRUE) : r \in 0 .. Block - 1}

Decrypt(u) ==
  LET p == proc[u]
  IN  /\ p.at = "decrypt"
      /\ \E s \in DecryptOutcomes(p.line, p.session) :
           shown' = [line |-> p.line, ids |-> p.ids, chars |-> s]
      /\ proc' = [proc EXCEPT ![u] = Prompted(@)]
      /\ UNCHANGED <<posted, noted, count>>

(* Ctrl-C, or the end of stdin, where console_readline returns NULL and      *)
(* strlen is called on it: the process is gone.                              *)
Stop(u) ==
  /\ proc[u].at # "shell"
  /\ proc' = [proc EXCEPT ![u] = Idle]
  /\ UNCHANGED <<posted, noted, count>>

Begin(u)   == Initiate(u) \/ Response(u) \/ Join(u) \/ Restore(u) \/ Psk(u) \/ Refuse(u)
Give(u)    == TypeLine(u) \/ PasteLine(u)
Encrypt(u) == EncryptUpdate(u) \/ EncryptFinish(u)

(* What the program does by itself once a line is given to it. *)
Step(u) == (Encrypt(u) /\ shown' = Nothing) \/ Decrypt(u)

Next == \E u \in User :
  \/ (Begin(u) \/ Give(u) \/ Stop(u)) /\ shown' = Nothing
  \/ Step(u)

(* A process that was given a line works on it; nobody has to type. *)
Fairness == \A u \in User : WF_vars(Step(u))

Spec == Init /\ [][Next]_vars /\ Fairness

-----------------------------------------------------------------------------
(* A line copied whole and deciphered in a session with the same key is the  *)
(* line that was given to the program: whenever it arrives, however often,   *)
(* in however many pieces it was encrypted, and whichever session of that    *)
(* key reads it.                                                              *)
Understood ==
  LET l == shown.line
  IN  l \in posted.lines /\ l.ids \cap shown.ids # {} => shown.chars = Upto(0, l.says.len)

(* What was printed for a line is taken for ciphertext again, unless the line *)
(* or its last piece was shorter than a block: then "(null)" is in it.        *)
Legible ==
  \A l \in posted.lines :
    is_cipher_string(l) <=> l.says.len % Chunk \notin 1 .. Block - 1

(* A line that lost its end on the way, or is read in another session, shows *)
(* no byte of another place: a beginning of the line, twice if the padding of  *)
(* its last block is wrong, or only garbage.  With the right key and another   *)
(* iv - a KEY that was typed wrong - only the first block can hold garbage;    *)
(* in a session of the line's own key and iv nothing does.                     *)
NothingForeign ==
  LET s    == shown.chars
      half == SubSeq(s, 1, Len(s) \div 2)
      own  == Printed(shown.line) /\ shown.line.ids \cap shown.ids # {}
      InPlace(t) == \A i \in DOMAIN t : t[i] = i \/ (~own /\ t[i] = 0 /\ i <= Block)
  IN  \/ InPlace(s)
      \/ InPlace(half) /\ s = half \o half
      \/ ~own /\ \A i \in DOMAIN s : s[i] = 0

(* A line that was given to the program is answered, unless the process is  *)
(* stopped: the loop over its pieces comes to its end.                       *)
Answered ==
  \A u \in User : proc[u].at \in {"encrypt", "decrypt"} ~> proc[u].at \in {"chat", "shell"}
=============================================================================
