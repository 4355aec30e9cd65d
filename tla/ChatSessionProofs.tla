------------------------- MODULE ChatSessionProofs -------------------------
(* For any number of people, processes, lines and lost digits, and any block  *)
(* and chunk size: what is deciphered in a session of the same key is the     *)
(* line that was typed, and nothing else is ever made of it.                  *)
EXTENDS ChatSession, SequenceTheorems, TLAPS

(* What a session is known by decides what it is. *)
SessionOf(id) ==
  CASE id[1] = "KEY"   -> [key |-> id[2], iv |-> id[3]]
    [] id[1] = "pairs" -> chat_kdf("point", id[2])
    [] id[1] = "psk"   -> chat_kdf("psk", id[2])
Known(session, ids) == \A id \in ids : SessionOf(id) = session

(* The piece that is too short for update to give something back. *)
Short(n) == n % Chunk \in 1 .. Block - 1

(* n bytes fill j blocks, and the padding completes one more. *)
Fills(n, j) == Block * j <= n /\ n < Block * j + Block

(* A line that was printed, and one that was copied, perhaps without its end. *)
PostedOK(l) ==
  /\ l = [hex |-> l.hex, len |-> l.len, says |-> l.says, n |-> l.n, key |-> l.key, ids |-> l.ids]
  /\ l.hex \in BOOLEAN /\ l.len \in Nat /\ l.says.len \in Nat /\ l.n = l.says.len
  /\ Known(l.key, l.ids)
  /\ l.hex <=> ~Short(l.n)
  /\ l.hex => \E j \in 0 .. l.n : Fills(l.n, j) /\ l.len = 2 * (Block * j + Block)
CopiedOK(l) ==
  /\ l.len \in Nat /\ l.hex \in BOOLEAN
  /\ Printed(l) => /\ Known(l.key, l.ids) /\ l.n \in Nat
                   /\ l.hex => \E j \in 0 .. l.n : Fills(l.n, j) /\ l.len <= 2 * (Block * j + Block)

(* How far the encryption of a line has come. *)
ProgressOK(p) ==
  /\ p.i \in Nat /\ p.i <= p.line.len /\ p.held \in 0 .. Block - 1
  /\ p.out.len \in Nat /\ p.out.hex \in BOOLEAN
  /\ \E j \in 0 .. p.i : p.i = Block * j + p.held /\ (p.out.hex => p.out.len = 2 * (Block * j))
  /\ p.i < p.line.len => p.out.hex /\ \E k \in 0 .. p.i : p.i = Chunk * k
  /\ p.i = p.line.len => (p.out.hex <=> ~Short(p.line.len))

Fields == {"at", "secret", "session", "ids", "line", "i", "held", "out"}
ProcessOK(p) ==
  /\ DOMAIN p = Fields
  /\ p.at \in {"shell", "response", "chat", "encrypt", "decrypt"}
  /\ p.at \in {"chat", "encrypt", "decrypt"} => Known(p.session, p.ids)
  /\ p.at = "chat" => p.i = 0 /\ p.held = 0 /\ p.out = NoLine
  /\ p.at \in {"encrypt", "decrypt"} => CopiedOK(p.line)
  /\ p.at = "encrypt" => ProgressOK(p)
  /\ p.at = "decrypt" => is_cipher_string(p.line)

Procs  == proc = [u \in User |-> proc[u]] /\ \A u \in User : ProcessOK(proc[u])
Lines  == posted = [keys |-> posted.keys, lines |-> posted.lines] /\ \A l \in posted.lines : PostedOK(l)
Keys   == /\ noted = [u \in User |-> noted[u]]
          /\ \A u \in User : \A k \in noted[u] : k = <<"KEY", k[2], k[3]>>

Inv == Procs /\ Lines /\ Keys

-----------------------------------------------------------------------------
(* Arithmetic of blocks and chunks. *)
LEMMA DivBounds ==
  ASSUME NEW b \in Nat \ {0}, NEW x \in Nat
  PROVE  x \div b \in Nat /\ b * (x \div b) <= x /\ x < b * (x \div b) + b
  BY SMT

LEMMA SameFill ==
  ASSUME NEW b \in Nat \ {0}, NEW x \in Nat, NEW y \in Nat, NEW n \in Nat,
         b * x <= n, n < b * x + b, b * y <= n, n < b * y + b
  PROVE  x = y
  BY SMT

LEMMA NoneLess ==
  ASSUME NEW b \in Nat \ {0}, NEW k \in Nat \ {0} PROVE (b * k - 1) \div b = k - 1
  BY SMT

LEMMA Multiple ==
  ASSUME NEW b \in Nat \ {0}, NEW k \in Nat PROVE (b * k) % b = 0 /\ (b * k) \div b = k
  BY SMT

LEMMA ModOf ==
  ASSUME NEW b \in Nat \ {0}, NEW k \in Nat, NEW r \in 0 .. b - 1 PROVE (b * k + r) % b = r
  BY SMT

LEMMA MultipleOf ==
  ASSUME NEW b \in Nat \ {0}, NEW x \in Nat, x % b = 0
  PROVE  x \div b \in Nat /\ x = b * (x \div b)
  BY SMT

(* A chunk is some blocks. *)
LEMMA ChunkBlocks == \E q \in Nat \ {0} : Chunk = Block * q
<1>1. Chunk = Block * (Chunk \div Block) /\ Chunk \div Block \in Nat
  BY MultipleOf, ChatAssumption
<1>2. Chunk \div Block # 0
  BY <1>1, ChatAssumption
<1>3. QED
  BY <1>1, <1>2

-----------------------------------------------------------------------------
LEMMA InitInv == Init => Inv
<1> SUFFICES ASSUME Init PROVE Inv
  OBVIOUS
<1>1. ProcessOK(Idle)
  BY DEF ProcessOK, Fields, Idle
<1>2. QED
  BY <1>1 DEF Init, Inv, Procs, Lines, Keys

(* One process takes a step, the others do not. *)
LEMMA OneProcess ==
  ASSUME Procs, NEW u \in User, NEW q, ProcessOK(q), proc' = [proc EXCEPT ![u] = q]
  PROVE  Procs'
  BY DEF Procs

(* A session that is started is known by its KEY and by what was given. *)
LEMMA StartedInv ==
  ASSUME Inv, NEW u \in User, NEW s, s = [key |-> s.key, iv |-> s.iv],
         NEW known, SessionOf(known) = s, Started(u, s, known), Lines'
  PROVE  Inv'
<1> DEFINE q == [Idle EXCEPT !.at = "chat", !.session = s, !.ids = {known, KEY(s)}]
<1>1. SessionOf(KEY(s)) = s
  BY DEF SessionOf, KEY
<1>2. /\ DOMAIN q = Fields /\ q.at = "chat" /\ q.session = s /\ q.ids = {known, KEY(s)}
      /\ q.i = 0 /\ q.held = 0 /\ q.out = NoLine
  BY DEF Idle, Fields
<1>3. Known(s, {known, KEY(s)})
  BY <1>1 DEF Known
<1> HIDE DEF q
<1>4. ProcessOK(q)
  BY <1>2, <1>3 DEF ProcessOK
<1>5. proc' = [proc EXCEPT ![u] = q] /\ noted' = [noted EXCEPT ![u] = @ \cup {KEY(s)}]
  BY DEF Started, q
<1>6. Procs'
  BY <1>4, <1>5, OneProcess DEF Inv
<1>7. Keys'
  <2>1. \A v \in User : noted'[v] \subseteq noted[v] \cup {KEY(s)}
    BY <1>5 DEF Inv, Keys
  <2>2. KEY(s) = <<"KEY", KEY(s)[2], KEY(s)[3]>>
    BY DEF KEY
  <2>3. noted' = [v \in User |-> noted'[v]]
    BY <1>5 DEF Inv, Keys
  <2>4. ASSUME NEW v \in User, NEW k \in noted'[v] PROVE k = <<"KEY", k[2], k[3]>>
    BY <2>1, <2>2 DEF Inv, Keys
  <2>5. QED
    BY <2>3, <2>4 DEF Keys
<1>8. QED
  BY <1>6, <1>7 DEF Inv

LEMMA BeginInv ==
  ASSUME Inv, NEW u \in User, Begin(u)
  PROVE  Inv'
<1>1. CASE Initiate(u)
  <2> DEFINE s == count.pairs + 1
             q == [Idle EXCEPT !.at = "response", !.secret = s]
  <2>1. DOMAIN q = Fields /\ q.at = "response"
    BY DEF Idle, Fields
  <2>6. ProcessOK(q)
    BY <2>1 DEF ProcessOK
  <2>2. proc' = [proc EXCEPT ![u] = q] /\ posted' = [posted EXCEPT !.keys = @ \cup {{s}}] /\ noted' = noted
    BY <1>1 DEF Initiate
  <2>3. Procs'
    BY <2>2, <2>6, OneProcess DEF Inv
  <2>4. Lines' /\ Keys'
    BY <2>2 DEF Inv, Lines, Keys
  <2>5. QED
    BY <2>3, <2>4 DEF Inv
<1>2. CASE Response(u)
  <2>1. PICK P \in posted.keys :
          Started(u, chat_kdf("point", SM2_point_mul_bytes(P, proc[u].secret)), ByKeys(P, proc[u].secret))
    BY <1>2 DEF Response
  <2> DEFINE s == chat_kdf("point", SM2_point_mul_bytes(P, proc[u].secret))
             known == ByKeys(P, proc[u].secret)
  <2>2. s = [key |-> s.key, iv |-> s.iv]
    BY DEF chat_kdf
  <2>3. SessionOf(known) = s
    BY DEF SessionOf, ByKeys, SM2_point_mul_bytes
  <2>4. Lines'
    BY <1>2 DEF Response, Inv, Lines
  <2>5. Started(u, s, known)
    BY <2>1
  <2> HIDE DEF s, known
  <2>6. QED
    BY <2>2, <2>3, <2>4, <2>5, StartedInv
<1>3. CASE Join(u)
  <2> DEFINE k == count.pairs + 1
  <2>1. PICK P \in posted.keys : Started(u, chat_kdf("point", SM2_point_mul_bytes(P, k)), ByKeys(P, k))
    BY <1>3 DEF Join
  <2> DEFINE s == chat_kdf("point", SM2_point_mul_bytes(P, k))
             known == ByKeys(P, k)
  <2>2. s = [key |-> s.key, iv |-> s.iv]
    BY DEF chat_kdf
  <2>3. SessionOf(known) = s
    BY DEF SessionOf, ByKeys, SM2_point_mul_bytes
  <2>4. Lines'
    BY <1>3 DEF Join, Inv, Lines
  <2>5. Started(u, s, known)
    BY <2>1
  <2> HIDE DEF s, known
  <2>6. QED
    BY <2>2, <2>3, <2>4, <2>5, StartedInv
<1>4. CASE Restore(u)
  <2>1. PICK k \in noted[u] : \E given \in {k} \cup Mistyped(k) : Started(u, Restored(given), given)
    BY <1>4 DEF Restore
  <2>2. PICK given \in {k} \cup Mistyped(k) : Started(u, Restored(given), given)
    BY <2>1
  <2>3. k = <<"KEY", k[2], k[3]>>
    BY DEF Inv, Keys
  <2>4. given[1] = "KEY"
    BY <2>3 DEF Mistyped
  <2> DEFINE s == Restored(given)
  <2>5. s = [key |-> s.key, iv |-> s.iv] /\ SessionOf(given) = s
    BY <2>4 DEF Restored, SessionOf
  <2>6. Lines'
    BY <1>4 DEF Restore, Inv, Lines
  <2>7. Started(u, s, given)
    BY <2>2
  <2> HIDE DEF s
  <2>8. QED
    BY <2>5, <2>6, <2>7, StartedInv
<1>5. CASE Psk(u)
  <2>1. PICK w \in Pass : Started(u, chat_kdf("psk", w), <<"psk", w>>)
    BY <1>5 DEF Psk
  <2> DEFINE s == chat_kdf("psk", w)
             known == <<"psk", w>>
  <2>2. s = [key |-> s.key, iv |-> s.iv] /\ SessionOf(known) = s
    BY DEF chat_kdf, SessionOf
  <2>3. Lines'
    BY <1>5 DEF Psk, Inv, Lines
  <2>4. Started(u, s, known)
    BY <2>1
  <2> HIDE DEF s, known
  <2>5. QED
    BY <2>2, <2>3, <2>4, StartedInv
<1>6. CASE Refuse(u)
  BY <1>6 DEF Refuse, Inv, Procs, Lines, Keys
<1>7. QED
  BY <1>1, <1>2, <1>3, <1>4, <1>5, <1>6 DEF Begin
-----------------------------------------------------------------------------
(* A line given to a process that waits for one. *)
LEMMA ReadLineInv ==
  ASSUME Inv, NEW u \in User, NEW l, CopiedOK(l), ReadLine(u, l)
  PROVE  Inv'
<1> DEFINE p == proc[u]
           at == IF is_cipher_string(l) THEN "decrypt" ELSE "encrypt"
           q == [p EXCEPT !.at = at, !.line = l]
<1>1. ProcessOK(p) /\ p.at = "chat" /\ DOMAIN p = Fields
  BY DEF Inv, Procs, ReadLine, ProcessOK
<1>2. proc' = [proc EXCEPT ![u] = q]
  BY DEF ReadLine, Inv, Procs
<1> HIDE DEF p
<1>3. /\ DOMAIN q = Fields /\ q.at = at /\ q.line = l /\ q.session = p.session /\ q.ids = p.ids
      /\ q.i = p.i /\ q.held = p.held /\ q.out = p.out
  BY <1>1 DEF Fields
<1> HIDE DEF q
<1>4. q.i = 0 /\ q.held = 0 /\ q.out = NoLine /\ Known(q.session, q.ids)
  BY <1>1, <1>3 DEF ProcessOK
<1>5. ProgressOK(q)
  <2>1. q.line.len \in Nat /\ q.out.len = 0 /\ q.out.hex = TRUE
    BY <1>3, <1>4 DEF CopiedOK, NoLine
  <2>2. Block \in Nat \ {0} /\ Chunk \in Nat \ {0}
    BY ChatAssumption
  <2>4. ~Short(0)
    BY <2>2 DEF Short
  <2>5. q.i \in Nat /\ q.i <= q.line.len /\ q.held \in 0 .. Block - 1 /\ q.out.len \in Nat
    BY <1>4, <2>1, <2>2
  <2>6. q.i = Block * 0 + q.held /\ q.out.len = 2 * (Block * 0) /\ q.i = Chunk * 0 /\ 0 \in 0 .. q.i
    BY <1>4, <2>1, <2>2
  <2>7. q.i = q.line.len => ~Short(q.line.len)
    BY <1>4, <2>4
  <2>8. QED
    BY <2>1, <2>5, <2>6, <2>7, Zenon DEF ProgressOK
<1>6. ProcessOK(q)
  BY <1>3, <1>4, <1>5 DEF ProcessOK
<1>7. Procs'
  BY <1>2, <1>6, OneProcess DEF Inv
<1>8. Lines' /\ Keys'
  BY DEF ReadLine, Inv, Lines, Keys
<1>9. QED
  BY <1>7, <1>8 DEF Inv

(* What is copied of a printed line. *)
LEMMA CopyOK ==
  ASSUME NEW l, PostedOK(l), NEW n \in Nat, n < l.len
  PROVE  CopiedOK([l EXCEPT !.len = @ - n])
<1> DEFINE c == [l EXCEPT !.len = @ - n]
<1>1. DOMAIN l = {"hex", "len", "says", "n", "key", "ids"}
  BY DEF PostedOK
<1>2. l.len \in Nat /\ l.hex \in BOOLEAN /\ l.n \in Nat /\ Known(l.key, l.ids)
  BY DEF PostedOK
<1>3. /\ c.len = l.len - n /\ c.hex = l.hex /\ c.n = l.n /\ c.key = l.key /\ c.ids = l.ids
  BY <1>1
<1> HIDE DEF c
<1>4. c.len \in Nat /\ c.len <= l.len
  BY <1>2, <1>3
<1>5. ASSUME c.hex PROVE \E j \in 0 .. c.n : Fills(c.n, j) /\ c.len <= 2 * (Block * j + Block)
  <2>1. PICK j \in 0 .. l.n : Fills(l.n, j) /\ l.len = 2 * (Block * j + Block)
    BY <1>3, <1>5 DEF PostedOK
  <2>2. QED
    BY <1>3, <1>4, <2>1
<1>6. CopiedOK(c)
  BY <1>2, <1>3, <1>4, <1>5 DEF CopiedOK
<1>7. QED
  BY <1>6 DEF c

LEMMA GiveInv ==
  ASSUME Inv, NEW u \in User, Give(u)
  PROVE  Inv'
<1>1. CASE TypeLine(u)
  <2>1. PICK l \in Typed : ReadLine(u, l)
    BY <1>1 DEF TypeLine
  <2>2. CopiedOK(l)
    <3>1. l \in [hex : BOOLEAN, len : Nat]
      BY ChatAssumption
    <3>2. ~Printed(l)
      BY <3>1 DEF Printed
    <3>3. QED
      BY <3>1, <3>2 DEF CopiedOK
  <2>3. QED
    BY <2>1, <2>2, ReadLineInv
<1>2. CASE PasteLine(u)
  <2>1. PICK l \in posted.lines : \E n \in Cuts : n < l.len /\ ReadLine(u, [l EXCEPT !.len = @ - n])
    BY <1>2 DEF PasteLine
  <2>2. PICK n \in Cuts : n < l.len /\ ReadLine(u, [l EXCEPT !.len = @ - n])
    BY <2>1
  <2>3. PostedOK(l) /\ n \in Nat
    BY ChatAssumption DEF Inv, Lines
  <2>4. CopiedOK([l EXCEPT !.len = @ - n])
    BY <2>2, <2>3, CopyOK
  <2>5. QED
    BY <2>2, <2>4, ReadLineInv
<1>3. QED
  BY <1>1, <1>2 DEF Give

LEMMA StopInv ==
  ASSUME Inv, NEW u \in User, Stop(u)
  PROVE  Inv'
<1>1. ProcessOK(Idle)
  BY DEF ProcessOK, Fields, Idle
<1>2. Procs'
  BY <1>1, OneProcess DEF Stop, Inv
<1>3. QED
  BY <1>2 DEF Stop, Inv, Lines, Keys

(* Back at the prompt. *)
LEMMA PromptedOK ==
  ASSUME NEW p, ProcessOK(p), p.at \in {"encrypt", "decrypt"}
  PROVE  ProcessOK(Prompted(p))
<1> DEFINE q == Prompted(p)
<1>1. DOMAIN p = Fields
  BY DEF ProcessOK
<1>2. /\ DOMAIN q = Fields /\ q.at = "chat" /\ q.session = p.session /\ q.ids = p.ids
      /\ q.i = 0 /\ q.held = 0 /\ q.out = NoLine
  BY <1>1 DEF Prompted, Fields
<1> HIDE DEF q
<1>3. ProcessOK(q)
  BY <1>2 DEF ProcessOK
<1>4. QED
  BY <1>3 DEF q
(* Another piece of the line: whole chunks first, then the rest. *)
LEMMA PieceProgress ==
  ASSUME NEW p, ProgressOK(p), p.line.len \in Nat, p.i < p.line.len,
         NEW q, q.line = p.line, q.i = p.i + Readin(p),
         q.held = p.held + Readin(p) - Encrypted(p.held, Readin(p)),
         q.out = HexOut(p.out, Encrypted(p.held, Readin(p)))
  PROVE  ProgressOK(q)
<1> DEFINE len == p.line.len
           n   == Readin(p)
           w   == Encrypted(p.held, n)
<1>1. Block \in Nat \ {0} /\ Chunk \in Nat \ {0}
  BY ChatAssumption
<1>2. PICK r \in Nat \ {0} : Chunk = Block * r
  BY ChunkBlocks
<1>3. PICK j \in 0 .. p.i : p.i = Block * j + p.held /\ (p.out.hex => p.out.len = 2 * (Block * j))
  BY Zenon DEF ProgressOK
<1>4. PICK k \in 0 .. p.i : p.i = Chunk * k
  BY DEF ProgressOK
<1>5. p.out.hex /\ p.out.hex \in BOOLEAN /\ p.out.len \in Nat
  BY Zenon DEF ProgressOK
<1>6. p.i \in Nat /\ p.held \in 0 .. Block - 1 /\ j \in Nat /\ k \in Nat /\ len \in Nat
  BY <1>3, <1>4 DEF ProgressOK
<1>7. p.out.len = 2 * (Block * j)
  BY <1>3, <1>5, Zenon
<1>8. p.held = 0 /\ p.i = Block * j
  <2>1. r * k \in Nat /\ p.i = Block * (r * k)
    BY <1>1, <1>2, <1>4, <1>6
  <2>2. Block * (r * k) <= p.i /\ p.i < Block * (r * k) + Block
    BY <1>1, <1>6, <2>1
  <2>3. Block * j <= p.i /\ p.i < Block * j + Block
    BY <1>1, <1>3, <1>6
  <2>4. r * k = j
    BY <1>1, <1>6, <2>1, <2>2, <2>3, SameFill
  <2>5. QED
    BY <1>1, <1>3, <1>6, <2>1, <2>4
<1>9. n = IF len - p.i > Chunk THEN Chunk ELSE len - p.i
  BY DEF Readin
<1>10. n \in Nat /\ n >= 1 /\ n <= Chunk /\ p.i + n <= len
  BY <1>1, <1>6, <1>9
<1> DEFINE d == n \div Block
<1>11. d \in Nat /\ Block * d <= n /\ n < Block * d + Block
  BY <1>1, <1>10, DivBounds
<1>12. w = Block * d
  BY <1>8, <1>10 DEF Encrypted
<1> HIDE DEF n, w, len
<1>13. q.i = p.i + n /\ q.held = n - w /\ q.out = HexOut(p.out, w) /\ q.line = p.line
  BY <1>8, <1>10, <1>11, <1>12, <1>1 DEF n, w
<1> HIDE DEF d
<1>14. w \in Nat /\ q.i \in Nat /\ q.i <= len /\ q.held \in 0 .. Block - 1
  BY <1>1, <1>6, <1>10, <1>11, <1>12, <1>13
<1>15. j + d \in 0 .. q.i /\ q.i = Block * (j + d) + q.held
  <2>1. q.i = Block * (j + d) + q.held
    BY <1>1, <1>6, <1>8, <1>11, <1>12, <1>13, <1>14, <1>10
  <2>2. j + d \in Nat /\ j + d <= Block * (j + d)
    BY <1>1, <1>6, <1>11
  <2>3. QED
    BY <1>14, <2>1, <2>2, <1>1
<1>16. CASE w = 0
  <2>1. q.out.hex = FALSE /\ q.out.len = p.out.len + 6
    BY <1>13, <1>16 DEF HexOut
  <2>2. n < Block /\ n < Chunk
    BY <1>1, <1>2, <1>10, <1>11, <1>12, <1>16
  <2>3. n = len - p.i /\ q.i = len
    BY <1>6, <1>9, <1>10, <1>13, <2>2
  <2>4. len % Chunk = n
    <3>1. len = Chunk * k + n /\ n \in 0 .. Chunk - 1
      BY <1>1, <1>4, <1>6, <1>10, <2>2, <2>3
    <3>2. (Chunk * k + n) % Chunk = n
      BY <1>1, <1>6, <3>1, ModOf
    <3>3. QED
      BY <3>1, <3>2
  <2>5. Short(len)
    BY <1>1, <1>10, <2>2, <2>4 DEF Short
  <2>6. q.out.len \in Nat
    BY <1>5, <2>1
  <2>7. ~(q.i < len)
    BY <1>6, <2>3
  <2>8. QED
    BY <1>13, <1>14, <1>15, <2>1, <2>5, <2>6, <2>7, Zenon DEF ProgressOK, len
<1>17. CASE w # 0
  <2>1. q.out.hex = TRUE /\ q.out.len = p.out.len + 2 * w
    <3>1. q.out = [hex |-> p.out.hex, len |-> p.out.len + 2 * w]
      BY <1>13, <1>17, Zenon DEF HexOut
    <3>2. p.out.hex = TRUE
      BY <1>5, Zenon
    <3>3. QED
      BY <3>1, <3>2
  <2>2. q.out.len = 2 * (Block * (j + d)) /\ q.out.len \in Nat
    BY <1>1, <1>6, <1>7, <1>11, <1>12, <2>1
  <2>3. ASSUME q.i < len PROVE \E m \in 0 .. q.i : q.i = Chunk * m
    <3>1. n = Chunk
      BY <1>6, <1>9, <1>10, <1>13, <2>3
    <3>2. k + 1 \in Nat /\ q.i = Chunk * (k + 1) /\ k + 1 <= Chunk * (k + 1)
      BY <1>1, <1>4, <1>6, <1>13, <3>1
    <3>3. k + 1 \in 0 .. q.i
      BY <1>14, <3>2
    <3>4. QED
      BY <3>2, <3>3
  <2>4. ASSUME q.i = len PROVE ~Short(len)
    <3>1. n >= Block
      BY <1>1, <1>10, <1>11, <1>12, <1>17
    <3>2. CASE n < Chunk
      <4>1. len = Chunk * k + n /\ n \in 0 .. Chunk - 1
        BY <1>1, <1>4, <1>6, <1>10, <1>13, <2>4, <3>2
      <4>2. (Chunk * k + n) % Chunk = n
        BY <1>1, <1>6, <4>1, ModOf
      <4>3. QED
        BY <1>1, <1>10, <3>1, <4>1, <4>2 DEF Short
    <3>3. CASE n = Chunk
      <4>1. k + 1 \in Nat /\ len = Chunk * (k + 1)
        BY <1>1, <1>4, <1>6, <1>13, <2>4, <3>3
      <4>2. len % Chunk = 0
        BY <1>1, <4>1, Multiple
      <4>3. QED
        BY <4>2 DEF Short
    <3>4. QED
      BY <1>1, <1>10, <3>2, <3>3
  <2>5. QED
    BY <1>13, <1>14, <1>15, <2>1, <2>2, <2>3, <2>4, Zenon DEF ProgressOK, len
<1>18. QED
  BY <1>16, <1>17

LEMMA EncryptUpdateInv ==
  ASSUME Inv, NEW u \in User, EncryptUpdate(u)
  PROVE  Inv'
<1> DEFINE p == proc[u]
           n == Readin(p)
           w == Encrypted(p.held, n)
           q == [p EXCEPT !.i = @ + n, !.held = p.held + n - w, !.out = HexOut(@, w)]
<1>1. ProcessOK(p) /\ p.at = "encrypt" /\ DOMAIN p = Fields /\ p.i < p.line.len
  BY DEF Inv, Procs, EncryptUpdate, ProcessOK
<1>2. proc' = [proc EXCEPT ![u] = q]
  BY DEF EncryptUpdate, Inv, Procs
<1> HIDE DEF p
<1>3. ProgressOK(p) /\ CopiedOK(p.line) /\ Known(p.session, p.ids)
  BY <1>1 DEF ProcessOK
<1> HIDE DEF n, w
<1>4. /\ DOMAIN q = Fields /\ q.at = p.at /\ q.line = p.line /\ q.session = p.session /\ q.ids = p.ids
      /\ q.i = p.i + n /\ q.held = p.held + n - w /\ q.out = HexOut(p.out, w)
  BY <1>1 DEF Fields
<1> HIDE DEF q
<1>5. ProgressOK(q)
  <2>1. p.line.len \in Nat
    BY <1>3 DEF CopiedOK
  <2>2. QED
    BY <1>1, <1>3, <1>4, <2>1, PieceProgress DEF n, w
<1>6. ProcessOK(q)
  BY <1>1, <1>3, <1>4, <1>5 DEF ProcessOK
<1>7. Procs'
  BY <1>2, <1>6, OneProcess DEF Inv
<1>8. Lines' /\ Keys'
  BY DEF EncryptUpdate, Inv, Lines, Keys
<1>9. QED
  BY <1>7, <1>8 DEF Inv
LEMMA EncryptFinishInv ==
  ASSUME Inv, NEW u \in User, EncryptFinish(u)
  PROVE  Inv'
<1> DEFINE p   == proc[u]
           out == HexOut(p.out, Block)
           l   == [hex |-> out.hex, len |-> out.len, says |-> p.line, n |-> p.i,
                   key |-> p.session, ids |-> p.ids]
<1>1. ProcessOK(p) /\ p.at = "encrypt" /\ p.i >= p.line.len
  BY DEF Inv, Procs, EncryptFinish
<1>2. proc' = [proc EXCEPT ![u] = Prompted(@)] /\ noted' = noted
      /\ posted' = [posted EXCEPT !.lines = @ \cup {l}]
  BY DEF EncryptFinish
<1>3. proc' = [proc EXCEPT ![u] = Prompted(p)]
  BY <1>2
<1> HIDE DEF p
<1>4. ProgressOK(p) /\ CopiedOK(p.line) /\ Known(p.session, p.ids)
  BY <1>1 DEF ProcessOK
<1>5. Block \in Nat \ {0} /\ p.line.len \in Nat /\ p.i \in Nat /\ p.i = p.line.len /\ p.held \in 0 .. Block - 1
  BY <1>1, <1>4, ChatAssumption DEF ProgressOK, CopiedOK
<1>6. p.out.hex \in BOOLEAN /\ p.out.len \in Nat /\ (p.out.hex <=> ~Short(p.line.len))
  BY <1>4, <1>5, Zenon DEF ProgressOK
<1>7. PICK j \in 0 .. p.i : p.i = Block * j + p.held /\ (p.out.hex => p.out.len = 2 * (Block * j))
  BY <1>4, Zenon DEF ProgressOK
<1>8. out = [hex |-> p.out.hex, len |-> p.out.len + 2 * Block]
  <2>1. Block # 0
    BY <1>5
  <2>2. QED
    BY <2>1, Zenon DEF HexOut
<1> HIDE DEF out
<1>9. out.hex = p.out.hex /\ out.len = p.out.len + 2 * Block
  BY <1>8
<1>10. PostedOK(l)
  <2>1. /\ l.hex = p.out.hex /\ l.len = p.out.len + 2 * Block /\ l.says = p.line /\ l.n = p.i
        /\ l.key = p.session /\ l.ids = p.ids
    BY <1>9
  <2>2. l = [hex |-> l.hex, len |-> l.len, says |-> l.says, n |-> l.n, key |-> l.key, ids |-> l.ids]
    BY Zenon
  <2> HIDE DEF l
  <2>3. l.len \in Nat /\ l.says.len \in Nat /\ l.n = l.says.len
    BY <1>5, <1>6, <2>1
  <2>4. l.hex \in BOOLEAN /\ (l.hex <=> ~Short(l.n)) /\ Known(l.key, l.ids)
    BY <1>4, <1>5, <1>6, <2>1, Zenon
  <2>5. Fills(l.n, j) /\ j \in 0 .. l.n
    BY <1>5, <1>7, <2>1 DEF Fills
  <2>6. p.out.len = 2 * (Block * j) => l.len = 2 * (Block * j + Block)
    BY <1>5, <1>6, <1>7, <2>1
  <2>7. l.hex => l.len = 2 * (Block * j + Block)
    BY <1>7, <2>1, <2>6, Zenon
  <2>8. QED
    BY <2>2, <2>3, <2>4, <2>5, <2>7, Zenon DEF PostedOK
<1> HIDE DEF l
<1>11. Procs'
  BY <1>1, <1>3, PromptedOK, OneProcess DEF Inv
<1>12. Lines' /\ Keys'
  BY <1>2, <1>10 DEF Inv, Lines, Keys
<1>13. QED
  BY <1>11, <1>12 DEF Inv

LEMMA DecryptInv ==
  ASSUME Inv, NEW u \in User, Decrypt(u)
  PROVE  Inv'
<1>1. ProcessOK(proc[u]) /\ proc[u].at = "decrypt" /\ proc' = [proc EXCEPT ![u] = Prompted(proc[u])]
  BY DEF Inv, Procs, Decrypt
<1>2. Procs'
  BY <1>1, PromptedOK, OneProcess DEF Inv
<1>3. QED
  BY <1>2 DEF Decrypt, Inv, Lines, Keys

LEMMA Invariance == Spec => []Inv
<1>1. ASSUME Inv, [Next]_vars PROVE Inv'
  <2>1. CASE UNCHANGED vars
    BY <1>1, <2>1 DEF vars, Inv, Procs, Lines, Keys
  <2>2. ASSUME NEW u \in User, Begin(u) \/ Give(u) \/ Stop(u) \/ Step(u) PROVE Inv'
    BY <1>1, <2>2, BeginInv, GiveInv, StopInv, EncryptUpdateInv, EncryptFinishInv, DecryptInv
       DEF Step, Encrypt
  <2>3. QED
    BY <1>1, <2>1, <2>2 DEF Next
<1>2. QED
  BY <1>1, InitInv, PTL DEF Spec

-----------------------------------------------------------------------------
(* What was printed for a line is taken for ciphertext again, unless a piece *)
(* of it was shorter than a block.                                            *)
THEOREM PrintedIsLegible == Spec => []Legible
<1>1. ASSUME Inv, NEW l \in posted.lines PROVE is_cipher_string(l) <=> l.says.len % Chunk \notin 1 .. Block - 1
  <2>1. PostedOK(l)
    BY <1>1 DEF Inv, Lines
  <2>2. l.hex \in BOOLEAN /\ (l.hex <=> ~Short(l.says.len))
    BY <2>1, Zenon DEF PostedOK
  <2>3. ASSUME l.hex PROVE l.len % (2 * Block) = 0
    <3>1. PICK j \in 0 .. l.n : l.len = 2 * (Block * j + Block)
      BY <2>1, <2>3 DEF PostedOK
    <3>2. Block \in Nat \ {0} /\ l.n \in Nat
      BY <2>1, ChatAssumption DEF PostedOK
    <3>3. 2 * Block \in Nat \ {0} /\ j + 1 \in Nat /\ l.len = (2 * Block) * (j + 1)
      BY <3>1, <3>2
    <3>4. QED
      BY <3>3, Multiple
  <2>4. QED
    BY <2>2, <2>3, Zenon DEF is_cipher_string, Short
<1>2. Inv => Legible
  BY <1>1 DEF Legible
<1>3. QED
  BY <1>2, Invariance, PTL
-----------------------------------------------------------------------------
(* The bytes of a line, as they are seen, and of none. *)
SeenFrom(l, iv, a, b) ==
  /\ Seen(l, iv, a, b) \in Seq(Nat) /\ Len(Seen(l, iv, a, b)) = b - a
  /\ \A i \in 1 .. b - a : Seen(l, iv, a, b)[i] = Seen(l, iv, 0, b)[a + i]

LEMMA SeenSeq ==
  ASSUME NEW l, NEW iv, NEW a \in Nat, NEW b \in Nat, a <= b
  PROVE  SeenFrom(l, iv, a, b)
<1> DEFINE spoilt(i) == i > l.n \/ (i <= Block /\ iv[i] # l.key.iv[i])
           sees(c) == [i \in 1 .. b - c |-> IF spoilt(c + i) THEN 0 ELSE c + i]
<1>1. Seen(l, iv, a, b) = sees(a) /\ Seen(l, iv, 0, b) = sees(0)
  BY DEF Seen
<1> HIDE DEF spoilt
<1>2. b - a \in Nat /\ b - 0 = b /\ \A i \in 1 .. b - a : a + i \in Nat /\ a + i \in 1 .. b /\ 0 + (a + i) = a + i
  OBVIOUS
<1>3. sees(a) \in [1 .. b - a -> Nat]
  BY <1>2
<1>4. sees(a) \in Seq(Nat)
  BY <1>2, <1>3, SeqDef
<1>5. \A i \in 1 .. b - a : sees(a)[i] = sees(0)[a + i]
  BY <1>2
<1>6. QED
  BY <1>1, <1>2, <1>4, <1>5, LenProperties DEF SeenFrom

(* One by one, from the front of the line. *)
LEMMA SeenOne ==
  ASSUME NEW l, NEW iv, NEW b \in Nat, NEW i \in 1 .. b
  PROVE  Seen(l, iv, 0, b)[i] =
           IF i > l.n \/ (i <= Block /\ iv[i] # l.key.iv[i]) THEN 0 ELSE i
<1> DEFINE spoilt(k) == k > l.n \/ (k <= Block /\ iv[k] # l.key.iv[k])
<1>1. Seen(l, iv, 0, b) = [k \in 1 .. b - 0 |-> IF spoilt(0 + k) THEN 0 ELSE 0 + k]
  BY DEF Seen
<1> HIDE DEF spoilt
<1>2. b - 0 = b /\ 0 + i = i
  OBVIOUS
<1>3. Seen(l, iv, 0, b)[i] = IF spoilt(i) THEN 0 ELSE i
  BY <1>1, <1>2
<1>4. QED
  BY <1>3 DEF spoilt

LEMMA SeenConcat ==
  ASSUME NEW l, NEW iv, NEW b \in Nat, NEW c \in Nat, b <= c
  PROVE  Seen(l, iv, 0, b) \o Seen(l, iv, b, c) = Seen(l, iv, 0, c)
<1> DEFINE x == Seen(l, iv, 0, b)
           y == Seen(l, iv, b, c)
           z == Seen(l, iv, 0, c)
<1>1. /\ x \in Seq(Nat) /\ Len(x) = b /\ z \in Seq(Nat) /\ Len(z) = c
      /\ y \in Seq(Nat) /\ Len(y) = c - b /\ \A i \in 1 .. c - b : y[i] = z[b + i]
  <2>1. b - 0 = b /\ c - 0 = c /\ 0 \in Nat /\ 0 <= b /\ 0 <= c
    OBVIOUS
  <2>2. x \in Seq(Nat) /\ Len(x) = b - 0 /\ z \in Seq(Nat) /\ Len(z) = c - 0
    <3>1. SeenFrom(l, iv, 0, b) /\ SeenFrom(l, iv, 0, c)
      BY <2>1, SeenSeq
    <3>2. QED
      BY <3>1, Zenon DEF SeenFrom
  <2>3. y \in Seq(Nat) /\ Len(y) = c - b /\ \A i \in 1 .. c - b : y[i] = z[b + i]
    <3>1. SeenFrom(l, iv, b, c)
      BY SeenSeq
    <3>2. QED
      BY <3>1, Zenon DEF SeenFrom
  <2>4. QED
    BY <2>1, <2>2, <2>3
<1>2. ASSUME NEW i \in 1 .. b PROVE x[i] = z[i]
  <2>1. i \in 1 .. c
    OBVIOUS
  <2> DEFINE byte == IF i > l.n \/ (i <= Block /\ iv[i] # l.key.iv[i]) THEN 0 ELSE i
  <2>2. x[i] = byte
    BY SeenOne
  <2>3. z[i] = byte
    BY <2>1, SeenOne
  <2>4. QED
    BY <2>2, <2>3
<1> HIDE DEF x, y, z
<1>4. /\ x \o y \in Seq(Nat) /\ Len(x \o y) = Len(x) + Len(y)
      /\ \A i \in 1 .. Len(x) + Len(y) : (x \o y)[i] = IF i <= Len(x) THEN x[i] ELSE y[i - Len(x)]
  BY <1>1, ConcatProperties
<1>5. Len(x \o y) = c
  BY <1>1, <1>4
<1>6. ASSUME NEW i \in 1 .. c PROVE (x \o y)[i] = z[i]
  <2>1. CASE i <= b
    <3>1. (x \o y)[i] = x[i] /\ i \in 1 .. b
      BY <1>1, <1>4, <2>1
    <3>2. QED
      BY <1>2, <3>1
  <2>2. CASE ~(i <= b)
    <3>1. i - b \in 1 .. c - b /\ b + (i - b) = i
      BY <2>2
    <3>2. y[i - b] = z[i]
      BY <1>1, <3>1
    <3>3. (x \o y)[i] = y[i - Len(x)] /\ Len(x) = b
      <4>1. Len(x) = b /\ i \in 1 .. Len(x) + Len(y) /\ ~(i <= Len(x))
        BY <1>1, <2>2
      <4>2. QED
        BY <1>4, <4>1, Zenon
    <3>5. QED
      BY <3>2, <3>3
  <2>3. QED
    BY <2>1, <2>2
<1>7. x \o y = z
  BY <1>1, <1>4, <1>5, <1>6, SeqEqual
<1>8. QED
  BY <1>7 DEF x, y, z

LEMMA GarbageSeq ==
  ASSUME NEW n \in Nat
  PROVE  Garbage(n) \in Seq({0})
<1>1. Garbage(n) \in [1 .. n -> {0}]
  BY DEF Garbage
<1>2. QED
  BY <1>1, SeqDef

(* What NothingForeign allows. *)
InPlace(own, t) == \A i \in DOMAIN t : t[i] = i \/ (~own /\ t[i] = 0 /\ i <= Block)
Clean(own, s) ==
  LET half == SubSeq(s, 1, Len(s) \div 2)
  IN  \/ InPlace(own, s)
      \/ InPlace(own, half) /\ s = half \o half
      \/ ~own /\ \A i \in DOMAIN s : s[i] = 0

LEMMA ZerosClean ==
  ASSUME NEW s \in Seq({0}) PROVE Clean(FALSE, s)
<1>1. \A i \in DOMAIN s : s[i] = 0
  BY LenProperties, ElementOfSeq
<1>2. QED
  BY <1>1 DEF Clean

(* A beginning of the line, or of its first block. *)
LEMMA SeenInPlace ==
  ASSUME NEW own \in BOOLEAN, NEW l, NEW iv, NEW n \in Nat, l.n \in Nat, Block \in Nat,
         n <= l.n \/ (~own /\ n <= Block), own => iv = l.key.iv
  PROVE  InPlace(own, Seen(l, iv, 0, n))
<1> DEFINE s == Seen(l, iv, 0, n)
<1>1. DOMAIN s = 1 .. n
  <2>1. 0 \in Nat /\ 0 <= n /\ n - 0 = n
    OBVIOUS
  <2>3. s \in Seq(Nat) /\ Len(s) = n - 0
    <3>1. SeenFrom(l, iv, 0, n)
      BY <2>1, SeenSeq
    <3>2. QED
      BY <3>1, Zenon DEF SeenFrom
  <2>2. QED
    BY <2>1, <2>3, LenProperties
<1>2. ASSUME NEW i \in 1 .. n PROVE s[i] = i \/ (~own /\ s[i] = 0 /\ i <= Block)
  <2>1. s[i] = IF i > l.n \/ (i <= Block /\ iv[i] # l.key.iv[i]) THEN 0 ELSE i
    BY SeenOne
  <2>2. i > l.n => ~own /\ i <= Block
    OBVIOUS
  <2>3. iv[i] # l.key.iv[i] => ~own
    OBVIOUS
  <2> HIDE DEF s
  <2>4. QED
    BY <2>1, <2>2, <2>3
<1> HIDE DEF s
<1>3. InPlace(own, s)
  BY <1>1, <1>2 DEF InPlace
<1>4. QED
  BY <1>3 DEF s

LEMMA TwiceClean ==
  ASSUME NEW own \in BOOLEAN, NEW x \in Seq(Nat), InPlace(own, x) PROVE Clean(own, x \o x)
<1> DEFINE s == x \o x
           n == Len(x)
<1>1. n \in Nat
  BY LenProperties
<1>2. /\ s \in Seq(Nat) /\ Len(s) = Len(x) + Len(x)
      /\ \A i \in 1 .. Len(x) + Len(x) : s[i] = IF i <= Len(x) THEN x[i] ELSE x[i - Len(x)]
  BY ConcatProperties
<1> HIDE DEF s, n
<1>3. Len(s) = 2 * n /\ Len(s) \div 2 = n /\ \A i \in 1 .. n : s[i] = x[i]
  BY <1>1, <1>2 DEF n
<1> DEFINE half == SubSeq(s, 1, n)
<1>4. half = x
  <2>1. \A i \in 1 .. n : s[i] \in Nat
    <3>1. \A i \in 1 .. n : i \in 1 .. Len(s)
      BY <1>1, <1>3
    <3>2. QED
      BY <1>2, <3>1, ElementOfSeq
  <2>2. /\ half \in Seq(Nat) /\ Len(half) = (IF 1 <= n THEN n - 1 + 1 ELSE 0)
        /\ \A i \in 1 .. n - 1 + 1 : half[i] = s[1 + i - 1]
    BY <1>1, <2>1, SubSeqProperties
  <2> HIDE DEF half
  <2>3. Len(half) = n /\ \A i \in 1 .. n : half[i] = s[i]
    BY <1>1, <2>2
  <2>4. \A i \in 1 .. n : half[i] = x[i]
    BY <1>3, <2>3
  <2>5. QED
    BY <2>2, <2>3, <2>4, SeqEqual DEF n
<1>5. SubSeq(s, 1, Len(s) \div 2) = x
  BY <1>3, <1>4
<1>6. Clean(own, s)
  BY <1>5 DEF Clean, s
<1>7. QED
  BY <1>6 DEF s

(* In its own session a line is seen as it is. *)
LEMMA SeenWhole ==
  ASSUME NEW l, NEW n \in Nat, n = l.n
  PROVE  Seen(l, l.key.iv, 0, n) = Upto(0, n)
<1> DEFINE x == Seen(l, l.key.iv, 0, n)
<1>1. x = [i \in 1 .. n |-> i] /\ Upto(0, n) = [i \in 1 .. n |-> i]
  <2>1. n - 0 = n /\ \A i \in 1 .. n : 0 + i = i /\ ~(i > n)
    OBVIOUS
  <2>2. Upto(0, n) = [i \in 1 .. n |-> i]
    BY <2>1 DEF Upto
  <2>3. x = [i \in 1 .. n |-> i]
    BY <2>1 DEF Seen
  <2>4. QED
    BY <2>2, <2>3
<1>2. QED
  BY <1>1

-----------------------------------------------------------------------------
(* What a ciphertext with B blocks is read as. *)
LEMMA Deciphered ==
  ASSUME NEW l, CopiedOK(l), is_cipher_string(l), NEW session, NEW s \in DecryptOutcomes(l, session),
         NEW own \in BOOLEAN, own => Printed(l) /\ l.key = session
  PROVE  /\ Clean(own, s)
         /\ PostedOK(l) /\ l.key = session => s = Upto(0, l.says.len)
<1> DEFINE B == Blocks(l)
           m == Decrypted(Block * B)
           mine == Printed(l) /\ l.key.key = session.key
           ended == m + Block > l.n /\ (m > 0 \/ l.key.iv = session.iv)
           upTo(b) == Seen(l, session.iv, 0, b)
           from(b) == Seen(l, session.iv, m, b)
<1>1. Block \in Nat \ {0} /\ l.len \in Nat /\ l.hex
  BY ChatAssumption DEF CopiedOK, is_cipher_string
<1>2. B \in Nat /\ l.len = 2 * (Block * B)
  <2>1. 2 * Block \in Nat \ {0} /\ l.len % (2 * Block) = 0
    BY <1>1 DEF is_cipher_string
  <2>2. B \in Nat /\ l.len = (2 * Block) * B
    BY <1>1, <2>1, MultipleOf DEF Blocks
  <2>3. QED
    BY <1>1, <2>2
<1> HIDE DEF B
<1>3. m \in Nat /\ (B # 0 => m = Block * (B - 1)) /\ (B = 0 => m = 0)
  <2>1. CASE B = 0
    BY <1>1, <2>1 DEF Decrypted
  <2>2. CASE B # 0
    <3>1. Block * B # 0 /\ B \in Nat \ {0}
      BY <1>1, <1>2, <2>2
    <3>2. (Block * B - 1) \div Block = B - 1
      BY <1>1, <3>1, NoneLess
    <3>3. m = Block * (B - 1)
      BY <3>1, <3>2 DEF Decrypted
    <3>4. QED
      BY <1>1, <2>2, <3>1, <3>3
  <2>3. QED
    BY <2>1, <2>2
<1>4. s \in IF ~mine THEN {PlainOut(Garbage(m), <<>>, FALSE)}
                         \cup {PlainOut(Garbage(m), Garbage(r), TRUE) : r \in 0 .. Block - 1}
           ELSE IF ended THEN {PlainOut(upTo(m), from(l.n), TRUE)}
           ELSE {PlainOut(upTo(m), <<>>, FALSE)}
                  \cup {PlainOut(upTo(m), from(m + r), TRUE) : r \in 0 .. Block - 1}
  BY Zenon DEF DecryptOutcomes, B
<1> HIDE DEF m
<1>5. \A x, y : PlainOut(x, y, TRUE) = x \o y /\ PlainOut(x, y, FALSE) = x \o x
  BY DEF PlainOut
<1>6. CASE ~mine
  <2>1. PICK r \in 0 .. Block - 1 : s = Garbage(m) \o Garbage(m) \/ s = Garbage(m) \o Garbage(r)
    <3>1. 0 \in 0 .. Block - 1
      BY <1>1
    <3>2. \/ s = PlainOut(Garbage(m), <<>>, FALSE)
          \/ \E r \in 0 .. Block - 1 : s = PlainOut(Garbage(m), Garbage(r), TRUE)
      BY <1>4, <1>6
    <3>3. QED
      BY <1>5, <3>1, <3>2
  <2>2. r \in Nat
    BY <1>1
  <2>3. s \in Seq({0})
    BY <1>3, <2>1, <2>2, GarbageSeq, ConcatProperties
  <2>4. (PostedOK(l) => Printed(l)) /\ ~own
    BY <1>6 DEF PostedOK, Printed
  <2>5. own = FALSE
    BY <2>4
  <2>6. QED
    BY <1>6, <2>3, <2>4, <2>5, ZerosClean
<1>7. CASE mine
  <2>1. PICK j \in 0 .. l.n : Fills(l.n, j) /\ l.len <= 2 * (Block * j + Block)
    BY <1>1, <1>7 DEF CopiedOK
  <2>2. l.n \in Nat /\ j \in Nat /\ Block * j <= l.n /\ l.n < Block * j + Block
    BY <1>7, <2>1 DEF CopiedOK, Fills
  <2>3. m <= l.n
    <3>1. CASE B = 0
      BY <1>3, <2>2, <3>1
    <3>2. CASE B # 0
      <4>1. Block * B <= Block * j + Block
        BY <1>1, <1>2, <2>1, <2>2
      <4>2. Block * (B - 1) = Block * B - Block
        BY <1>1, <1>2
      <4>3. QED
        BY <1>1, <1>2, <1>3, <2>2, <3>2, <4>1, <4>2
    <3>3. QED
      BY <3>1, <3>2
  <2>7. own => session.iv = l.key.iv
    OBVIOUS
  <2>8. PostedOK(l) => m + Block > l.n
    <3>1. SUFFICES ASSUME PostedOK(l) PROVE m + Block > l.n
      OBVIOUS
    <3>2. PICK i \in 0 .. l.n : Fills(l.n, i) /\ l.len = 2 * (Block * i + Block)
      BY <1>1, <3>1 DEF PostedOK
    <3>3. i \in Nat /\ Block * B = Block * i + Block /\ l.n < Block * i + Block
      BY <1>1, <1>2, <2>2, <3>2 DEF Fills
    <3>4. B # 0 /\ Block * (B - 1) + Block = Block * i + Block
      BY <1>1, <1>2, <3>3
    <3>5. QED
      BY <1>1, <1>3, <2>2, <3>3, <3>4
  <2>4. CASE ended
    <3>1. s = upTo(m) \o from(l.n)
      BY <1>4, <1>5, <1>7, <2>4
    <3>2. s = upTo(l.n)
      BY <1>3, <2>2, <2>3, <3>1, SeenConcat
    <3>3. InPlace(own, s)
      BY <1>1, <2>2, <2>7, <3>2, SeenInPlace
    <3>4. ASSUME PostedOK(l), l.key = session PROVE s = Upto(0, l.says.len)
      <4>1. l.n = l.says.len
        BY <3>4 DEF PostedOK
      <4>2. Seen(l, l.key.iv, 0, l.n) = Upto(0, l.n)
        BY <2>2, SeenWhole
      <4>3. QED
        BY <3>2, <3>4, <4>1, <4>2
    <3>5. QED
      BY <3>3, <3>4 DEF Clean
  <2>5. CASE ~ended
    <3>1. \/ s = upTo(m) \o upTo(m)
          \/ \E r \in 0 .. Block - 1 : s = upTo(m) \o from(m + r)
      BY <1>4, <1>5, <1>7, <2>5
    <3>2. ASSUME s = upTo(m) \o upTo(m) PROVE Clean(own, s)
      <4>1. InPlace(own, upTo(m))
        BY <1>1, <1>3, <2>2, <2>3, <2>7, SeenInPlace
      <4>2. upTo(m) \in Seq(Nat)
        <5>1. 0 \in Nat /\ 0 <= m
          BY <1>3
        <5>2. QED
          BY <1>3, <5>1, SeenSeq, Zenon DEF SeenFrom
      <4>3. Clean(own, upTo(m) \o upTo(m))
        <5> HIDE DEF upTo
        <5>1. QED
          BY <4>1, <4>2, TwiceClean
      <4>4. QED
        BY <3>2, <4>3
    <3>3. ASSUME \E r \in 0 .. Block - 1 : s = upTo(m) \o from(m + r) PROVE Clean(own, s)
      <4>1. PICK r \in 0 .. Block - 1 : s = upTo(m) \o from(m + r)
        BY <3>3
      <4>2. m + r \in Nat /\ m <= m + r
        BY <1>1, <1>3
      <4>3. s = upTo(m + r)
        BY <1>3, <4>1, <4>2, SeenConcat
      <4>4. m + r <= l.n \/ (~own /\ m + r <= Block)
        <5>1. own => m + Block <= l.n
          BY <1>1, <1>3, <2>2, <2>5, <2>7
        <5>2. m + Block <= l.n \/ m = 0
          BY <1>1, <1>3, <2>2, <2>5
        <5>3. QED
          BY <1>1, <1>3, <2>2, <5>1, <5>2
      <4>5. InPlace(own, s)
        BY <1>1, <2>2, <2>7, <4>2, <4>3, <4>4, SeenInPlace
      <4>6. QED
        BY <4>5, Zenon DEF Clean
    <3>4. ~(PostedOK(l) /\ l.key = session)
      BY <2>5, <2>8
    <3>5. QED
      BY <3>1, <3>2, <3>3, <3>4
  <2>6. QED
    BY <2>4, <2>5
<1>8. QED
  BY <1>6, <1>7
(* A decryption shows nothing that the two properties do not allow. *)
LEMMA DecryptShows ==
  ASSUME Inv, NEW u \in User, Decrypt(u)
  PROVE  Understood' /\ NothingForeign'
<1> DEFINE p == proc[u]
<1>1. ProcessOK(p) /\ p.at = "decrypt" /\ posted' = posted
  BY DEF Inv, Procs, Decrypt
<1>2. PICK s \in DecryptOutcomes(p.line, p.session) :
        shown' = [line |-> p.line, ids |-> p.ids, chars |-> s]
  BY DEF Decrypt
<1> HIDE DEF p
<1>3. CopiedOK(p.line) /\ is_cipher_string(p.line) /\ Known(p.session, p.ids)
  BY <1>1 DEF ProcessOK
<1> DEFINE own == Printed(p.line) /\ p.line.ids \cap p.ids # {}
<1>9. own => p.line.key = p.session
  BY <1>3 DEF CopiedOK, Known
<1>4. Clean(own, s) /\ (PostedOK(p.line) /\ p.line.key = p.session => s = Upto(0, p.line.says.len))
  <2>1. own \in BOOLEAN
    OBVIOUS
  <2>2. own => Printed(p.line) /\ p.line.key = p.session
    BY <1>9
  <2> HIDE DEF own
  <2>3. QED
    BY <1>2, <1>3, <2>1, <2>2, Deciphered
<1>5. shown'.line = p.line /\ shown'.ids = p.ids /\ shown'.chars = s
  BY <1>2
<1>6. Understood'
  <2>1. SUFFICES ASSUME p.line \in posted.lines, p.line.ids \cap p.ids # {}
                 PROVE  s = Upto(0, p.line.says.len)
    BY <1>1, <1>5 DEF Understood
  <2>2. PostedOK(p.line)
    BY <2>1 DEF Inv, Lines
  <2>3. p.line.key = p.session
    BY <1>3, <2>1, <2>2 DEF PostedOK, Known
  <2>4. QED
    BY <1>4, <2>2, <2>3
<1>7. NothingForeign'
  BY <1>4, <1>5 DEF NothingForeign, Clean, InPlace
<1>8. QED
  BY <1>6, <1>7

LEMMA NothingShown ==
  Understood /\ NothingForeign /\ Inv /\ [Next]_vars => Understood' /\ NothingForeign'
<1> SUFFICES ASSUME Understood, NothingForeign, Inv, [Next]_vars PROVE Understood' /\ NothingForeign'
  OBVIOUS
<1>1. CASE UNCHANGED vars
  BY <1>1 DEF vars, Understood, NothingForeign
<1>2. ASSUME NEW u \in User, Decrypt(u) PROVE Understood' /\ NothingForeign'
  BY <1>2, DecryptShows
<1>3. CASE shown' = Nothing
  <2>1. shown'.ids = {} /\ shown'.chars = <<>>
    BY <1>3 DEF Nothing
  <2>2. DOMAIN <<>> = {}
    OBVIOUS
  <2>3. QED
    BY <2>1, <2>2 DEF Understood, NothingForeign
<1>4. QED
  BY <1>1, <1>2, <1>3 DEF Next, Step

LEMMA NothingAtFirst == Init => Understood /\ NothingForeign
<1> SUFFICES ASSUME Init PROVE Understood /\ NothingForeign
  OBVIOUS
<1>1. shown.ids = {} /\ shown.chars = <<>> /\ DOMAIN <<>> = {}
  BY DEF Init, Nothing
<1>2. QED
  BY <1>1 DEF Understood, NothingForeign

(* What is typed on one side is read on the other, whenever and however often *)
(* it is pasted, in any session that was started or restored from the same    *)
(* keys, PSK or KEY.                                                           *)
THEOREM LinesAreUnderstood == Spec => []Understood
  BY Invariance, NothingShown, NothingAtFirst, PTL DEF Spec

(* Lost ends, KEYs typed wrong and other people's lines never show a byte of *)
(* another place, and garbage only in the first block if the key is right.    *)
THEOREM NothingElseIsShown == Spec => []NothingForeign
  BY Invariance, NothingShown, NothingAtFirst, PTL DEF Spec
=============================================================================
