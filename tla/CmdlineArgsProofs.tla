-------------------------- MODULE CmdlineArgsProofs --------------------------
(***************************************************************************)
(* Theorems about CmdlineArgs, for every line and every set of characters: *)
(* the call stays inside its buffer and its table, whatever lines came     *)
(* before, argv is terminated, and the arguments are those the line means. *)
(***************************************************************************)
EXTENDS CmdlineArgs, Induction

(* While a call runs nothing is returned yet; the pointers of the arguments *)
(* found so far are inside the line, and one more cell of the table is free *)
(* for NULL.                                                                *)
TableFits ==
  pc # "idle" =>
    /\ retArgc = 0
    /\ argCount > 0 => argCount < argTableSize
    /\ \A i \in 0 .. argCount - 1 : argTable[i] \in 0 .. End
    /\ pc \notin {"lead", "next"} => argument <= End

Inv == TypeOK /\ InPlace /\ TableFits /\ ArgvTerminated

(* A '\0' cannot be where the scan still finds a character. *)
LEMMA BeforeEnd ==
  ASSUME TypeOK, InPlace, pc # "idle", strings[cp] # Nul
  PROVE  cp < End /\ cp \in 0 .. stringsLength - 1 /\ cp + 1 <= End
  <1>1. cp \in Nat /\ End \in Nat /\ stringsLength \in Nat BY DEF TypeOK, End
  <1>2. cp <= End /\ End < stringsLength /\ cp # End BY DEF InPlace
  <1> QED BY <1>1, <1>2

LEMMA InitInv == Init => Inv
  <1> SUFFICES ASSUME Init PROVE Inv OBVIOUS
  <1> USE DEF Init
  <1>1. TypeOK
    <2>1. strings \in [0 .. stringsLength - 1 -> Char] BY CharAssumption
    <2>2. argTable \in [0 .. argTableSize - 1 -> Nat \cup {NoPtr, Junk}] OBVIOUS
    <2>3. line.text \in Seq(Char \ {Nul}) OBVIOUS
    <2> QED BY <2>1, <2>2, <2>3 DEF TypeOK
  <1>2. InPlace /\ TableFits /\ ArgvTerminated BY DEF InPlace, TableFits, ArgvTerminated
  <1> QED BY <1>1, <1>2 DEF Inv

LEMMA CallInv ==
  ASSUME Inv, NEW l \in Lines, Call(l) PROVE Inv'
  <1> USE DEF Inv
  <1>1. l.text \in Seq(Char \ {Nul}) /\ Len(l.text) \in Nat /\ End' = Len(l.text) /\ line' = l
    BY LineAssumption DEF Call, End
  <1>2. CASE ret' = 0 /\ error' = "memory" /\ UNCHANGED <<buffer, pc, cp>>
    <2>1. TypeOK' BY <1>1, <1>2 DEF TypeOK, Call, buffer
    <2>2. InPlace' /\ TableFits' /\ ArgvTerminated'
      BY <1>2 DEF InPlace, TableFits, ArgvTerminated, Call, buffer
    <2> QED BY <2>1, <2>2
  <1>3. CASE /\ stringsLength' = IF Len(l.text) + 1 > stringsLength
                                 THEN Len(l.text) + 1 ELSE stringsLength
             /\ strings' = Copied(l.text, stringsLength')
             /\ pc' = "lead" /\ cp' = 0 /\ error' = "none"
             /\ UNCHANGED ret
    <2>1. stringsLength' \in Nat /\ Len(l.text) < stringsLength'
      BY <1>1, <1>3 DEF TypeOK
    <2>2. strings' \in [0 .. stringsLength' - 1 -> Char]
      <3>1. \A i \in 0 .. stringsLength' - 1 : Copied(l.text, stringsLength')[i] \in Char
        <4> TAKE i \in 0 .. stringsLength' - 1
        <4>1. CASE i < Len(l.text)
          <5>1. l.text[i + 1] \in Char BY <4>1, <1>1, <2>1
          <5> QED BY <5>1, <4>1, <2>1 DEF Copied
        <4>2. CASE i = Len(l.text) BY <4>2, <2>1, CharAssumption DEF Copied
        <4>3. CASE i > Len(l.text)
          <5>1. i \in 0 .. stringsLength - 1 BY <4>3, <1>1, <1>3, <2>1 DEF TypeOK
          <5>2. strings[i] \in Char BY <5>1 DEF TypeOK
          <5> QED BY <5>2, <4>3, <1>1, <2>1 DEF Copied
        <4> QED BY <4>1, <4>2, <4>3, <1>1, <2>1
      <3> QED BY <3>1, <1>3 DEF Copied
    <2>3. strings'[Len(l.text)] = Nul BY <1>1, <1>3, <2>1 DEF Copied
    <2>4. TypeOK' BY <1>1, <1>3, <2>1, <2>2 DEF TypeOK, Call
    <2>5. InPlace' BY <1>1, <1>3, <2>1, <2>3 DEF InPlace
    <2>6. TableFits' /\ ArgvTerminated'
      <3>1. argCount' = 0 /\ retArgc' = 0 BY DEF Call
      <3>2. pc' = "lead" BY <1>3
      <3> QED BY <3>1, <3>2 DEF TableFits, ArgvTerminated
    <2> QED BY <2>4, <2>5, <2>6
  <1> QED BY <1>2, <1>3 DEF Call

(* A call that gives up leaves nothing to be returned. *)
LEMMA FailInv ==
  ASSUME Inv, pc # "idle", NEW e \in {"memory", "quoting"}, Fail(e),
         UNCHANGED <<buffer, table, line>>
  PROVE  Inv'
  <1> USE DEF Inv, Fail, Leave, buffer, table
  <1>1. TypeOK' BY DEF TypeOK
  <1>2. InPlace' /\ TableFits' BY DEF InPlace, TableFits
  <1>3. ArgvTerminated' BY DEF TableFits, ArgvTerminated
  <1> QED BY <1>1, <1>2, <1>3

(* A step that only looks at the buffer, and moves on or not. *)
LEMMA LookInv ==
  ASSUME Inv, pc # "idle", UNCHANGED <<buffer, table, line, result>>,
         pc' \in {"lead", "next", "char", "close", "trail", "add"},
         cp' \in Nat, cpOut' \in Nat, argument' \in Nat, quote' \in Quotation \cup {Nul},
         cp' <= End, argument' <= End \/ pc' \in {"lead", "next"},
         pc' \in {"char", "close"} => argument' <= cpOut' /\ cpOut' <= cp'
  PROVE  Inv'
  <1> USE DEF Inv, buffer, table, result
  <1>1. TypeOK' BY DEF TypeOK
  <1>2. End' = End BY DEF End
  <1>3. InPlace' BY <1>2 DEF InPlace
  <1>4. TableFits' BY <1>2 DEF TableFits
  <1>5. ArgvTerminated' BY DEF ArgvTerminated
  <1> QED BY <1>1, <1>3, <1>4, <1>5

(* The same, for a step that also writes a character before the '\0'. *)
LEMMA PatchInv ==
  ASSUME Inv, pc # "idle", UNCHANGED <<stringsLength, table, line, result>>,
         NEW k \in 0 .. stringsLength - 1, NEW ch \in Char,
         strings' = [strings EXCEPT ![k] = ch], k < End \/ ch = Nul,
         pc' \in {"lead", "next", "char", "close", "trail", "add"},
         cp' \in Nat, cpOut' \in Nat, argument' \in Nat, quote' \in Quotation \cup {Nul},
         cp' <= End, argument' <= End \/ pc' \in {"lead", "next"},
         pc' \in {"char", "close"} => argument' <= cpOut' /\ cpOut' <= cp'
  PROVE  Inv'
  <1> USE DEF Inv, table, result
  <1>1. TypeOK' BY DEF TypeOK
  <1>2. End' = End /\ End \in Nat BY DEF End, TypeOK
  <1>3. strings'[End] = Nul
    <2>1. End \in 0 .. stringsLength - 1 BY <1>2 DEF InPlace, TypeOK
    <2> QED BY <2>1, <1>2 DEF InPlace, TypeOK
  <1>4. InPlace' BY <1>2, <1>3 DEF InPlace
  <1>5. TableFits' BY <1>2 DEF TableFits
  <1>6. ArgvTerminated' BY DEF ArgvTerminated
  <1> QED BY <1>1, <1>4, <1>5, <1>6

(* Each action keeps the invariant: those outside the inner loop, then its turns. *)
LEMMA SkipBlankInv == ASSUME Inv, SkipBlank PROVE Inv'
  <1> USE DEF Inv
  <1>1. pc \in {"lead", "trail"} /\ pc # "idle" BY DEF SkipBlank
  <1>2. CASE strings[cp] \in Blank
    <2>1. strings[cp] # Nul BY <1>2, CharAssumption
    <2>2. cp < End /\ cp \in 0 .. stringsLength - 1 /\ cp + 1 <= End BY <2>1, <1>1, BeforeEnd
    <2>3. strings' = [strings EXCEPT ![cp] = Nul] /\ cp' = cp + 1 /\ pc' = pc
      BY <1>2 DEF SkipBlank
    <2>4. UNCHANGED <<stringsLength, table, line, result>> /\ UNCHANGED <<cpOut, argument, quote>>
      BY DEF SkipBlank
    <2>5. argument' <= End \/ pc' \in {"lead", "next"} BY <1>1, <2>3, <2>4 DEF TableFits
    <2>6. cp' \in Nat /\ cpOut' \in Nat /\ argument' \in Nat /\ quote' \in Quotation \cup {Nul}
      BY <2>3, <2>4 DEF TypeOK
    <2> QED BY <1>1, <2>2, <2>3, <2>4, <2>5, <2>6, CharAssumption, PatchInv
  <1>3. CASE strings[cp] \notin Blank
    <2>1. pc' \in {"next", "add"} /\ (pc = "lead" => pc' = "next") BY <1>1, <1>3 DEF SkipBlank
    <2>2. UNCHANGED <<buffer, table, line, result>> /\ UNCHANGED <<cp, cpOut, argument, quote>>
      BY <1>3 DEF SkipBlank, buffer
    <2>3. cp' <= End BY <1>1, <2>2 DEF InPlace
    <2>4. argument' <= End \/ pc' \in {"lead", "next"} BY <1>1, <2>1, <2>2 DEF TableFits
    <2>5. cp' \in Nat /\ cpOut' \in Nat /\ argument' \in Nat /\ quote' \in Quotation \cup {Nul}
      BY <2>2 DEF TypeOK
    <2> QED BY <1>1, <2>1, <2>2, <2>3, <2>4, <2>5, LookInv
  <1> QED BY <1>2, <1>3

LEMMA NextArgumentInv == ASSUME Inv, NextArgument PROVE Inv'
  <1> USE DEF Inv
  <1>1. pc = "next" /\ strings[cp] # Nul /\ pc' = "char" BY DEF NextArgument
  <1>2. cp < End BY <1>1, BeforeEnd
  <1>3. UNCHANGED <<buffer, table, line, result>> BY DEF NextArgument
  <1>4. cp' = cp /\ cpOut' = cp /\ argument' = cp /\ quote' = Nul BY DEF NextArgument
  <1>5. cp \in Nat /\ End \in Nat BY DEF TypeOK, End
  <1> QED BY <1>1, <1>2, <1>3, <1>4, <1>5, LookInv

(* The turns of the inner loop that store nothing. *)
LEMMA QuietInv == ASSUME Inv, EndOfLine \/ Separator \/ CloseQuote \/ OpenQuote PROVE Inv'
  <1> USE DEF Inv
  <1>1. pc = "char" /\ pc' \in {"char", "close"}
    BY DEF EndOfLine, Separator, CloseQuote, OpenQuote
  <1>2. UNCHANGED <<buffer, table, line, result>> /\ UNCHANGED <<cpOut, argument>>
    BY DEF EndOfLine, Separator, CloseQuote, OpenQuote, scan
  <1>3. cp \in Nat /\ cpOut \in Nat /\ argument \in Nat /\ End \in Nat BY DEF TypeOK, End
  <1>4. argument <= cpOut /\ cpOut <= cp /\ cp <= End /\ argument <= End
    BY <1>1, <1>3 DEF InPlace
  <1>5. cp' = cp \/ (cp' = cp + 1 /\ cp + 1 <= End)
    <2>1. CASE EndOfLine BY <2>1 DEF EndOfLine, scan
    <2>2. CASE Separator \/ CloseQuote \/ OpenQuote
      <3>1. strings[cp] # Nul
        BY <2>2, CharAssumption DEF Separator, CloseQuote, OpenQuote, Ordinary
      <3> QED BY <3>1, <2>2, <1>1, BeforeEnd DEF Separator, CloseQuote, OpenQuote
    <2> QED BY <2>1, <2>2
  <1>6. quote' \in Quotation \cup {Nul}
    BY DEF EndOfLine, Separator, CloseQuote, OpenQuote, scan, TypeOK
  <1> QED BY <1>1, <1>2, <1>3, <1>4, <1>5, <1>6, LookInv

(* Those that store a character: it goes where the reading has already been. *)
LEMMA PutInv ==
  ASSUME Inv, pc = "char", NEW ch \in Char, NEW n \in {1, 2}, Put(ch, n), cp + n <= End,
         UNCHANGED <<stringsLength, table, line>>
  PROVE  Inv'
  <1> USE DEF Inv
  <1>1. cp \in Nat /\ cpOut \in Nat /\ argument \in Nat /\ End \in Nat /\ stringsLength \in Nat
    BY DEF TypeOK, End
  <1>2. argument <= cpOut /\ cpOut <= cp /\ cp <= End /\ End < stringsLength BY DEF InPlace
  <1>3. cpOut \in 0 .. stringsLength - 1 /\ cpOut < End BY <1>1, <1>2
  <1>4. /\ strings' = [strings EXCEPT ![cpOut] = ch] /\ cpOut' = cpOut + 1 /\ cp' = cp + n
        /\ UNCHANGED <<pc, argument, quote, result>>
    BY DEF Put
  <1>5. quote' \in Quotation \cup {Nul} BY <1>4 DEF TypeOK
  <1>6. pc # "idle" /\ pc' \in {"lead", "next", "char", "close", "trail", "add"} BY <1>4
  <1>7. /\ cp' \in Nat /\ cpOut' \in Nat /\ argument' \in Nat /\ cp' <= End
        /\ argument' <= End /\ argument' <= cpOut' /\ cpOut' <= cp'
    BY <1>1, <1>2, <1>4
  <1> QED BY <1>3, <1>4, <1>5, <1>6, <1>7, PatchInv

LEMMA EscapeInv == ASSUME Inv, Escape PROVE Inv'
  <1> USE DEF Inv
  <1>1. pc = "char" /\ strings[cp] = Backslash /\ UNCHANGED <<stringsLength, table, line>>
    BY DEF Escape
  <1>2. cp < End /\ cp \in 0 .. stringsLength - 1 /\ cp + 1 <= End
    BY <1>1, CharAssumption, BeforeEnd
  <1>3. CASE strings[cp + 1] = Nul
    <2>1. Fail("quoting") /\ UNCHANGED strings BY <1>3 DEF Escape
    <2> QED BY <2>1, <1>1, FailInv DEF buffer
  <1>4. CASE strings[cp + 1] # Nul
    <2>1. cp \in Nat /\ End \in Nat /\ stringsLength \in Nat BY DEF TypeOK, End
    <2>2. cp + 1 # End /\ End < stringsLength BY <1>1, <1>4 DEF InPlace
    <2>3. cp + 2 <= End /\ cp + 1 \in 0 .. stringsLength - 1 BY <1>2, <2>1, <2>2
    <2>4. strings[cp + 1] \in Char BY <2>3 DEF TypeOK
    <2>5. Put(strings[cp + 1], 2) BY <1>4 DEF Escape
    <2> QED BY <1>1, <2>3, <2>4, <2>5, PutInv
  <1> QED BY <1>3, <1>4

LEMMA StoreInv == ASSUME Inv, Store PROVE Inv'
  <1> USE DEF Inv
  <1>1. /\ pc = "char" /\ strings[cp] # Nul /\ Put(strings[cp], 1)
        /\ UNCHANGED <<stringsLength, table, line>>
    BY DEF Store, Ordinary
  <1>2. cp \in 0 .. stringsLength - 1 /\ cp + 1 <= End BY <1>1, BeforeEnd
  <1>3. strings[cp] \in Char BY <1>2 DEF TypeOK
  <1> QED BY <1>1, <1>2, <1>3, PutInv

LEMMA CloseArgumentInv == ASSUME Inv, CloseArgument PROVE Inv'
  <1> USE DEF Inv
  <1>1. pc = "close" /\ UNCHANGED <<stringsLength, table, line>> BY DEF CloseArgument
  <1>2. cp \in Nat /\ cpOut \in Nat /\ argument \in Nat /\ End \in Nat /\ stringsLength \in Nat
    BY DEF TypeOK, End
  <1>3. argument <= cpOut /\ cpOut <= cp /\ cp <= End /\ End < stringsLength
    BY <1>1 DEF InPlace
  <1>4. CASE quote # Nul
    <2>1. Fail("quoting") /\ UNCHANGED strings BY <1>4 DEF CloseArgument
    <2> QED BY <2>1, <1>1, FailInv DEF buffer
  <1>5. CASE quote = Nul
    <2>1. pc' = "trail" /\ UNCHANGED <<cp, cpOut, argument, quote>> /\ UNCHANGED result
      BY <1>5 DEF CloseArgument, scan
    <2>2. CASE cp # cpOut
      <3>1. strings' = [strings EXCEPT ![cpOut] = Nul] BY <1>5, <2>2 DEF CloseArgument
      <3>2. cpOut \in 0 .. stringsLength - 1 BY <1>2, <1>3
      <3>3. argument' <= End BY <1>2, <1>3, <2>1
      <3> QED BY <1>1, <1>2, <1>3, <1>5, <2>1, <3>1, <3>2, <3>3, CharAssumption, PatchInv
    <2>3. CASE cp = cpOut
      <3>1. UNCHANGED buffer BY <1>1, <1>5, <2>3 DEF CloseArgument, buffer
      <3>2. argument' <= End BY <1>2, <1>3, <2>1
      <3> QED BY <1>1, <1>2, <1>3, <1>5, <2>1, <3>1, <3>2, LookInv
    <2> QED BY <2>2, <2>3
  <1> QED BY <1>4, <1>5

LEMMA AddArgumentInv == ASSUME Inv, AddArgument PROVE Inv'
  <1> USE DEF Inv
  <1>1. pc = "add" /\ UNCHANGED <<buffer, line>> BY DEF AddArgument
  <1>2. CASE Fail("memory") /\ UNCHANGED table BY <1>1, <1>2, FailInv
  <1>3. CASE /\ argTableSize' = IF argCount + 1 >= argTableSize THEN argCount + 2 ELSE argTableSize
             /\ argTable' = Extended(argTableSize')
             /\ argCount' = argCount + 1 /\ pc' = "next" /\ UNCHANGED <<scan, result>>
    <2>1. argCount \in Nat /\ argTableSize \in Nat /\ argument \in Nat BY DEF TypeOK
    <2>2. argTableSize' \in Nat /\ argCount' < argTableSize' /\ argTableSize <= argTableSize'
      BY <1>3, <2>1
    <2>3. argTable' \in [0 .. argTableSize' - 1 -> Nat \cup {NoPtr, Junk}]
      BY <1>3, <2>1 DEF Extended, TypeOK
    <2>4. TypeOK' BY <1>1, <1>3, <2>1, <2>2, <2>3 DEF TypeOK, buffer, scan, result
    <2>5. End' = End /\ InPlace' BY <1>1, <1>3 DEF InPlace, End, buffer, scan
    <2>6. \A i \in 0 .. argCount' - 1 : argTable'[i] \in 0 .. End
      <3> TAKE i \in 0 .. argCount' - 1
      <3>1. i \in 0 .. argTableSize' - 1 BY <1>3, <2>1, <2>2
      <3>2. CASE i = argCount
        <4>1. argument \in 0 .. End BY <1>1, <2>1 DEF TableFits, End, TypeOK
        <4> QED BY <1>3, <3>1, <3>2, <4>1 DEF Extended
      <3>3. CASE i # argCount
        <4>1. i \in 0 .. argCount - 1 /\ argCount > 0 BY <1>3, <2>1, <3>3
        <4>2. i < argTableSize /\ argTable[i] \in 0 .. End BY <1>1, <2>1, <4>1 DEF TableFits
        <4> QED BY <1>3, <3>1, <3>3, <4>2 DEF Extended
      <3> QED BY <3>2, <3>3
    <2>7. TableFits' BY <1>1, <1>3, <2>2, <2>5, <2>6 DEF TableFits, result
    <2>8. ArgvTerminated' BY <1>3 DEF ArgvTerminated
    <2> QED BY <2>4, <2>5, <2>7, <2>8
  <1> QED BY <1>2, <1>3 DEF AddArgument

LEMMA ReturnInv == ASSUME Inv, Return PROVE Inv'
  <1> USE DEF Inv
  <1>1. /\ pc = "next" /\ retArgc' = argCount /\ ret' = 1 /\ pc' = "idle"
        /\ UNCHANGED <<buffer, argTableSize, argCount, line>> /\ error' = error
        /\ cp' = 0 /\ cpOut' = 0 /\ argument' = 0 /\ quote' = Nul
    BY DEF Return, Leave
  <1>2. argTable' = IF argCount = 0 THEN argTable ELSE [argTable EXCEPT ![argCount] = NoPtr]
    BY DEF Return
  <1>3. argCount \in Nat /\ argTableSize \in Nat BY DEF TypeOK
  <1>4. argTable' \in [0 .. argTableSize - 1 -> Nat \cup {NoPtr, Junk}] BY <1>2, <1>3 DEF TypeOK
  <1>5. TypeOK' BY <1>1, <1>3, <1>4 DEF TypeOK, buffer
  <1>6. InPlace' /\ TableFits' BY <1>1 DEF InPlace, TableFits
  <1>7. ASSUME argCount > 0 PROVE
          /\ argCount < argTableSize /\ argTable'[argCount] = NoPtr
          /\ \A i \in 0 .. argCount - 1 : argTable'[i] \in 0 .. End
    <2>1. argCount < argTableSize BY <1>1, <1>7 DEF TableFits
    <2>2. argCount \in 0 .. argTableSize - 1 BY <1>3, <2>1
    <2>3. argTable'[argCount] = NoPtr BY <1>2, <1>7, <2>2 DEF TypeOK
    <2>4. \A i \in 0 .. argCount - 1 : argTable'[i] = argTable[i] BY <1>2, <1>3, <2>1 DEF TypeOK
    <2> QED BY <1>1, <2>1, <2>3, <2>4 DEF TableFits
  <1>8. End' = End /\ End < stringsLength /\ strings[End] = Nul BY <1>1 DEF InPlace, End
  <1>9. ArgvTerminated' BY <1>1, <1>7, <1>8 DEF ArgvTerminated, buffer
  <1> QED BY <1>5, <1>6, <1>9

LEMMA Invariance == Spec => []Inv
  <1>1. ASSUME Inv, [Next]_vars PROVE Inv'
    <2>1. ASSUME NEW l \in Lines, Call(l) PROVE Inv' BY <1>1, <2>1, CallInv
    <2>2. CASE SkipBlank BY <1>1, <2>2, SkipBlankInv
    <2>3. CASE NextArgument BY <1>1, <2>3, NextArgumentInv
    <2>4. CASE EndOfLine \/ Separator \/ CloseQuote \/ OpenQuote BY <1>1, <2>4, QuietInv
    <2>5. CASE Escape BY <1>1, <2>5, EscapeInv
    <2>6. CASE Store BY <1>1, <2>6, StoreInv
    <2>7. CASE CloseArgument BY <1>1, <2>7, CloseArgumentInv
    <2>8. CASE AddArgument BY <1>1, <2>8, AddArgumentInv
    <2>9. CASE Return BY <1>1, <2>9, ReturnInv
    <2>10. CASE UNCHANGED vars
      BY <1>1, <2>10 DEF Inv, TypeOK, InPlace, TableFits, ArgvTerminated, End,
         vars, buffer, table, scan, result
    <2> QED BY <1>1, <2>1, <2>2, <2>3, <2>4, <2>5, <2>6, <2>7, <2>8, <2>9, <2>10 DEF Next, Step
  <1> QED BY <1>1, InitInv, PTL DEF Spec

(* The types, and with them that the static buffer and table are as long as *)
(* their length variables say, after every growth and failed growth.        *)
THEOREM TypeCorrect == Spec => []TypeOK
  <1>1. Inv => TypeOK BY DEF Inv
  <1> QED BY <1>1, Invariance, PTL

(* commandline_to_args rewrites any line in place without ever overtaking   *)
(* itself, losing the '\0' or leaving the buffer.                           *)
THEOREM StaysInPlace == Spec => []InPlace
  <1>1. Inv => InPlace BY DEF Inv
  <1> QED BY <1>1, Invariance, PTL

(* The argv it returns is NULL-terminated inside the table and its strings  *)
(* are '\0'-terminated inside the buffer, for any sequence of lines.        *)
THEOREM ArgvEnds == Spec => []ArgvTerminated
  <1>1. Inv => ArgvTerminated BY DEF Inv
  <1> QED BY <1>1, Invariance, PTL

-----------------------------------------------------------------------------
(* What a reader knows is made of characters. *)
Knowledge ==
  {m \in [mode : {"between", "inside", "escaped"}, quoted : Quotation \cup {Nul},
          arg : Seq(Char), args : Seq(Seq(Char))] : m.mode = "between" => m.arg = <<>>}

LEMMA KnowledgeType == Begun \in Knowledge /\ \A m \in Knowledge, ch \in Char : Turn(m, ch) \in Knowledge
  <1>1. Begun \in Knowledge BY EmptySeq DEF Begun, Known, Knowledge
  <1>2. ASSUME NEW m \in Knowledge, NEW ch \in Char PROVE Turn(m, ch) \in Knowledge
    <2>1. /\ m.quoted \in Quotation \cup {Nul} /\ m.arg \in Seq(Char) /\ m.args \in Seq(Seq(Char))
          /\ <<>> \in Seq(Char)
      BY EmptySeq DEF Knowledge
    <2>2. Append(m.arg, ch) \in Seq(Char) /\ Append(m.args, m.arg) \in Seq(Seq(Char))
      BY <2>1, AppendProperties
    <2>3. Ended(m) \in Seq(Seq(Char)) BY <2>1, <2>2 DEF Ended
    <2>4. \A mode \in {"between", "inside", "escaped"}, q \in Quotation \cup {Nul},
             arg \in Seq(Char), args \in Seq(Seq(Char)) :
             (mode = "between" => arg = <<>>) => Known(mode, q, arg, args) \in Knowledge
      BY DEF Known, Knowledge
    <2> QED BY <2>1, <2>2, <2>3, <2>4 DEF Turn
  <1> QED BY <1>1, <1>2

(* The reading of a text goes on character by character. *)
LEMMA ReadingSteps ==
  ASSUME NEW text \in Seq(Char \ {Nul})
  PROVE  /\ Reading(text)[0] = Begun
         /\ \A n \in 0 .. Len(text) - 1 :
              Reading(text)[n + 1] = Turn(Reading(text)[n], text[n + 1])
         /\ \A n \in 0 .. Len(text) : Reading(text)[n] \in Knowledge
  <1> DEFINE D == [n \in Nat |-> [m \in Knowledge |->
                     IF n < Len(text) THEN Turn(m, text[n + 1]) ELSE m]]
             Def(g) == [n \in 0 .. Len(text) |->
                          IF n = 0 THEN Begun ELSE Turn(g[n - 1], text[n])]
             c == CHOOSE g : g = Def(g)
  <1>1. Len(text) \in Nat /\ \A n \in 0 .. Len(text) - 1 : text[n + 1] \in Char OBVIOUS
  <1>2. D \in [Nat -> [Knowledge -> Knowledge]] BY <1>1, KnowledgeType
  <1>3. \A n \in Nat, m \in Knowledge : n < Len(text) => D[n][m] = Turn(m, text[n + 1]) OBVIOUS
  <1> HIDE DEF D
  <1>4. PICK f : GoesOn(f, Knowledge, Begun, D) BY <1>2, KnowledgeType, Recursion
  <1>5. /\ f \in [Nat -> Knowledge] /\ f[0] = Begun
        /\ \A n \in 0 .. Len(text) - 1 : f[n + 1] = Turn(f[n], text[n + 1])
    <2>1. f \in [Nat -> Knowledge] /\ f[0] = Begun /\ \A n \in Nat : f[n + 1] = D[n][f[n]]
      BY <1>4 DEF GoesOn
    <2>2. ASSUME NEW n \in 0 .. Len(text) - 1 PROVE f[n + 1] = Turn(f[n], text[n + 1])
      <3>1. n \in Nat /\ n < Len(text) /\ f[n] \in Knowledge BY <1>1, <2>1
      <3>2. D[n][f[n]] = Turn(f[n], text[n + 1]) BY <1>3, <3>1
      <3> QED BY <2>1, <3>1, <3>2
    <2> QED BY <2>1, <2>2
  <1> DEFINE r == [n \in 0 .. Len(text) |-> f[n]]
  <1>6. r = Def(r)
    <2>1. ASSUME NEW n \in 0 .. Len(text)
          PROVE  f[n] = IF n = 0 THEN Begun ELSE Turn(r[n - 1], text[n])
      <3>1. CASE n = 0 BY <3>1, <1>5
      <3>2. CASE n # 0
        <4>1. n - 1 \in 0 .. Len(text) - 1 /\ n - 1 \in 0 .. Len(text) /\ n - 1 + 1 = n
          BY <3>2, <1>1
        <4>2. f[n] = Turn(f[n - 1], text[n]) BY <4>1, <1>5
        <4> QED BY <3>2, <4>1, <4>2
      <3> QED BY <3>1, <3>2
    <2> QED BY <2>1
  <1>7. Reading(text) = c BY DEF Reading
  <1> HIDE DEF r
  <1>8. c = Def(c) BY <1>6
  <1> HIDE DEF c
  <1>9. /\ c[0] = Begun
        /\ \A n \in 0 .. Len(text) - 1 : c[n + 1] = Turn(c[n], text[n + 1])
    <2>1. \A n \in 0 .. Len(text) : c[n] = IF n = 0 THEN Begun ELSE Turn(c[n - 1], text[n])
      BY <1>8
    <2>2. c[0] = Begun BY <2>1, <1>1
    <2>3. ASSUME NEW n \in 0 .. Len(text) - 1 PROVE c[n + 1] = Turn(c[n], text[n + 1])
      <3>1. n + 1 \in 0 .. Len(text) /\ n + 1 # 0 /\ n + 1 - 1 = n BY <1>1
      <3> QED BY <3>1, <2>1
    <2> QED BY <2>2, <2>3
  <1> DEFINE J == {n \in Nat : n <= Len(text) => c[n] \in Knowledge}
  <1>10. 0 \in J BY <1>9, KnowledgeType
  <1>11. ASSUME NEW n \in Nat, n \in J PROVE n + 1 \in J
    <2>1. SUFFICES ASSUME n + 1 <= Len(text) PROVE c[n + 1] \in Knowledge OBVIOUS
    <2>2. n \in 0 .. Len(text) - 1 /\ c[n] \in Knowledge BY <1>1, <1>11, <2>1
    <2> QED BY <2>2, <1>1, <1>9, KnowledgeType
  <1> HIDE DEF J
  <1>12. \A n \in Nat : n \in J BY <1>10, <1>11, SetInduction
  <1>13. \A n \in 0 .. Len(text) : c[n] \in Knowledge BY <1>1, <1>12 DEF J
  <1> QED BY <1>7, <1>9, <1>13
-----------------------------------------------------------------------------
(* The characters of s stand in the buffer strs at p, none of them '\0'. *)
Spells(strs, p, s) == \A k \in 1 .. Len(s) : s[k] # Nul /\ strs[p + k - 1] = s[k]

(* The first n pointers of tab point to the strings args, which end before floor. *)
Keeps(strs, tab, n, args, floor) ==
  \A i \in 1 .. n :
    /\ tab[i - 1] \in Nat /\ Spells(strs, tab[i - 1], args[i])
    /\ strs[tab[i - 1] + Len(args[i])] = Nul /\ tab[i - 1] + Len(args[i]) < floor

(* What a reader knows of the line where the scan is. *)
Here == Reading(line.text)[cp]

(* What follows has not been written yet. *)
Unread == \A k \in cp .. End - 1 : strings[k] = line.text[k + 1]

AtLead == Here = Begun /\ argCount = 0

AtNext ==
  /\ Meant(Here)
  /\ Here.mode = "between" \/ cp = End
  /\ strings[cp] \notin Blank
  /\ Len(Ended(Here)) = argCount /\ Keeps(strings, argTable, argCount, Ended(Here), cp + 1)

AtChar ==
  /\ Here.mode # "escaped" /\ Here.quoted = quote
  /\ Here.mode = "between" => strings[cp] \notin Blank \cup {Nul}
  /\ Len(Here.args) = argCount /\ Keeps(strings, argTable, argCount, Here.args, argument)
  /\ Spells(strings, argument, Here.arg) /\ argument + Len(Here.arg) = cpOut

(* One argument more is in the buffer than in the table. *)
OneMore ==
  /\ Meant(Here)
  /\ Here.mode = "between" \/ cp = End
  /\ Len(Ended(Here)) = argCount + 1
  /\ Keeps(strings, argTable, argCount, Ended(Here), argument)
  /\ Spells(strings, argument, Ended(Here)[argCount + 1])
  /\ argument + Len(Ended(Here)[argCount + 1]) = cpOut

AtClose ==
  IF quote # Nul THEN cp = End /\ Here.quoted = quote
  ELSE OneMore /\ (cp = cpOut => cp = End)

AtTrail == OneMore /\ strings[cpOut] = Nul /\ cpOut <= cp
AtAdd   == AtTrail /\ strings[cp] \notin Blank

(* The buffer and the table hold what a reader of the line knows. *)
Follows ==
  pc # "idle" =>
    /\ line \in Lines /\ Unread
    /\ pc = "lead" => AtLead
    /\ pc = "next" => AtNext
    /\ pc = "char" => AtChar
    /\ pc = "close" => AtClose
    /\ pc = "trail" => AtTrail
    /\ pc = "add" => AtAdd

(* Strings stay while nothing is written below where they end, and the table *)
(* may move.                                                                 *)
LEMMA SpellsStays ==
  ASSUME NEW s1, NEW s2, NEW p \in Nat, NEW s \in Seq(Char), Spells(s1, p, s),
         \A j \in Nat : j < p + Len(s) => s2[j] = s1[j]
  PROVE  Spells(s2, p, s)
  <1> SUFFICES ASSUME NEW k \in 1 .. Len(s) PROVE s[k] # Nul /\ s2[p + k - 1] = s[k]
    BY DEF Spells
  <1>1. p + k - 1 \in Nat /\ p + k - 1 < p + Len(s) OBVIOUS
  <1> QED BY <1>1 DEF Spells

LEMMA SpellsMore ==
  ASSUME NEW s1, NEW s2, NEW p \in Nat, NEW s \in Seq(Char), NEW ch \in Char, ch # Nul,
         Spells(s1, p, s), \A j \in Nat : j < p + Len(s) => s2[j] = s1[j],
         s2[p + Len(s)] = ch
  PROVE  Spells(s2, p, Append(s, ch))
  <1>1. Len(s) \in Nat /\ Len(Append(s, ch)) = Len(s) + 1 OBVIOUS
  <1>2. ASSUME NEW k \in 1 .. Len(s) + 1
        PROVE  Append(s, ch)[k] # Nul /\ s2[p + k - 1] = Append(s, ch)[k]
    <2>1. CASE k = Len(s) + 1
      <3>1. p + k - 1 = p + Len(s) /\ Append(s, ch)[k] = ch BY <2>1, <1>1
      <3> QED BY <3>1
    <2>2. CASE k # Len(s) + 1
      <3>1. k \in 1 .. Len(s) /\ Append(s, ch)[k] = s[k] BY <2>2, <1>1
      <3>2. p + k - 1 \in Nat /\ p + k - 1 < p + Len(s) BY <3>1, <1>1
      <3> QED BY <3>1, <3>2 DEF Spells
    <2> QED BY <2>1, <2>2
  <1> QED BY <1>1, <1>2 DEF Spells

LEMMA KeepsStays ==
  ASSUME NEW s1, NEW s2, NEW tab1, NEW tab2, NEW n \in Nat,
         NEW args1 \in Seq(Seq(Char)), NEW args2, NEW floor1 \in Nat, NEW floor2 \in Nat,
         n <= Len(args1), floor1 <= floor2,
         \A i \in 1 .. n : tab2[i - 1] = tab1[i - 1] /\ args2[i] = args1[i],
         \A j \in Nat : j < floor1 => s2[j] = s1[j],
         Keeps(s1, tab1, n, args1, floor1)
  PROVE  Keeps(s2, tab2, n, args2, floor2)
  <1> SUFFICES ASSUME NEW i \in 1 .. n
               PROVE  /\ tab2[i - 1] \in Nat /\ Spells(s2, tab2[i - 1], args2[i])
                      /\ s2[tab2[i - 1] + Len(args2[i])] = Nul
                      /\ tab2[i - 1] + Len(args2[i]) < floor2
    BY DEF Keeps
  <1> DEFINE p == tab1[i - 1]
             a == args1[i]
  <1>1. p \in Nat /\ Spells(s1, p, a) /\ s1[p + Len(a)] = Nul /\ p + Len(a) < floor1
    BY DEF Keeps
  <1>2. a \in Seq(Char)
    <2>1. i \in 1 .. Len(args1) OBVIOUS
    <2> QED BY <2>1, ElementOfSeq
  <1>3. tab2[i - 1] = p /\ args2[i] = a OBVIOUS
  <1> HIDE DEF p, a
  <1>4. Len(a) \in Nat BY <1>2
  <1>5. \A j \in Nat : j < p + Len(a) => s2[j] = s1[j] BY <1>1, <1>4
  <1>6. Spells(s2, p, a) BY <1>1, <1>2, <1>5, SpellsStays
  <1>7. p + Len(a) \in Nat /\ p + Len(a) < floor1 /\ p + Len(a) < floor2 BY <1>1, <1>4
  <1>8. s2[p + Len(a)] = Nul BY <1>1, <1>7
  <1> QED BY <1>1, <1>3, <1>6, <1>7, <1>8

(* The same when only the buffer is written. *)
LEMMA KeepsBelow ==
  ASSUME NEW s1, NEW s2, NEW tab, NEW n \in Nat, NEW args \in Seq(Seq(Char)), n <= Len(args),
         NEW floor \in Nat, \A j \in Nat : j < floor => s2[j] = s1[j],
         Keeps(s1, tab, n, args, floor)
  PROVE  Keeps(s2, tab, n, args, floor)
  <1>1. floor <= floor /\ \A i \in 1 .. n : tab[i - 1] = tab[i - 1] /\ args[i] = args[i] OBVIOUS
  <1> QED BY <1>1, KeepsStays, ZenonT(40)

(* The string found at a pointer is the one that is spelt there. *)
LEMMA StringFound ==
  ASSUME stringsLength \in Nat, NEW p \in Nat, NEW s \in Seq(Char), Spells(strings, p, s),
         strings[p + Len(s)] = Nul, p + Len(s) < stringsLength
  PROVE  StringAt(p) = s
  <1> DEFINE IsEnd(n) == strings[p + n] = Nul /\ \A k \in 0 .. n - 1 : strings[p + k] # Nul
             n0 == CHOOSE n \in 0 .. stringsLength - p - 1 : IsEnd(n)
  <1>1. Len(s) \in 0 .. stringsLength - p - 1 OBVIOUS
  <1>2. \A k \in 0 .. Len(s) - 1 : strings[p + k] = s[k + 1] /\ s[k + 1] # Nul
    <2> TAKE k \in 0 .. Len(s) - 1
    <2>1. k + 1 \in 1 .. Len(s) /\ p + (k + 1) - 1 = p + k OBVIOUS
    <2> QED BY <2>1 DEF Spells
  <1>3. IsEnd(Len(s)) BY <1>2
  <1>4. n0 \in 0 .. stringsLength - p - 1 /\ IsEnd(n0) BY <1>1, <1>3
  <1>5. n0 = Len(s)
    <2>1. CASE n0 < Len(s)
      <3>1. n0 \in 0 .. Len(s) - 1 BY <2>1, <1>4
      <3> QED BY <3>1, <1>2, <1>4
    <2>2. CASE Len(s) < n0
      <3>1. Len(s) \in 0 .. n0 - 1 BY <2>2, <1>4
      <3> QED BY <3>1, <1>4
    <2> QED BY <2>1, <2>2, <1>1, <1>4
  <1>6. StringAt(p) = [k \in 1 .. n0 |-> strings[p + k - 1]] BY DEF StringAt
  <1> HIDE DEF n0
  <1>7. \A k \in 1 .. Len(s) : strings[p + k - 1] = s[k] BY DEF Spells
  <1> QED BY <1>5, <1>6, <1>7

-----------------------------------------------------------------------------
(* The reading where the scan is, and after the character there. *)
LEMMA HereKnown ==
  ASSUME Inv, Follows, pc # "idle"
  PROVE  /\ line \in Lines /\ line.text \in Seq(Char \ {Nul}) /\ End \in Nat
         /\ cp \in Nat /\ cp <= End /\ End < stringsLength /\ stringsLength \in Nat
         /\ Here \in Knowledge
         /\ Reading(line.text)[0] = Begun
  <1>1. line \in Lines /\ line.text \in Seq(Char \ {Nul}) /\ End \in Nat
    BY LineAssumption DEF Follows, End
  <1>2. cp \in Nat /\ cp <= End /\ End < stringsLength /\ stringsLength \in Nat
    BY DEF Inv, TypeOK, InPlace
  <1>3. cp \in 0 .. Len(line.text) BY <1>1, <1>2 DEF End
  <1>4. Here \in Knowledge BY <1>1, <1>3, ReadingSteps DEF Here
  <1> QED BY <1>1, <1>2, <1>4, ReadingSteps

LEMMA ReadOn ==
  ASSUME Inv, Follows, pc # "idle", NEW k \in cp .. End - 1
  PROVE  /\ strings[k] \in Char \ {Nul}
         /\ Reading(line.text)[k + 1] = Turn(Reading(line.text)[k], strings[k])
  <1>1. k \in 0 .. Len(line.text) - 1 BY HereKnown DEF End
  <1>2. strings[k] = line.text[k + 1] BY DEF Follows, Unread
  <1>3. line.text[k + 1] \in Char \ {Nul} BY <1>1, HereKnown
  <1> QED BY <1>1, <1>2, <1>3, HereKnown, ReadingSteps

(* Where there is a '\0', the line ends. *)
LEMMA AtEnd ==
  ASSUME Inv, Follows, pc # "idle", NEW k \in cp .. End
  PROVE  strings[k] = Nul <=> k = End
  <1>1. strings[End] = Nul BY DEF Inv, InPlace
  <1>2. k # End => k \in cp .. End - 1 BY HereKnown
  <1> QED BY <1>1, <1>2, ReadOn

(* A call that begins has read nothing, and the buffer holds its line. *)
LEMMA CallFollows ==
  ASSUME Inv, NEW l \in Lines, Call(l), Follows PROVE Follows'
  <1>1. CASE UNCHANGED <<buffer, pc, cp>> BY <1>1 DEF Call, Follows
  <1>2. CASE /\ stringsLength' = IF Len(l.text) + 1 > stringsLength
                                 THEN Len(l.text) + 1 ELSE stringsLength
             /\ strings' = Copied(l.text, stringsLength')
             /\ pc' = "lead" /\ cp' = 0 /\ error' = "none"
             /\ UNCHANGED ret
    <2>1. l.text \in Seq(Char \ {Nul}) /\ Len(l.text) \in Nat /\ End' = Len(l.text) /\ line' = l
          /\ argCount' = 0
      BY LineAssumption DEF Call, End
    <2>2. stringsLength' \in Nat /\ Len(l.text) < stringsLength' BY <1>2, <2>1 DEF Inv, TypeOK
    <2>3. Unread'
      <3> DEFINE n == Len(l.text)
      <3> DEFINE size == stringsLength'
      <3>1. n \in Nat /\ n < size /\ size \in Nat BY <2>1, <2>2
      <3> HIDE DEF n, size
      <3>2. ASSUME NEW k \in 0 .. n - 1 PROVE strings'[k] = l.text[k + 1]
        <4>1. k \in 0 .. size - 1 /\ k < n BY <3>1
        <4> QED BY <4>1, <1>2 DEF Copied, n, size
      <3> QED BY <3>2, <1>2, <2>1 DEF Unread, n
    <2>4. Here' = Begun BY <1>2, <2>1, ReadingSteps DEF Here
    <2> QED BY <1>2, <2>1, <2>3, <2>4 DEF Follows, AtLead
  <1> QED BY <1>1, <1>2 DEF Call

(* The steps around the inner loop: a blank that becomes '\0' ends what is      *)
(* known of an argument, and what follows is still as it was typed.             *)
LEMMA SkipBlankFollows == ASSUME Inv, Follows, SkipBlank PROVE Follows'
  <1>1. /\ pc \in {"lead", "trail"} /\ pc # "idle" /\ line' = line /\ End' = End
        /\ UNCHANGED <<stringsLength, argTable, argTableSize, argCount>>
        /\ UNCHANGED <<cpOut, argument, quote>>
    BY DEF SkipBlank, End, table
  <1>2. CASE strings[cp] \notin Blank
    <2>1. UNCHANGED <<strings, cp>> /\ pc' = (IF pc = "lead" THEN "next" ELSE "add")
      BY <1>2 DEF SkipBlank
    <2>2. Here' = Here /\ Unread' BY <1>1, <2>1 DEF Here, Unread, End, Follows
    <2>3. CASE pc = "lead"
      <3>1. Here = Begun /\ argCount = 0 BY <2>3 DEF Follows, AtLead
      <3>2. /\ Meant(Here) /\ Here.mode = "between" /\ Ended(Here) = <<>>
        BY <3>1 DEF Begun, Known, Meant, Ended
      <3>3. Keeps(strings, argTable, argCount, Ended(Here), cp + 1) BY <3>1 DEF Keeps
      <3>4. AtNext' BY <1>1, <1>2, <2>1, <2>2, <3>1, <3>2, <3>3 DEF AtNext
      <3> QED BY <1>1, <2>1, <2>2, <2>3, <3>4 DEF Follows
    <2>4. CASE pc = "trail"
      <3>1. AtTrail BY <2>4 DEF Follows
      <3>2. AtAdd' BY <1>1, <1>2, <2>1, <2>2, <3>1 DEF AtAdd, AtTrail, OneMore, End
      <3> QED BY <1>1, <2>1, <2>2, <2>4, <3>2 DEF Follows
    <2> QED BY <1>1, <2>3, <2>4
  <1>3. CASE strings[cp] \in Blank
    <2>1. strings' = [strings EXCEPT ![cp] = Nul] /\ cp' = cp + 1 /\ pc' = pc
      BY <1>3 DEF SkipBlank
    <2>2. cp \in cp .. End - 1 /\ cp \in Nat /\ Here \in Knowledge
      <3>1. cp \in cp .. End BY <1>1, HereKnown
      <3>2. strings[cp] # Nul BY <1>3, CharAssumption
      <3> QED BY <1>1, <3>1, <3>2, HereKnown, AtEnd
    <2>3. Here' = Turn(Here, strings[cp]) BY <1>1, <2>1, <2>2, ReadOn DEF Here
    <2>4. cp \in 0 .. stringsLength - 1 BY <1>1, <2>2, HereKnown
    <2>5. \A j \in Nat : j # cp => strings'[j] = strings[j] BY <2>1 DEF Inv, TypeOK
    <2>6. strings'[cp] = Nul BY <2>1, <2>4 DEF Inv, TypeOK
    <2>7. Unread'
      <3>1. Unread BY <1>1 DEF Follows
      <3> QED BY <1>1, <2>1, <2>2, <2>5, <3>1 DEF Unread
    <2>8. CASE pc = "lead"
      <3>1. Here = Begun /\ argCount = 0 BY <2>8 DEF Follows, AtLead
      <3>2. Here' = Begun BY <1>3, <2>3, <3>1 DEF Turn, Begun, Known, Ended
      <3> QED BY <1>1, <2>1, <2>7, <2>8, <3>1, <3>2 DEF Follows, AtLead
    <2>9. CASE pc = "trail"
      <3>1. /\ OneMore /\ strings[cpOut] = Nul /\ cpOut <= cp /\ Here.mode = "between" /\ Meant(Here)
        BY <1>1, <2>2, <2>9 DEF Follows, AtTrail, OneMore
      <3>2. Here' = Known("between", Nul, <<>>, Ended(Here))
        BY <1>3, <2>3, <3>1 DEF Turn, Meant
      <3>3. Meant(Here') /\ Here'.mode = "between" /\ Ended(Here') = Ended(Here)
        BY <3>2 DEF Meant, Ended, Known
      <3>4. cpOut \in Nat /\ argument \in Nat /\ argCount \in Nat BY DEF Inv, TypeOK
      <3>5. cpOut < cp
        <4>1. strings[cp] # Nul BY <1>3, CharAssumption
        <4> QED BY <2>2, <3>1, <3>4, <4>1
      <3> DEFINE a == Ended(Here)
      <3>6. a \in Seq(Seq(Char)) /\ Len(a) = argCount + 1 /\ a[argCount + 1] \in Seq(Char)
        <4>1. a \in Seq(Seq(Char))
          BY <2>2, <3>1 DEF Knowledge, Ended
        <4>2. Len(a) = argCount + 1 BY <3>1 DEF OneMore
        <4> QED BY <3>4, <4>1, <4>2, ElementOfSeq
      <3>7. /\ Keeps(strings, argTable, argCount, a, argument) /\ Spells(strings, argument, a[argCount + 1])
            /\ argument + Len(a[argCount + 1]) = cpOut
        BY <3>1 DEF OneMore
      <3> HIDE DEF a
      <3>8. \A j \in Nat : j < cpOut => strings'[j] = strings[j] BY <2>2, <2>5, <3>4, <3>5
      <3>9. Spells(strings', argument, a[argCount + 1])
        BY <3>4, <3>6, <3>7, <3>8, SpellsStays
      <3>10. argument <= cpOut BY <3>4, <3>6, <3>7
      <3>11. \A j \in Nat : j < argument => strings'[j] = strings[j] BY <3>4, <3>8, <3>10
      <3>12. Keeps(strings', argTable, argCount, a, argument)
        BY <3>4, <3>6, <3>7, <3>11, KeepsBelow
      <3>13. OneMore'
        <4>1. Ended(Here') = a BY <3>3 DEF a
        <4> QED BY <1>1, <3>3, <3>6, <3>7, <3>9, <3>12, <4>1 DEF OneMore
      <3>14. strings'[cpOut] = Nul /\ cpOut <= cp + 1 BY <2>2, <2>5, <3>1, <3>4, <3>5
      <3> QED BY <1>1, <2>1, <2>7, <2>9, <3>13, <3>14 DEF Follows, AtTrail
    <2> QED BY <1>1, <2>8, <2>9
  <1> QED BY <1>2, <1>3

LEMMA NextArgumentFollows == ASSUME Inv, Follows, NextArgument PROVE Follows'
  <1>1. /\ pc = "next" /\ pc # "idle" /\ strings[cp] # Nul /\ pc' = "char" /\ line' = line /\ End' = End
        /\ UNCHANGED <<strings, argTable, argCount, cp>>
        /\ cpOut' = cp /\ argument' = cp /\ quote' = Nul
    BY DEF NextArgument, End, table, buffer
  <1>2. AtNext /\ Unread BY <1>1 DEF Follows
  <1>3. Here \in Knowledge /\ cp \in Nat /\ cp \in cp .. End BY <1>1, HereKnown
  <1>4. cp # End BY <1>1, <1>3, AtEnd
  <1>5. Here.mode = "between" /\ Meant(Here) /\ strings[cp] \notin Blank \cup {Nul}
    BY <1>1, <1>2, <1>4 DEF AtNext
  <1>6. Here.args = Ended(Here) /\ Here.arg = <<>> /\ Here.quoted = Nul
    BY <1>3, <1>5 DEF Ended, Knowledge, Meant
  <1>7. Len(Here.args) = argCount /\ Keeps(strings, argTable, argCount, Here.args, cp + 1)
    BY <1>2, <1>6 DEF AtNext
  <1>8. Keeps(strings, argTable, argCount, Here.args, cp)
    <2> SUFFICES ASSUME NEW i \in 1 .. argCount
                 PROVE  argTable[i - 1] + Len(Here.args[i]) < cp
      BY <1>7 DEF Keeps
    <2>1. /\ argTable[i - 1] \in Nat /\ strings[argTable[i - 1] + Len(Here.args[i])] = Nul
          /\ argTable[i - 1] + Len(Here.args[i]) < cp + 1
      BY <1>7 DEF Keeps
    <2>2. argCount \in Nat BY DEF Inv, TypeOK
    <2>3. Here.args \in Seq(Seq(Char)) BY <1>3 DEF Knowledge
    <2>4. Here.args[i] \in Seq(Char) BY <1>7, <2>2, <2>3, ElementOfSeq
    <2>5. Len(Here.args[i]) \in Nat BY <2>4
    <2>6. argTable[i - 1] + Len(Here.args[i]) # cp BY <1>1, <2>1
    <2> QED BY <1>3, <2>1, <2>5, <2>6
  <1>9. Spells(strings, cp, Here.arg) /\ cp + Len(Here.arg) = cp
    BY <1>3, <1>6 DEF Spells
  <1>10. Here' = Here /\ Unread' BY <1>1, <1>2 DEF Here, Unread, End
  <1>11. AtChar'
    BY <1>1, <1>5, <1>6, <1>7, <1>8, <1>9, <1>10 DEF AtChar, Meant
  <1> QED BY <1>1, <1>10, <1>11 DEF Follows

(* What the inner loop starts from. *)
LEMMA AtCharKnown ==
  ASSUME Inv, Follows, pc = "char"
  PROVE  /\ AtChar /\ Here \in Knowledge /\ line \in Lines /\ Unread
         /\ cp \in Nat /\ cpOut \in Nat /\ argument \in Nat /\ argCount \in Nat /\ End \in Nat
         /\ cp <= End /\ End < stringsLength /\ argument <= cpOut /\ cpOut <= cp
         /\ strings[cp] # Nul <=> cp < End
         /\ strings[cp] # Nul => /\ strings[cp] \in Char
                                 /\ Reading(line.text)[cp + 1] = Turn(Here, strings[cp])
         /\ Here.args \in Seq(Seq(Char)) /\ Here.arg \in Seq(Char)
  <1>1. pc # "idle" OBVIOUS
  <1>2. /\ cp \in Nat /\ cpOut \in Nat /\ argument \in Nat /\ argCount \in Nat /\ End \in Nat
        /\ cp <= End /\ End < stringsLength /\ Here \in Knowledge
    BY <1>1, HereKnown DEF Inv, TypeOK
  <1>3. argument <= cpOut /\ cpOut <= cp BY <1>1 DEF Inv, InPlace
  <1>4. strings[cp] # Nul <=> cp < End
    <2>1. cp \in cp .. End BY <1>2
    <2>2. strings[cp] = Nul <=> cp = End BY <1>1, <2>1, AtEnd
    <2> QED BY <1>2, <2>2
  <1>5. strings[cp] # Nul => /\ strings[cp] \in Char
                             /\ Reading(line.text)[cp + 1] = Turn(Here, strings[cp])
    <2>1. strings[cp] # Nul => cp \in cp .. End - 1 BY <1>2, <1>4
    <2> QED BY <1>1, <2>1, ReadOn DEF Here
  <1> QED BY <1>1, <1>2, <1>3, <1>4, <1>5 DEF Follows, Knowledge

(* The inner loop's turns make of the buffer what Turn makes of the knowledge. *)
LEMMA EndOfLineFollows == ASSUME Inv, Follows, EndOfLine PROVE Follows'
  <1>1. pc = "char" /\ pc # "idle" /\ strings[cp] = Nul /\ pc' = "close"
        /\ UNCHANGED <<strings, argTable, argCount, cp, cpOut, argument, quote, line>>
    BY DEF EndOfLine, buffer, table, scan
  <1>2. AtChar /\ cp = End BY <1>1, AtCharKnown
  <1>3. Here.mode = "inside" BY <1>1, <1>2, AtCharKnown DEF AtChar, Knowledge
  <1>4. Here' = Here /\ Unread' /\ End' = End BY <1>1, AtCharKnown DEF Here, Unread, End
  <1>5. AtClose'
    <2>1. CASE quote # Nul BY <1>1, <1>2, <1>4, <2>1 DEF AtClose, AtChar
    <2>2. CASE quote = Nul
      <3>1. Meant(Here) BY <1>2, <1>3, <2>2 DEF AtChar, Meant
      <3>2. Ended(Here) = Append(Here.args, Here.arg) BY <1>3 DEF Ended
      <3> DEFINE a == Here.args
                 b == Here.arg
      <3>3. /\ a \in Seq(Seq(Char)) /\ b \in Seq(Char) /\ argCount \in Nat /\ argument \in Nat
            /\ Len(a) = argCount
        BY <1>1, <1>2, AtCharKnown DEF AtChar
      <3>4. Keeps(strings, argTable, argCount, a, argument) /\ Spells(strings, argument, b)
            /\ argument + Len(b) = cpOut
        BY <1>2 DEF AtChar
      <3>5. Ended(Here) = Append(a, b) BY <3>2
      <3> HIDE DEF a, b
      <3>6. Len(Append(a, b)) = argCount + 1 /\ Append(a, b)[argCount + 1] = b
            /\ \A i \in 1 .. argCount : Append(a, b)[i] = a[i]
        BY <3>3
      <3>7. Keeps(strings, argTable, argCount, Append(a, b), argument)
        BY <3>4, <3>6 DEF Keeps
      <3>8. OneMore BY <1>2, <3>1, <3>4, <3>5, <3>6, <3>7 DEF OneMore
      <3>9. OneMore' BY <1>1, <1>4, <3>8 DEF OneMore
      <3> QED BY <1>1, <1>2, <1>4, <2>2, <3>9 DEF AtClose
    <2> QED BY <2>1, <2>2
  <1> QED BY <1>1, <1>4, <1>5, AtCharKnown DEF Follows

LEMMA SeparatorFollows == ASSUME Inv, Follows, Separator PROVE Follows'
  <1>1. pc = "char" /\ pc # "idle" /\ strings[cp] \in Blank /\ quote = Nul /\ pc' = "close"
        /\ cp' = cp + 1 /\ UNCHANGED <<strings, argTable, argCount, cpOut, argument, quote, line>>
    BY DEF Separator, buffer, table
  <1>2. strings[cp] # Nul /\ AtChar BY <1>1, CharAssumption, AtCharKnown
  <1>3. Here.mode = "inside" /\ Here.quoted = Nul BY <1>1, <1>2, AtCharKnown DEF AtChar, Knowledge
  <1>4. Here' = Turn(Here, strings[cp]) /\ End' = End BY <1>1, <1>2, AtCharKnown DEF Here, End
  <1>5. Unread' BY <1>1, AtCharKnown DEF Unread, End
  <1> DEFINE a == Here.args
             b == Here.arg
  <1>6. /\ a \in Seq(Seq(Char)) /\ b \in Seq(Char) /\ argCount \in Nat /\ argument \in Nat
        /\ Len(a) = argCount
    BY <1>1, <1>2, AtCharKnown DEF AtChar
  <1>7. Keeps(strings, argTable, argCount, a, argument) /\ Spells(strings, argument, b)
        /\ argument + Len(b) = cpOut
    BY <1>2 DEF AtChar
  <1>8. Ended(Here) = Append(a, b) BY <1>3 DEF Ended
  <1>9. Here' = Known("between", Nul, <<>>, Append(a, b)) BY <1>1, <1>3, <1>4, <1>8 DEF Turn
  <1> HIDE DEF a, b
  <1>10. Len(Append(a, b)) = argCount + 1 /\ Append(a, b)[argCount + 1] = b
         /\ \A i \in 1 .. argCount : Append(a, b)[i] = a[i]
    BY <1>6
  <1>11. Keeps(strings, argTable, argCount, Append(a, b), argument) BY <1>7, <1>10 DEF Keeps
  <1>12. Meant(Here') /\ Here'.mode = "between" /\ Ended(Here') = Append(a, b)
    BY <1>9 DEF Meant, Ended, Known
  <1>13. OneMore' BY <1>1, <1>7, <1>10, <1>11, <1>12 DEF OneMore
  <1>14. cp' # cpOut' BY <1>1, AtCharKnown
  <1>15. AtClose' BY <1>1, <1>13, <1>14 DEF AtClose
  <1> QED BY <1>1, <1>5, <1>15, AtCharKnown DEF Follows

(* A quotation mark is read, and nothing stored. *)
LEMMA QuoteFollows == ASSUME Inv, Follows, CloseQuote \/ OpenQuote PROVE Follows'
  <1>1. pc = "char" /\ pc # "idle" /\ pc' = "char" /\ Ordinary(strings[cp])
        /\ cp' = cp + 1 /\ UNCHANGED <<strings, argTable, argCount, cpOut, argument, line>>
    BY DEF CloseQuote, OpenQuote, buffer, table
  <1>2. strings[cp] # Nul /\ strings[cp] # Backslash /\ (strings[cp] \in Blank => quote # Nul) /\ AtChar
    BY <1>1, AtCharKnown DEF Ordinary
  <1>3. Here' = Turn(Here, strings[cp]) /\ End' = End BY <1>1, <1>2, AtCharKnown DEF Here, End
  <1>4. Unread'
    <2>1. Unread /\ cp \in Nat /\ End \in Nat BY <1>1, AtCharKnown
    <2>2. strings' = strings /\ line' = line /\ cp' = cp + 1 BY <1>1
    <2> QED BY <1>3, <2>1, <2>2 DEF Unread
  <1>5. Here' = Known("inside", quote', Here.arg, Here.args)
    <2>1. Here.mode # "escaped" /\ Here.quoted = quote BY <1>2 DEF AtChar
    <2>2. CASE CloseQuote
      <3>1. strings[cp] = quote /\ quote' = Nul BY <2>2 DEF CloseQuote
      <3> QED BY <1>2, <1>3, <2>1, <3>1 DEF Turn
    <2>3. CASE OpenQuote
      <3>1. strings[cp] # quote /\ quote = Nul /\ strings[cp] \in Quotation /\ quote' = strings[cp]
        BY <2>3 DEF OpenQuote
      <3> QED BY <1>2, <1>3, <2>1, <3>1 DEF Turn
    <2> QED BY <2>2, <2>3
  <1>6. /\ Here'.mode = "inside" /\ Here'.quoted = quote' /\ Here'.arg = Here.arg
        /\ Here'.args = Here.args
    BY <1>5 DEF Known
  <1>7. AtChar' BY <1>1, <1>2, <1>6 DEF AtChar
  <1> QED BY <1>1, <1>4, <1>7, AtCharKnown DEF Follows

(* A character is stored. *)
LEMMA PutFollows ==
  ASSUME Inv, Follows, pc = "char", NEW ch \in Char, ch # Nul, NEW n \in {1, 2}, Put(ch, n),
         cp + n <= End, UNCHANGED <<stringsLength, table, line>>,
         Reading(line.text)[cp + n] = Known("inside", Here.quoted, Append(Here.arg, ch), Here.args)
  PROVE  Follows'
  <1>1. /\ strings' = [strings EXCEPT ![cpOut] = ch] /\ cpOut' = cpOut + 1 /\ cp' = cp + n
        /\ pc' = "char" /\ UNCHANGED <<argument, quote>>
        /\ UNCHANGED <<argTable, argCount, line>> /\ End' = End
    BY DEF Put, table, End
  <1>2. AtChar /\ cpOut \in 0 .. stringsLength - 1
    <2>1. cpOut \in Nat /\ cp \in Nat /\ End \in Nat /\ cpOut <= cp /\ cp <= End /\ End < stringsLength
      BY AtCharKnown
    <2>2. stringsLength \in Nat BY DEF Inv, TypeOK
    <2> QED BY <2>1, <2>2, AtCharKnown
  <1>3. strings'[cpOut] = ch /\ \A j \in Nat : j # cpOut => strings'[j] = strings[j]
    BY <1>1, <1>2 DEF Inv, TypeOK
  <1>4. Here' = Known("inside", Here.quoted, Append(Here.arg, ch), Here.args) BY <1>1 DEF Here
  <1> DEFINE a == Here.args
             b == Here.arg
             t == strings'
  <1>5. /\ Here'.mode = "inside" /\ Here'.quoted = Here.quoted /\ Here'.arg = Append(b, ch)
        /\ Here'.args = a
    BY <1>4 DEF Known
  <1>6. /\ a \in Seq(Seq(Char)) /\ b \in Seq(Char) /\ argCount \in Nat /\ argument \in Nat
        /\ Len(a) = argCount /\ cpOut \in Nat /\ cp \in Nat /\ argument <= cpOut /\ cpOut <= cp
        /\ Keeps(strings, argTable, argCount, a, argument) /\ Spells(strings, argument, b)
        /\ argument + Len(b) = cpOut /\ Here.quoted = quote
    BY <1>2, AtCharKnown DEF AtChar
  <1>i. t[cpOut] = ch /\ \A j \in Nat : j # cpOut => t[j] = strings[j] BY <1>3
  <1> HIDE DEF a, b, t
  <1>7. \A j \in Nat : j < cpOut => t[j] = strings[j] BY <1>6, <1>i
  <1>8. Spells(t, argument, Append(b, ch)) /\ Len(Append(b, ch)) = Len(b) + 1
    <2>1. t[argument + Len(b)] = ch BY <1>6, <1>i
    <2>2. \A j \in Nat : j < argument + Len(b) => t[j] = strings[j] BY <1>6, <1>7
    <2>3. argument \in Nat /\ b \in Seq(Char) /\ Spells(strings, argument, b) BY <1>6
    <2>4. Len(Append(b, ch)) = Len(b) + 1 BY <2>3
    <2>5. ch \in Char /\ ch # Nul OBVIOUS
    <2>6. Spells(t, argument, Append(b, ch)) BY <2>1, <2>2, <2>3, <2>5, SpellsMore
    <2> QED BY <2>4, <2>6
  <1>9. Keeps(t, argTable, argCount, a, argument)
    <2>1. \A j \in Nat : j < argument => t[j] = strings[j] BY <1>6, <1>7
    <2>2. argCount <= Len(a) BY <1>6
    <2> QED BY <1>6, <2>1, <2>2, KeepsBelow
  <1>10. argument + Len(Append(b, ch)) = cpOut + 1
    <2>1. Len(b) \in Nat BY <1>6
    <2> QED BY <1>6, <1>8, <2>1
  <1>11. AtChar' BY <1>1, <1>5, <1>6, <1>8, <1>9, <1>10 DEF AtChar, t
  <1>12. Unread'
    <2>1. ASSUME NEW k \in cp + n .. End - 1 PROVE strings'[k] = line.text[k + 1]
      <3>1. k \in Nat /\ k # cpOut /\ k \in cp .. End - 1 BY <1>6, AtCharKnown
      <3>2. Unread BY AtCharKnown
      <3> QED BY <1>3, <3>1, <3>2 DEF Unread
    <2> QED BY <1>1, <2>1 DEF Unread
  <1> QED BY <1>1, <1>11, <1>12, AtCharKnown DEF Follows

LEMMA StoreFollows == ASSUME Inv, Follows, Store PROVE Follows'
  <1>1. /\ pc = "char" /\ Ordinary(strings[cp]) /\ strings[cp] # quote
        /\ quote # Nul \/ strings[cp] \notin Quotation
        /\ Put(strings[cp], 1) /\ UNCHANGED <<stringsLength, table, line>>
    BY DEF Store
  <1>2. /\ strings[cp] # Nul /\ strings[cp] # Backslash /\ (strings[cp] \in Blank => quote # Nul)
        /\ AtChar /\ strings[cp] \in Char /\ cp + 1 <= End
    BY <1>1, AtCharKnown DEF Ordinary
  <1>3. Here.mode # "escaped" /\ Here.quoted = quote BY <1>2 DEF AtChar
  <1>4. Turn(Here, strings[cp]) = Known("inside", Here.quoted, Append(Here.arg, strings[cp]), Here.args)
    BY <1>1, <1>2, <1>3 DEF Turn
  <1>5. Reading(line.text)[cp + 1] = Turn(Here, strings[cp]) BY <1>1, <1>2, AtCharKnown
  <1> QED BY <1>1, <1>2, <1>4, <1>5, PutFollows

(* A backslash is read, and what is known then. *)
LEMMA BackslashRead ==
  ASSUME Inv, Follows, pc = "char", strings[cp] = Backslash
  PROVE  /\ Reading(line.text)[cp + 1] = Known("escaped", Here.quoted, Here.arg, Here.args)
         /\ cp + 1 <= End /\ (strings[cp + 1] = Nul <=> cp + 1 = End)
  <1>1. strings[cp] # Nul /\ Backslash \notin Blank BY CharAssumption
  <1>2. Here.mode # "escaped" BY AtCharKnown DEF AtChar
  <1>3. Turn(Here, strings[cp]) = Known("escaped", Here.quoted, Here.arg, Here.args)
    BY <1>1, <1>2 DEF Turn
  <1>4. cp + 1 \in cp .. End BY <1>1, AtCharKnown
  <1> QED BY <1>1, <1>3, <1>4, AtCharKnown, AtEnd

LEMMA EscapeFollows == ASSUME Inv, Follows, Escape PROVE Follows'
  <1>1. pc = "char" /\ strings[cp] = Backslash /\ UNCHANGED <<stringsLength, table, line>>
    BY DEF Escape
  <1>2. CASE strings[cp + 1] = Nul
    <2>1. pc' = "idle" BY <1>2 DEF Escape, Fail, Leave
    <2> QED BY <2>1 DEF Follows
  <1>3. CASE strings[cp + 1] # Nul
    <2>1. Put(strings[cp + 1], 2) BY <1>3 DEF Escape
    <2>2. cp \in Nat /\ End \in Nat /\ cp + 1 \in cp .. End - 1
      BY <1>1, <1>3, AtCharKnown, BackslashRead
    <2>3. strings[cp + 1] \in Char /\
          Reading(line.text)[cp + 2] = Turn(Reading(line.text)[cp + 1], strings[cp + 1])
      <3>1. cp + 1 + 1 = cp + 2 /\ pc # "idle" BY <1>1, <2>2
      <3> QED BY <2>2, <3>1, ReadOn
    <2>4. Reading(line.text)[cp + 2]
            = Known("inside", Here.quoted, Append(Here.arg, strings[cp + 1]), Here.args)
      <3>1. Reading(line.text)[cp + 1] = Known("escaped", Here.quoted, Here.arg, Here.args)
        BY <1>1, BackslashRead
      <3> QED BY <2>3, <3>1 DEF Turn, Known
    <2>5. cp + 2 <= End BY <2>2
    <2> QED BY <1>1, <1>3, <2>1, <2>3, <2>4, <2>5, PutFollows
  <1> QED BY <1>2, <1>3

(* What is in the buffer behind an argument. *)
LEMMA OneMoreKnown ==
  ASSUME Inv, Follows, pc # "idle", OneMore
  PROVE  /\ Ended(Here) \in Seq(Seq(Char)) /\ Len(Ended(Here)) = argCount + 1
         /\ Ended(Here)[argCount + 1] \in Seq(Char)
         /\ argCount \in Nat /\ argument \in Nat /\ cpOut \in Nat /\ argument <= cpOut
         /\ Keeps(strings, argTable, argCount, Ended(Here), argument)
         /\ Spells(strings, argument, Ended(Here)[argCount + 1])
         /\ argument + Len(Ended(Here)[argCount + 1]) = cpOut
  <1>1. argCount \in Nat /\ argument \in Nat /\ cpOut \in Nat BY DEF Inv, TypeOK
  <1>2. Here \in Knowledge BY HereKnown
  <1>3. Ended(Here) \in Seq(Seq(Char))
    <2>1. Here.args \in Seq(Seq(Char)) /\ Here.arg \in Seq(Char) BY <1>2 DEF Knowledge
    <2> QED BY <2>1, AppendProperties DEF Ended
  <1>4. Len(Ended(Here)) = argCount + 1 BY DEF OneMore
  <1>5. Ended(Here)[argCount + 1] \in Seq(Char) BY <1>1, <1>3, <1>4, ElementOfSeq
  <1>6. /\ Keeps(strings, argTable, argCount, Ended(Here), argument)
        /\ Spells(strings, argument, Ended(Here)[argCount + 1])
        /\ argument + Len(Ended(Here)[argCount + 1]) = cpOut
    BY DEF OneMore
  <1>7. argument <= cpOut
    <2>1. Len(Ended(Here)[argCount + 1]) \in Nat BY <1>5
    <2> QED BY <1>1, <1>6, <2>1
  <1> QED BY <1>1, <1>3, <1>4, <1>5, <1>6, <1>7

(* An argument is ended with '\0', and its pointer put into the table. *)
LEMMA CloseArgumentFollows == ASSUME Inv, Follows, CloseArgument PROVE Follows'
  <1>1. pc = "close" /\ pc # "idle" /\ line' = line /\ End' = End
        /\ UNCHANGED <<stringsLength, argTable, argCount>>
    BY DEF CloseArgument, table, End
  <1>2. CASE quote # Nul
    <2>1. pc' = "idle" BY <1>2 DEF CloseArgument, Fail, Leave
    <2> QED BY <2>1 DEF Follows
  <1>3. CASE quote = Nul
    <2>1. pc' = "trail" /\ UNCHANGED <<cp, cpOut, argument, quote>>
          /\ strings' = (IF cp # cpOut THEN [strings EXCEPT ![cpOut] = Nul] ELSE strings)
      BY <1>3 DEF CloseArgument, scan
    <2>2. OneMore /\ (cp = cpOut => cp = End) /\ Unread BY <1>1, <1>3 DEF Follows, AtClose
    <2>3. cp \in Nat /\ cp <= End /\ End \in Nat /\ End < stringsLength /\ stringsLength \in Nat
      BY <1>1, HereKnown
    <2>4. argument <= cpOut /\ cpOut <= cp /\ strings[End] = Nul BY <1>1 DEF Inv, InPlace
    <2>5. Here' = Here BY <1>1, <2>1 DEF Here
    <2> DEFINE a == Ended(Here)
               t == strings'
               last == Ended(Here)[argCount + 1]
    <2>6. /\ a \in Seq(Seq(Char)) /\ Len(a) = argCount + 1 /\ last \in Seq(Char) /\ last = a[argCount + 1]
          /\ argCount \in Nat /\ argument \in Nat /\ cpOut \in Nat
          /\ Keeps(strings, argTable, argCount, a, argument)
          /\ Spells(strings, argument, last) /\ argument + Len(last) = cpOut
      BY <1>1, <2>2, OneMoreKnown
    <2>7. t[cpOut] = Nul /\ \A j \in Nat : j # cpOut => t[j] = strings[j]
      <3>1. CASE cp = cpOut BY <2>1, <2>2, <2>4, <3>1
      <3>2. CASE cp # cpOut
        <4>1. cpOut \in 0 .. stringsLength - 1 BY <2>3, <2>4, <2>6
        <4> QED BY <2>1, <3>2, <4>1 DEF Inv, TypeOK
      <3> QED BY <3>1, <3>2
    <2>8. Unread'
      <3>1. ASSUME NEW k \in cp .. End - 1 PROVE t[k] = line.text[k + 1]
        <4>1. k # cpOut /\ k \in Nat BY <2>2, <2>3, <2>4, <2>6
        <4> QED BY <2>2, <2>7, <4>1 DEF Unread
      <3> QED BY <1>1, <2>1, <3>1 DEF Unread
    <2> HIDE DEF a, t, last
    <2>9. \A j \in Nat : j < argument + Len(last) => t[j] = strings[j] BY <2>6, <2>7
    <2>10. \A j \in Nat : j < argument => t[j] = strings[j] BY <2>4, <2>6, <2>7
    <2>11. Keeps(t, argTable, argCount, a, argument)
      <3>1. argCount <= Len(a) BY <2>6
      <3> QED BY <2>6, <2>10, <3>1, KeepsBelow
    <2>12. Spells(t, argument, last) BY <2>6, <2>9, SpellsStays
    <2>13. OneMore'
      BY <1>1, <2>1, <2>2, <2>5, <2>6, <2>11, <2>12 DEF OneMore, a, t, last
    <2>14. strings'[cpOut'] = Nul /\ cpOut' <= cp' BY <2>1, <2>4, <2>7 DEF t
    <2> QED BY <1>1, <2>1, <2>8, <2>13, <2>14, HereKnown DEF Follows, AtTrail
  <1> QED BY <1>2, <1>3

LEMMA AddArgumentFollows == ASSUME Inv, Follows, AddArgument PROVE Follows'
  <1>1. pc = "add" /\ pc # "idle" /\ strings' = strings /\ line' = line /\ End' = End
    BY DEF AddArgument, buffer, End
  <1>2. CASE Fail("memory")
    <2>1. pc' = "idle" BY <1>2 DEF Fail, Leave
    <2> QED BY <2>1 DEF Follows
  <1>3. CASE /\ argTableSize' = IF argCount + 1 >= argTableSize THEN argCount + 2 ELSE argTableSize
             /\ argTable' = Extended(argTableSize')
             /\ argCount' = argCount + 1 /\ pc' = "next" /\ UNCHANGED <<scan, result>>
    <2>1. /\ OneMore /\ strings[cpOut] = Nul /\ cpOut <= cp /\ strings[cp] \notin Blank /\ Unread
          /\ line \in Lines
      BY <1>1 DEF Follows, AtAdd, AtTrail
    <2>2. cp' = cp /\ Here' = Here /\ Unread' BY <1>1, <1>3, <2>1 DEF Here, Unread, scan
    <2> DEFINE a == Ended(Here)
               last == Ended(Here)[argCount + 1]
               tab == argTable'
               size == argTableSize'
    <2>3. /\ a \in Seq(Seq(Char)) /\ Len(a) = argCount + 1 /\ last \in Seq(Char) /\ last = a[argCount + 1]
          /\ argCount \in Nat /\ argument \in Nat /\ cpOut \in Nat /\ argument <= cpOut
          /\ Keeps(strings, argTable, argCount, a, argument)
          /\ Spells(strings, argument, last) /\ argument + Len(last) = cpOut
      BY <1>1, <2>1, OneMoreKnown
    <2>4. argTableSize \in Nat /\ (argCount > 0 => argCount < argTableSize) /\ cp \in Nat
      BY <1>1 DEF Inv, TypeOK, TableFits
    <2>5. size = IF argCount + 1 >= argTableSize THEN argCount + 2 ELSE argTableSize BY <1>3
    <2>6. tab = [i \in 0 .. size - 1 |-> IF i = argCount THEN argument
                                         ELSE IF i < argTableSize THEN argTable[i] ELSE Junk]
      BY <1>3 DEF Extended
    <2> HIDE DEF a, last, tab, size
    <2>7. size \in Nat /\ argCount < size BY <2>3, <2>4, <2>5
    <2>8. tab[argCount] = argument
      <3>1. argCount \in 0 .. size - 1 BY <2>3, <2>7
      <3> QED BY <2>6, <3>1
    <2>9. ASSUME NEW i \in 1 .. argCount PROVE tab[i - 1] = argTable[i - 1]
      <3>1. i - 1 \in 0 .. size - 1 /\ i - 1 # argCount /\ i - 1 < argTableSize
        BY <2>3, <2>4, <2>7
      <3> QED BY <2>6, <3>1
    <2>10. ASSUME NEW i \in 1 .. argCount + 1
           PROVE  /\ tab[i - 1] \in Nat /\ Spells(strings, tab[i - 1], a[i])
                  /\ strings[tab[i - 1] + Len(a[i])] = Nul /\ tab[i - 1] + Len(a[i]) < cp + 1
      <3>1. CASE i = argCount + 1
        <4>1. i - 1 = argCount BY <2>3, <3>1
        <4>2. tab[i - 1] = argument /\ a[i] = last BY <2>3, <2>8, <3>1, <4>1
        <4>3. cpOut < cp + 1 BY <2>1, <2>3, <2>4
        <4> QED BY <2>1, <2>3, <4>2, <4>3
      <3>2. CASE i # argCount + 1
        <4>1. i \in 1 .. argCount BY <2>3, <3>2
        <4>2. tab[i - 1] = argTable[i - 1] BY <2>9, <4>1
        <4>3. /\ argTable[i - 1] \in Nat /\ Spells(strings, argTable[i - 1], a[i])
              /\ strings[argTable[i - 1] + Len(a[i])] = Nul
              /\ argTable[i - 1] + Len(a[i]) < argument
          BY <2>3, <4>1 DEF Keeps
        <4>4. a[i] \in Seq(Char)
          <5>1. i \in 1 .. Len(a) BY <2>3
          <5> QED BY <2>3, <5>1, ElementOfSeq
        <4>5. Len(a[i]) \in Nat BY <4>4
        <4>6. argTable[i - 1] + Len(a[i]) < cp + 1 BY <2>1, <2>3, <2>4, <4>3, <4>5
        <4> QED BY <4>2, <4>3, <4>6
      <3> QED BY <3>1, <3>2
    <2>11. Keeps(strings, tab, argCount + 1, a, cp + 1) BY <2>10 DEF Keeps
    <2>12. Meant(Here) /\ (Here.mode = "between" \/ cp = End) BY <2>1 DEF OneMore
    <2>13. AtNext'
      BY <1>1, <1>3, <2>1, <2>2, <2>3, <2>11, <2>12 DEF AtNext, a, tab
    <2> QED BY <1>1, <1>3, <2>1, <2>2, <2>13 DEF Follows
  <1> QED BY <1>2, <1>3 DEF AddArgument

-----------------------------------------------------------------------------
(* A call that gives up because of the quoting does so rightly. *)
LEMMA RefusedRightly ==
  ASSUME Inv, Follows, pc # "idle", NEW e \in {"memory", "quoting"}, Fail(e), line' = line,
         e = "quoting" => ~line.ok
  PROVE  ArgsAsQuoted'
  <1>1. retArgc = 0 BY DEF Inv, TableFits
  <1>2. ret' = 0 /\ error' = e /\ retArgc' = retArgc BY DEF Fail, Leave
  <1> QED BY <1>1, <1>2 DEF ArgsAsQuoted

(* What the whole line means. *)
LEMMA LineMeant ==
  ASSUME Inv, Follows, pc # "idle"
  PROVE  LET m == Reading(line.text)[End]
         IN  line.ok = Meant(m) /\ (line.ok => line.args = Ended(m))
  BY HereKnown, MeaningAssumption DEF End

(* The two refusals, and what a call returns. *)
LEMMA EscapeRight == ASSUME Inv, Follows, Escape PROVE ArgsAsQuoted'
  <1>1. pc = "char" /\ pc # "idle" /\ strings[cp] = Backslash /\ line' = line BY DEF Escape
  <1>2. CASE strings[cp + 1] = Nul
    <2>1. Fail("quoting") BY <1>2 DEF Escape
    <2>2. Reading(line.text)[End] = Known("escaped", Here.quoted, Here.arg, Here.args)
      BY <1>1, <1>2, BackslashRead
    <2>3. ~Meant(Reading(line.text)[End]) BY <2>2 DEF Meant, Known
    <2>4. ~line.ok BY <1>1, <2>3, LineMeant
    <2> QED BY <1>1, <2>1, <2>4, RefusedRightly
  <1>3. CASE strings[cp + 1] # Nul
    <2>1. pc' # "idle" BY <1>1, <1>3 DEF Escape, Put
    <2> QED BY <2>1 DEF ArgsAsQuoted
  <1> QED BY <1>2, <1>3

LEMMA CloseArgumentRight == ASSUME Inv, Follows, CloseArgument PROVE ArgsAsQuoted'
  <1>1. pc = "close" /\ pc # "idle" /\ line' = line BY DEF CloseArgument
  <1>2. CASE quote # Nul
    <2>1. Fail("quoting") BY <1>2 DEF CloseArgument
    <2>2. cp = End /\ Here.quoted = quote BY <1>1, <1>2 DEF Follows, AtClose
    <2>3. ~Meant(Reading(line.text)[End]) BY <1>2, <2>2 DEF Meant, Here
    <2>4. ~line.ok BY <1>1, <2>3, LineMeant
    <2> QED BY <1>1, <2>1, <2>4, RefusedRightly
  <1>3. CASE quote = Nul
    <2>1. pc' # "idle" BY <1>3 DEF CloseArgument
    <2> QED BY <2>1 DEF ArgsAsQuoted
  <1> QED BY <1>2, <1>3

LEMMA ReturnRight == ASSUME Inv, Follows, Return PROVE ArgsAsQuoted'
  <1>1. /\ pc = "next" /\ pc # "idle" /\ strings[cp] = Nul /\ retArgc' = argCount /\ ret' = 1
        /\ strings' = strings /\ stringsLength' = stringsLength /\ line' = line
        /\ argTable' = IF argCount = 0 THEN argTable ELSE [argTable EXCEPT ![argCount] = NoPtr]
    BY DEF Return, Leave, buffer
  <1>2. /\ cp \in Nat /\ End \in Nat /\ cp <= End /\ End < stringsLength /\ stringsLength \in Nat
        /\ Here \in Knowledge
    BY <1>1, HereKnown
  <1>3. cp = End
    <2>1. cp \in cp .. End BY <1>2
    <2> QED BY <1>1, <2>1, AtEnd
  <1>4. AtNext BY <1>1 DEF Follows
  <1>5. line.ok /\ line.args = Ended(Here)
    <2>1. Here = Reading(line.text)[End] BY <1>3 DEF Here
    <2>2. Meant(Here) BY <1>4 DEF AtNext
    <2> QED BY <1>1, <2>1, <2>2, LineMeant
  <1> DEFINE a == Ended(Here)
             tab == argTable'
  <1>6. /\ a \in Seq(Seq(Char)) /\ Len(a) = argCount /\ argCount \in Nat
        /\ Keeps(strings, argTable, argCount, a, cp + 1)
    <2>1. Here.args \in Seq(Seq(Char)) /\ Here.arg \in Seq(Char) BY <1>2 DEF Knowledge
    <2>2. a \in Seq(Seq(Char)) BY <2>1, AppendProperties DEF Ended
    <2> QED BY <1>4, <2>2 DEF AtNext, Inv, TypeOK
  <1>7. \A i \in 1 .. argCount : tab[i - 1] = argTable[i - 1]
    <2>1. argCount > 0 => argCount < argTableSize BY <1>1 DEF Inv, TableFits
    <2>2. argTableSize \in Nat BY DEF Inv, TypeOK
    <2>3. \A i \in 1 .. argCount : i - 1 \in 0 .. argTableSize - 1 /\ i - 1 # argCount
      BY <1>6, <2>1, <2>2
    <2> QED BY <1>1, <2>3 DEF Inv, TypeOK
  <1> HIDE DEF a, tab
  <1>8. ASSUME NEW i \in 1 .. argCount PROVE StringAt(tab[i - 1]) = a[i]
    <2> DEFINE p == argTable[i - 1]
               s == a[i]
    <2>1. i \in 1 .. Len(a) BY <1>6
    <2>2. s \in Seq(Char) BY <1>6, <2>1, ElementOfSeq
    <2>3. p \in Nat /\ Spells(strings, p, s) /\ strings[p + Len(s)] = Nul /\ p + Len(s) < cp + 1
      BY <1>6 DEF Keeps
    <2>4. tab[i - 1] = p BY <1>7
    <2> HIDE DEF p, s
    <2>5. Len(s) \in Nat BY <2>2
    <2>6. p + Len(s) < stringsLength BY <1>2, <2>3, <2>5
    <2>7. StringAt(p) = s BY <1>2, <2>2, <2>3, <2>6, StringFound
    <2> QED BY <2>4, <2>7 DEF s
  <1>9. [i \in 1 .. argCount |-> StringAt(tab[i - 1])] = a
    <2>1. a = [i \in 1 .. argCount |-> a[i]] BY <1>6
    <2>2. [i \in 1 .. argCount |-> StringAt(tab[i - 1])] = [i \in 1 .. argCount |-> a[i]] BY <1>8
    <2> QED BY <2>1, <2>2
  <1>10. ([i \in 1 .. retArgc |-> StringAt(argTable[i - 1])] = line.args)'
    <2>1. \A p : StringAt(p)' = StringAt(p) BY <1>1 DEF StringAt
    <2>2. [i \in 1 .. retArgc' |-> StringAt(argTable'[i - 1])] = line.args
      BY <1>1, <1>5, <1>9 DEF a, tab
    <2> QED BY <1>1, <2>2 DEF StringAt
  <1> QED BY <1>1, <1>5, <1>10 DEF ArgsAsQuoted

(* commandline_to_args returns the arguments the line means, for every line, *)
(* whatever was in the buffer and the table before, and refuses none that    *)
(* means something for its quoting.                                          *)
THEOREM QuotingRight == Spec => []ArgsAsQuoted
  <1> DEFINE Q == Inv /\ Follows /\ ArgsAsQuoted
  <1>1. Init => Q BY InitInv DEF Init, Follows, ArgsAsQuoted
  <1>2. ASSUME Q, [Next]_vars PROVE Q'
    <2>1. CASE UNCHANGED vars
      <3>1. Inv' BY <1>2, <2>1 DEF Inv, TypeOK, InPlace, TableFits, ArgvTerminated, End,
              vars, buffer, table, scan, result
      <3>2. Follows'
        BY <1>2, <2>1 DEF Follows, AtLead, AtNext, AtChar, AtClose, AtTrail, AtAdd, OneMore, Here,
           Unread, End, vars, buffer, table, scan
      <3>3. ArgsAsQuoted'
        BY <1>2, <2>1 DEF ArgsAsQuoted, StringAt, vars, buffer, table, result
      <3> QED BY <3>1, <3>2, <3>3
    <2>2. ASSUME NEW l \in Lines, Call(l) PROVE Q'
      <3>1. Inv' /\ Follows' BY <1>2, <2>2, CallInv, CallFollows
      <3>2. ArgsAsQuoted' BY <2>2 DEF Call, ArgsAsQuoted
      <3> QED BY <3>1, <3>2
    <2>3. CASE SkipBlank
      <3>1. pc' # "idle" BY <2>3 DEF SkipBlank
      <3> QED BY <1>2, <2>3, <3>1, SkipBlankInv, SkipBlankFollows DEF ArgsAsQuoted
    <2>4. CASE NextArgument
      <3>1. pc' # "idle" BY <2>4 DEF NextArgument
      <3> QED BY <1>2, <2>4, <3>1, NextArgumentInv, NextArgumentFollows DEF ArgsAsQuoted
    <2>5. CASE EndOfLine \/ Separator \/ CloseQuote \/ OpenQuote
      <3>1. pc' # "idle" BY <2>5 DEF EndOfLine, Separator, CloseQuote, OpenQuote
      <3>2. Inv' BY <1>2, <2>5, QuietInv
      <3>3. Follows' BY <1>2, <2>5, EndOfLineFollows, SeparatorFollows, QuoteFollows
      <3> QED BY <3>1, <3>2, <3>3 DEF ArgsAsQuoted
    <2>6. CASE Escape BY <1>2, <2>6, EscapeInv, EscapeFollows, EscapeRight
    <2>7. CASE Store
      <3>1. pc' # "idle" BY <2>7 DEF Store, Put
      <3> QED BY <1>2, <2>7, <3>1, StoreInv, StoreFollows DEF ArgsAsQuoted
    <2>8. CASE CloseArgument BY <1>2, <2>8, CloseArgumentInv, CloseArgumentFollows, CloseArgumentRight
    <2>9. CASE AddArgument
      <3>1. Inv' /\ Follows' BY <1>2, <2>9, AddArgumentInv, AddArgumentFollows
      <3>2. ArgsAsQuoted'
        <4>1. pc # "idle" /\ line' = line BY <2>9 DEF AddArgument
        <4>2. Fail("memory") \/ pc' = "next" BY <2>9 DEF AddArgument
        <4>3. CASE Fail("memory") BY <1>2, <4>1, <4>3, RefusedRightly
        <4>4. CASE pc' = "next" BY <4>4 DEF ArgsAsQuoted
        <4> QED BY <4>2, <4>3, <4>4
      <3> QED BY <3>1, <3>2
    <2>10. CASE Return
      <3>1. pc' = "idle" BY <2>10 DEF Return, Leave
      <3> QED BY <1>2, <2>10, <3>1, ReturnInv, ReturnRight DEF Follows
    <2> QED BY <1>2, <2>1, <2>2, <2>3, <2>4, <2>5, <2>6, <2>7, <2>8, <2>9, <2>10 DEF Next, Step
  <1>3. Q => ArgsAsQuoted OBVIOUS
  <1> HIDE DEF Q
  <1> QED BY <1>1, <1>2, <1>3, PTL DEF Spec
=============================================================================
