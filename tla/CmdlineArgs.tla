----------------------------- MODULE CmdlineArgs -----------------------------
(***************************************************************************)
(* commandline_to_args of src/utils/console.c: the REPL's line becomes an  *)
(* argv.  The line is copied into a static buffer, rewritten there in      *)
(* place, and a static table of pointers into it is returned.  Both only   *)
(* grow, are used again by the next call, and may fail to grow.  Pointers  *)
(* into the buffer are offsets.                                            *)
(***************************************************************************)
EXTENDS Integers, Sequences

CONSTANTS
  Char, Nul,          \* characters; '\0'
  Blank, Quotation,   \* ' ' and '\t'; '"' and '\''
  Backslash,
  NoPtr, Junk,        \* NULL; a table cell nobody has written
  Lines               \* what users type: the text, the arguments it means,
                      \* and whether it means anything

ASSUME CharAssumption ==
  /\ Nul \in Char /\ Backslash \in Char /\ Blank \subseteq Char /\ Quotation \subseteq Char
  /\ Nul \notin Blank \cup Quotation \cup {Backslash} /\ Backslash \notin Blank
ASSUME PointerAssumption == NoPtr \notin Nat /\ Junk \notin Nat
ASSUME LineAssumption == \A l \in Lines : l.text \in Seq(Char \ {Nul})

(* What a line means, whatever memory it is kept in: m is what a reader knows  *)
(* of it so far, and Turn what the next character adds.                        *)
Known(mode, quoted, arg, args) == [mode |-> mode, quoted |-> quoted, arg |-> arg, args |-> args]

Begun    == Known("between", Nul, <<>>, <<>>)
Ended(m) == IF m.mode = "between" THEN m.args ELSE Append(m.args, m.arg)

Turn(m, ch) ==
  IF m.mode = "escaped" THEN Known("inside", m.quoted, Append(m.arg, ch), m.args)
  ELSE IF ch \in Blank /\ m.quoted = Nul THEN Known("between", Nul, <<>>, Ended(m))
  ELSE IF ch = Backslash THEN Known("escaped", m.quoted, m.arg, m.args)
  ELSE IF ch = m.quoted THEN Known("inside", Nul, m.arg, m.args)
  ELSE IF ch \in Quotation /\ m.quoted = Nul THEN Known("inside", ch, m.arg, m.args)
  ELSE Known("inside", m.quoted, Append(m.arg, ch), m.args)

(* What is known after each number of characters. *)
Reading(text) ==
  LET after[n \in 0 .. Len(text)] == IF n = 0 THEN Begun ELSE Turn(after[n - 1], text[n])
  IN  after

Meant(m) == m.mode # "escaped" /\ m.quoted = Nul

ASSUME MeaningAssumption ==
  \A l \in Lines :
    LET m == Reading(l.text)[Len(l.text)]
    IN  l.ok = Meant(m) /\ (l.ok => l.args = Ended(m))

VARIABLES
  strings, stringsLength,         \* the static buffer
  argTable, argTableSize, argCount, \* the static table
  pc, cp, cpOut, argument, quote, \* the call that runs
  line,                           \* its cmd
  ret, retArgc,                   \* what the last call returned (FALSE is 0); *retArgv is
                                  \* argTable if *retArgc > 0, and else NULL
  error                           \* the error it logged

buffer == <<strings, stringsLength>>
table  == <<argTable, argTableSize, argCount>>
scan   == <<cp, cpOut, argument, quote>>
result == <<ret, retArgc, error>>
vars   == <<buffer, table, pc, scan, line, result>>

Init ==
  /\ strings = [i \in 0 .. -1 |-> Nul] /\ stringsLength = 0
  /\ argTable = [i \in 0 .. -1 |-> NoPtr] /\ argTableSize = 0 /\ argCount = 0
  /\ pc = "idle" /\ cp = 0 /\ cpOut = 0 /\ argument = 0 /\ quote = Nul
  /\ line = [text |-> <<>>, args |-> <<>>, ok |-> TRUE]
  /\ ret = 0 /\ retArgc = 0 /\ error = "none"

End == Len(line.text)     \* the offset of the line's '\0'

(* The end of the call, and of its locals. *)
Leave(r) ==
  /\ pc' = "idle" /\ ret' = r
  /\ cp' = 0 /\ cpOut' = 0 /\ argument' = 0 /\ quote' = Nul
Fail(err) == Leave(0) /\ error' = err /\ UNCHANGED retArgc

-----------------------------------------------------------------------------
(* The buffer with text and its '\0' copied to the front. *)
Copied(text, size) ==
  [i \in 0 .. size - 1 |-> IF i < Len(text) THEN text[i + 1]
                           ELSE IF i = Len(text) THEN Nul ELSE strings[i]]

Call(l) ==
  /\ pc = "idle"
  /\ line' = l /\ retArgc' = 0 /\ argCount' = 0
  /\ LET len == Len(l.text) + 1
     IN  \/ /\ len > stringsLength                          \* realloc fails
            /\ ret' = 0 /\ error' = "memory"
            /\ UNCHANGED <<buffer, pc, cp>>
         \/ /\ stringsLength' = IF len > stringsLength THEN len ELSE stringsLength
            /\ strings' = Copied(l.text, stringsLength')
            /\ pc' = "lead" /\ cp' = 0 /\ error' = "none"
            /\ UNCHANGED ret
  /\ UNCHANGED <<argTable, argTableSize, cpOut, argument, quote>>

(* Blanks before the first argument, and behind each, become '\0'. *)
SkipBlank ==
  /\ pc \in {"lead", "trail"}
  /\ IF strings[cp] \in Blank
     THEN strings' = [strings EXCEPT ![cp] = Nul] /\ cp' = cp + 1 /\ UNCHANGED pc
     ELSE pc' = (IF pc = "lead" THEN "next" ELSE "add") /\ UNCHANGED <<strings, cp>>
  /\ UNCHANGED <<stringsLength, table, cpOut, argument, quote, line, result>>

NextArgument ==
  /\ pc = "next" /\ strings[cp] # Nul
  /\ argument' = cp /\ cpOut' = cp /\ quote' = Nul /\ pc' = "char"
  /\ UNCHANGED <<buffer, table, cp, line, result>>

-----------------------------------------------------------------------------
(* The turns of the inner loop, one for each kind of character. *)

EndOfLine ==
  /\ pc = "char" /\ strings[cp] = Nul
  /\ pc' = "close"
  /\ UNCHANGED <<buffer, table, scan, line, result>>

Separator ==
  /\ pc = "char" /\ strings[cp] \in Blank /\ quote = Nul
  /\ cp' = cp + 1 /\ pc' = "close"
  /\ UNCHANGED <<buffer, table, cpOut, argument, quote, line, result>>

Put(ch, n) ==
  /\ strings' = [strings EXCEPT ![cpOut] = ch]
  /\ cpOut' = cpOut + 1 /\ cp' = cp + n
  /\ UNCHANGED <<pc, argument, quote, result>>

(* Definitions named ...Bug are mistakes this code could easily have had; each *)
(* stands before the definition it would spoil.                               *)
EscapeBug ==            \* does not look for the end of the line
  /\ pc = "char" /\ strings[cp] = Backslash
  /\ Put(strings[cp + 1], 2)
  /\ UNCHANGED <<stringsLength, table, line>>

(* The next character is taken as it is, in quotes too. *)
Escape ==
  /\ pc = "char" /\ strings[cp] = Backslash
  /\ IF strings[cp + 1] = Nul
     THEN Fail("quoting") /\ UNCHANGED strings
     ELSE Put(strings[cp + 1], 2)
  /\ UNCHANGED <<stringsLength, table, line>>

Ordinary(ch) == ch \notin {Nul, Backslash} /\ (ch \in Blank => quote # Nul)

CloseQuote ==
  /\ pc = "char" /\ Ordinary(strings[cp]) /\ strings[cp] = quote
  /\ quote' = Nul /\ cp' = cp + 1
  /\ UNCHANGED <<buffer, table, pc, cpOut, argument, line, result>>

OpenQuoteBug ==         \* any quotation mark, in quotes too
  /\ pc = "char" /\ Ordinary(strings[cp]) /\ strings[cp] # quote
  /\ strings[cp] \in Quotation
  /\ quote' = strings[cp] /\ cp' = cp + 1
  /\ UNCHANGED <<buffer, table, pc, cpOut, argument, line, result>>

OpenQuote ==
  /\ pc = "char" /\ Ordinary(strings[cp]) /\ strings[cp] # quote
  /\ quote = Nul /\ strings[cp] \in Quotation
  /\ quote' = strings[cp] /\ cp' = cp + 1
  /\ UNCHANGED <<buffer, table, pc, cpOut, argument, line, result>>

Store ==
  /\ pc = "char" /\ Ordinary(strings[cp]) /\ strings[cp] # quote
  /\ quote # Nul \/ strings[cp] \notin Quotation
  /\ Put(strings[cp], 1)
  /\ UNCHANGED <<stringsLength, table, line>>

-----------------------------------------------------------------------------
(* Behind an argument: quotes must be closed, and a shrunk argument ends *)
(* before the place where reading goes on.                               *)
CloseArgument ==
  /\ pc = "close"
  /\ IF quote # Nul THEN Fail("quoting") /\ UNCHANGED strings
     ELSE /\ strings' = IF cp # cpOut THEN [strings EXCEPT ![cpOut] = Nul] ELSE strings
          /\ pc' = "trail" /\ UNCHANGED <<scan, result>>
  /\ UNCHANGED <<stringsLength, table, line>>

ExtendedBug(size) ==    \* one cell less than is noted
  [i \in 0 .. size - 2 |-> IF i = argCount THEN argument
                           ELSE IF i < argTableSize THEN argTable[i] ELSE Junk]

(* The table's first size cells, with argument behind the argCount used ones. *)
Extended(size) ==
  [i \in 0 .. size - 1 |-> IF i = argCount THEN argument
                           ELSE IF i < argTableSize THEN argTable[i] ELSE Junk]

AddArgumentBug ==       \* forgets the NULL behind the last argument
  /\ pc = "add"
  /\ \/ argCount >= argTableSize /\ Fail("memory") /\ UNCHANGED table
     \/ /\ argTableSize' = IF argCount >= argTableSize THEN argCount + 1 ELSE argTableSize
        /\ argTable' = Extended(argTableSize')
        /\ argCount' = argCount + 1 /\ pc' = "next" /\ UNCHANGED <<scan, result>>
  /\ UNCHANGED <<buffer, line>>

AddArgument ==
  /\ pc = "add"
  /\ \/ argCount + 1 >= argTableSize /\ Fail("memory") /\ UNCHANGED table      \* realloc fails
     \/ /\ argTableSize' = IF argCount + 1 >= argTableSize THEN argCount + 2 ELSE argTableSize
        /\ argTable' = Extended(argTableSize')
        /\ argCount' = argCount + 1 /\ pc' = "next" /\ UNCHANGED <<scan, result>>
  /\ UNCHANGED <<buffer, line>>

Return ==
  /\ pc = "next" /\ strings[cp] = Nul
  /\ argTable' = IF argCount = 0 THEN argTable ELSE [argTable EXCEPT ![argCount] = NoPtr]
  /\ retArgc' = argCount /\ Leave(1) /\ UNCHANGED error
  /\ UNCHANGED <<buffer, argTableSize, argCount, line>>

Step ==
  \/ SkipBlank \/ NextArgument
  \/ EndOfLine \/ Separator \/ Escape \/ CloseQuote \/ OpenQuote \/ Store
  \/ CloseArgument \/ AddArgument \/ Return

Next == (\E l \in Lines : Call(l)) \/ Step

Spec == Init /\ [][Next]_vars

-----------------------------------------------------------------------------
TypeOK ==
  /\ stringsLength \in Nat /\ strings \in [0 .. stringsLength - 1 -> Char]
  /\ argTableSize \in Nat /\ argTable \in [0 .. argTableSize - 1 -> Nat \cup {NoPtr, Junk}]
  /\ argCount \in Nat /\ retArgc \in Nat /\ ret \in {0, 1}
  /\ error \in {"none", "memory", "quoting"}
  /\ pc \in {"idle", "lead", "next", "char", "close", "trail", "add"}
  /\ cp \in Nat /\ cpOut \in Nat /\ argument \in Nat /\ quote \in Quotation \cup {Nul}
  /\ line.text \in Seq(Char \ {Nul})

(* The rewriting in place never overtakes the reading, and the reading never  *)
(* passes the end of the line: the '\0' there is still in place, whatever     *)
(* quotes and backslashes the line holds, in a buffer left over from earlier  *)
(* lines.  No access of the call leaves the buffer.                           *)
InPlace ==
  pc # "idle" =>
    /\ End < stringsLength /\ strings[End] = Nul
    /\ cp <= End
    /\ pc \in {"char", "close"} => argument <= cpOut /\ cpOut <= cp

(* After a call, and until the next, the caller's argv is in the table and   *)
(* ends with NULL, and each argument is a '\0'-terminated string inside the   *)
(* buffer, also when the table was made by a longer line before, or a growth  *)
(* failed in between.                                                         *)
ArgvTerminated ==
  pc = "idle" /\ retArgc > 0 =>
    /\ retArgc < argTableSize /\ argTable[retArgc] = NoPtr
    /\ End < stringsLength /\ strings[End] = Nul
    /\ \A i \in 0 .. retArgc - 1 : argTable[i] \in 0 .. End

(* The string a pointer points to. *)
StringAt(p) ==
  LET n == CHOOSE n \in 0 .. stringsLength - p - 1 :
             strings[p + n] = Nul /\ \A k \in 0 .. n - 1 : strings[p + k] # Nul
  IN  [k \in 1 .. n |-> strings[p + k - 1]]

(* The arguments are those the line means, however they were quoted.  Only a *)
(* line with an open quote or a backslash at its end is refused for its      *)
(* quoting; what is refused gives no arguments.                              *)
ArgsAsQuoted ==
  pc = "idle" =>
    IF ret = 1 THEN line.ok /\ [i \in 1 .. retArgc |-> StringAt(argTable[i - 1])] = line.args
    ELSE retArgc = 0 /\ (error = "quoting" => ~line.ok)
=============================================================================
