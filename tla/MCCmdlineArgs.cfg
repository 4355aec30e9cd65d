SPECIFICATION Spec
CONSTANTS
  Char <- MCChar
  Nul = 0
  Blank <- MCBlank
  Quotation <- MCQuotation
  Backslash = 92
  NoPtr <- MCNoPtr
  Junk <- MCJunk
  Lines <- MCLines
INVARIANTS TypeOK InPlace ArgvTerminated ArgsAsQuoted
