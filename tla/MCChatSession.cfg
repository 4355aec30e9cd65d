SPECIFICATION Spec
CONSTANTS
  User = {ann, bob}
  Block = 2
  Chunk = 4
  Typed <- MCTyped
  Pass = {p}
  Cuts <- MCCuts
  MaxRuns = 3
  MaxLines = 1
INVARIANTS Understood Legible NothingForeign
PROPERTY Answered
CHECK_DEADLOCK FALSE
