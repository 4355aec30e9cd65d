SPECIFICATION Spec
CONSTANTS
  Trials <- MCTrials
  LineLens <- MCLineLens
  DumpWidth = 4
  LongMax = 127
  KiloBytes = 4
  MarkerDashes = 1
INVARIANT InvalidCharRefused
CHECK_DEADLOCK FALSE
