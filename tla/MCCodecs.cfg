SPECIFICATION Spec
CONSTANTS
  Trials <- MCTrials
  LineLens <- MCLineLens
  DumpWidth = 4
  LongMax = 127
  KiloBytes = 4
  MarkerDashes = 1
INVARIANTS HexMeant LinesFit Base64Meant CFormatsMeant SizeMeant PemMeant Asn1Meant
CHECK_DEADLOCK FALSE
