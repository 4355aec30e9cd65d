SPECIFICATION Spec
CONSTANTS
  FileBits = 8
  MaxBits = 9
  PtrSize = 4
INVARIANTS CountsMeant LinearMeant WalkMeant BatteryRuns
CHECK_DEADLOCK FALSE
