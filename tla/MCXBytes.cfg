SPECIFICATION MCSpec
CONSTANTS
  Byte <- MCByte
  Nul = 0
  Junk <- MCJunk
  Chunk <- MCChunk
  Slack = 1
  MaxLen = 4
  MaxRoom = 2
  Element = {1, 2, 3, 4}
  Zero = 0
  Garbage = 9
  ElementSize = 2
  Extra = 1
  MaxAhead = 2
INVARIANTS TypeOK RoomForTerminator ContentInitialised ArrayTypeOK OwnedOnce VisitsAll
PROPERTY AppendOnly IsList
