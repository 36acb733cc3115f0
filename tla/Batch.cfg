SPECIFICATION BatchSpec
CONSTANTS
  Ints <- MCInts
  Floats = {f1, f2}
  Strings = {s1, s2}
  MaxChunks = 2
  MaxLength = 3
  ByteBits = 2
  FloatBits = 2
  IntBits = 5
  TrimsBitmaps = FALSE
  Null = Null
  NaN = NaN
  None = None
  Unset = Unset
  Descs <- MCDescs
  IntValues <- MCIntValues
  Lengths = {0, 6}
  IntMax = 127
  MaxDepth = 8
  MaxDescs = 2
  NumRows = 2
INVARIANTS ConvertedRight RoomForTheRest RefsMatchCells TableAligned
CHECK_DEADLOCK FALSE
