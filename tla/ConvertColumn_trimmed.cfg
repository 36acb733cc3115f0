SPECIFICATION Spec
CONSTANTS
  Ints = {0}
  Floats = {f1}
  Strings = {s1}
  MaxChunks = 1
  MaxLength = 9
  ByteBits = 8
  FloatBits = 2
  IntBits = 5
  TrimsBitmaps = TRUE
  Null = Null
  NaN = NaN
  None = None
  Unset = Unset
INVARIANTS
  IsNullIsExact
CHECK_DEADLOCK FALSE
