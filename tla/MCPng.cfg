SPECIFICATION PngSpec
CONSTANTS
  Calls <- MCCalls
  MAXLEN = 3
  FAST_BITS = 1
  BITS = 3
  LITERALS = 2
  LengthBase <- MCLengthBase
  LengthExtra <- MCLengthExtra
  DistBase <- MCDistBase
  DistExtra <- MCDistExtra
  FixedLength <- MCFixedLength
  FixedDist <- MCFixedDist
  Dezigzag <- MCDezigzag
  HLIT = 2
  HDIST = 2
  HCLEN = 2
  HSIZE = 2
  Repeat <- MCRepeat
  LENCODES = 13
  Loads <- MCLoads
  Depths <- MCDepths
  MAXDIM = 16
  AREA = 128
  IDATA = 4
  UINT = 512
  Luma <- MCLuma
INVARIANTS InflatesRight OutputFits LoadsRight MemoryRight
 
