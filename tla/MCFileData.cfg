CONSTANTS
  BS = 3
  IntMod = 4096
  SizeMod = 49152
  Byte = {0, 1, 2}
  JUNK = JUNK
  MaxOffset = 6
  MaxLen = 4
  Offset <- MCOffset
  Buffer <- MCBuffer
  PageSize = 3
  LittleEndian = TRUE
SPECIFICATION Spec
INVARIANTS
  TypeOK
  BlocksArePadded
  NothingBehindEnd
  RangesAreSplit
  DenseReadsExact
  StaleReadsAreRefused
PROPERTY ImplementsByteFile
