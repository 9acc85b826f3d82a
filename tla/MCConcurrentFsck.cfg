CONSTANTS
  Handler = {1, 2}
  GONE = GONE
  BS = 2
  IntMod = 4096
  SizeMod = 65536
  MaxCalls = 2
  LittleEndian = TRUE
  Call <- FsckCalls
  InitialDb <- SmallDbs
SPECIFICATION Spec
INVARIANT FsckFindsNothing
CHECK_DEADLOCK FALSE
