CONSTANTS
  Handler = {1, 2}
  GONE = GONE
  BS = 2
  IntMod = 4096
  SizeMod = 65536
  MaxCalls = 2
  LittleEndian = TRUE
  Call <- AllCalls
  InitialDb <- SmallDbs
SPECIFICATION FairSpec
INVARIANTS
  TypeOK
  ReferencesHold
  TreeUnlessRenamesOverlap
  SizesUnlessWritersOverlap
PROPERTIES
  CommitsAreNamespaceSteps
  OnlyRenameMoves
  CommitsChangeTheirBytes
  HandlersReturn
CHECK_DEADLOCK FALSE
