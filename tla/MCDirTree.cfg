CONSTANTS
  Name = {"a", "b"}
  Id = {1, 2, 3}
  Meta = {"m"}
  MaxDepth = 3
  IntMod = 8
  LittleEndian = TRUE
  InitialDir <- MCInitialDir
SPECIFICATION Spec
INVARIANTS
  TypeOK
  EveryRowHasOnePath
  LookupFinds
  ReaddirListsWhatLookupFinds
  RemovalsAreNotRefused
PROPERTIES
  ImplementsNamespace
  ReadOnlyKeepsFiles
