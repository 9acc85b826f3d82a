CONSTANTS
  Thread = {t1, t2, t3}
  Addr = {a1, a2}
  Size = 2
  AVAILABLE = AVAILABLE
  ERROR = ERROR
  NULL = NULL
SPECIFICATION FairSpec
INVARIANTS
  TypeOK
  Exclusive
  ReleaseFindsOwnSlot
  NoUseAfterFinish
  NoLostWakeup
  DestroyClosesAll
PROPERTIES
  FreeSlotIsTaken
  ImplementsConnPool
CHECK_DEADLOCK FALSE
