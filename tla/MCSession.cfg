CONSTANTS
  Thread = {t1, t2}
  Conn = {c1, c2}
  NULL = NULL
  Op = {"create", "rename", "statfs", "other"}
  LinkMayFail = TRUE
SPECIFICATION FairSpec
INVARIANTS
  TypeOK
  FreeConnsAreClean
  SuccessIsCommittedButCreate
  OnlyBrokenConnsAreLost
PROPERTY PoolRefills
CHECK_DEADLOCK FALSE
