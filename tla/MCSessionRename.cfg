CONSTANTS
  Thread = {t1, t2}
  Conn = {c1, c2}
  NULL = NULL
  Op = {"rename"}
  LinkMayFail = FALSE
SPECIFICATION Spec
INVARIANT NoConnLost
CHECK_DEADLOCK FALSE
