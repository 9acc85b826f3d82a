CONSTANTS
  Thread = {t1}
  Conn = {c1}
  NULL = NULL
  Op = {"create"}
  LinkMayFail = FALSE
SPECIFICATION Spec
INVARIANT SuccessIsCommitted
