CONSTANTS
  Thread = {t1}
  Addr = {a1, a2}
  Size = 2
  AVAILABLE = AVAILABLE
  ERROR = ERROR
  NULL = NULL
SPECIFICATION Spec
SYMMETRY Symmetry
INVARIANT FinishOnce
CHECK_DEADLOCK FALSE
