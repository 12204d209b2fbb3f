SPECIFICATION LockSpec
CONSTANTS
  Process = {p1, p2, p3}
  Nobody = Nobody
  ShortOperations = TRUE
INVARIANT Exclusion
CHECK_DEADLOCK FALSE
