\* A lineup of count 3 among 3 threads, timeout of 4 turns.
CONSTANTS
  Threads = {0, 1, 2}
  L = L
  Count = 3
  Timeout = 4
  MaxOps = 6
  FOREVER = FOREVER
  NULL = NULL
  DMT = TRUE
  EnforceAnnotations = TRUE
  EnforceNonDetAnnotations = TRUE
  RRIgnoreRwRegularFile = TRUE
SPECIFICATION Spec
INVARIANT LeavingHasNoWaiters RoundsDoNotOverlap
