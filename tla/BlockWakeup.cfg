\* Three threads mixing blocking I/O, non-det regions and turn wrappers.
CONSTANTS
  Threads = {0, 1, 2}
  NonDetCV = NonDetCV
  MaxOps = 6
  FOREVER = FOREVER
  NULL = NULL
  Idle = Idle
  DMT = TRUE
  EnforceAnnotations = TRUE
  EnforceNonDetAnnotations = TRUE
  RRIgnoreRwRegularFile = TRUE
SPECIFICATION Spec
INVARIANT ThreadPlacement
VIEW MC_View
PROPERTY AllThreadsEnd
