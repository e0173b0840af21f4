CONSTANTS
  NanosecPerTurn = 100
  Width = 30
  Times <- MC_Times
  BaseTimes <- MC_BaseTimes
  BaseTimevals <- MC_BaseTimevals
  DMT = TRUE
  EnforceAnnotations = TRUE
  EnforceNonDetAnnotations = TRUE
  RRIgnoreRwRegularFile = TRUE
  NThreads = {1, 2, 3}

SPECIFICATION Spec

INVARIANT TypeOK
INVARIANT TimeDiffExact
INVARIANT FutureTimeoutClamped
