\* Readers parked behind a writer when it unlocks.
CONSTANTS
  Threads = {0, 1, 2}
  Main = 0
  Mutexes = {}
  CondVars = {}
  Barriers = {}
  Sems = {}
  RWLocks = {l1}
  BarrierCount = 2
  SemInit = 0
  MaxSem = 1
  MaxOps = 6
  RelTimes <- MC_RelTimes
  FOREVER = FOREVER
  NULL = NULL
  NoThread = NoThread
  NanosecPerTurn = 100
  Width = 30
  DestroyBusy = FALSE
SPECIFICATION Spec
CHECK_DEADLOCK FALSE
INVARIANT RWLockReaderNotStranded
