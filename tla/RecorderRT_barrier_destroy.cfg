\* A program that destroys a barrier threads are waiting at, counting on EBUSY.
CONSTANTS
  Threads = {0, 1, 2}
  Main = 0
  Mutexes = {}
  CondVars = {}
  Barriers = {b1}
  Sems = {}
  RWLocks = {}
  BarrierCount = 3
  SemInit = 0
  MaxSem = 1
  MaxOps = 5
  RelTimes <- MC_RelTimes
  FOREVER = FOREVER
  NULL = NULL
  NoThread = NoThread
  NanosecPerTurn = 100
  Width = 30
  DestroyBusy = TRUE
SPECIFICATION Spec
CHECK_DEADLOCK FALSE
INVARIANT BarrierConsistent
