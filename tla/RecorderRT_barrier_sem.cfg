\* Barriers, semaphores (plain, try and timed), sleep, create and join.
CONSTANTS
  Threads = {0, 1, 2}
  Main = 0
  Mutexes = {}
  CondVars = {}
  Barriers = {b1}
  Sems = {s1}
  RWLocks = {}
  BarrierCount = 3
  SemInit = 0
  MaxSem = 1
  MaxOps = 5
  RelTimes <- MC_RelTimes
  FOREVER = FOREVER
  NULL = NULL
  NoThread = NoThread
  NanosecPerTurn = 100
  Width = 30
  DestroyBusy = FALSE
SPECIFICATION Spec
CHECK_DEADLOCK FALSE
INVARIANT TypeOK ThreadInOneQueue NoLostWakeup BarrierConsistent
PROPERTY NativeSemantics
