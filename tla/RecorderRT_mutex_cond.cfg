\* Mutexes, condition variables, timed waits, sleep, create and join: safety and liveness of timed waits.
CONSTANTS
  Threads = {0, 1, 2}
  Main = 0
  Mutexes = {m1}
  CondVars = {c1}
  Barriers = {}
  Sems = {}
  RWLocks = {}
  BarrierCount = 2
  SemInit = 0
  MaxSem = 1
  MaxOps = 4
  RelTimes <- MC_RelTimes
  FOREVER = FOREVER
  NULL = NULL
  NoThread = NoThread
  NanosecPerTurn = 100
  Width = 30
  DestroyBusy = FALSE
SPECIFICATION Spec
CHECK_DEADLOCK FALSE
INVARIANT ThreadInOneQueue NoLostWakeup
PROPERTY TimedWaitReturns NativeSemantics
