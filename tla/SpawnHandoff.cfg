\* Threads all created by main: every new thread learns its own id before its parent's pthreadCreate returns, and no spawn leaves a thread stuck (deadlock check).
CONSTANTS
  Threads = {0, 1, 2, 3}
  Main = 0
  Spawns <- MC_MainSpawns
  InvalidTid = InvalidTid
  Unset = Unset
  FOREVER = FOREVER
  NULL = NULL
  MaxCalls = 1
SPECIFICATION Spec
INVARIANT ChildGetsOwnTid CreateWaitsForChild
