\* Two parents spawning at once: a new thread woken by the other parent's post.
CONSTANTS
  Threads = {0, 1, 2, 3}
  Main = 0
  Spawns <- MC_NestedSpawns
  InvalidTid = InvalidTid
  Unset = Unset
  FOREVER = FOREVER
  NULL = NULL
  MaxCalls = 1
SPECIFICATION Spec
INVARIANT ChildGetsOwnTid
