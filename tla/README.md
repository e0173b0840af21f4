# TLA+ models of the xtern record runtime

This directory holds TLA+ models of xtern's deterministic multithreading
(DMT) runtime, `RecorderRT<RRScheduler>`, in `src/lib/runtime/record-runtime.cpp`.
It also holds an abstract specification of the native semantics that runtime
must keep, a model of the path slicer's event analysis
(`src/lib/path-slicer/event-mgr.cpp`), and the TLC configurations that check
them.

## The system

xtern makes a multithreaded program deterministic by passing a single **turn**
between its threads. Every pthread call the program makes is redirected to a
wrapper of `RecorderRT`. Each wrapper does three things:

1. `SCHED_GET_TURN` blocks until the calling thread heads the scheduler's run queue.
2. It performs the operation on the native object, which is always a
   non-blocking `trylock`/`trywait`/... call.
3. `SCHED_PUT_TURN` increments the turn counter and rotates the thread to the
   tail of the run queue.

A wrapper that cannot complete calls `wait(chan, deadline)`. This moves the
thread to the wait queue and releases the turn. Whoever releases the resource
later calls `signal(chan)` while holding the turn, which moves the waiter back
to the run queue. When that thread again heads the run queue, `wait` returns
and the wrapper continues where it stopped.

Physical timeouts are converted into numbers of turns, so that a timed wait
expires at the same logical point in every run.

The parts, as spec.md names them:

| Part | Code | Model |
|---|---|---|
| A. Thread registry, spawn hand-off | `threadBegin`, `threadEnd`, `pthreadCreate`, `pthreadJoin` (lines 454-559) | `RecorderRT`, `SpawnHandoff` |
| B. Turn scheduler | `RRScheduler`, not in `src/` (spec.md 4.B) | `RRScheduler` (spec-modelled) |
| C. Logical clock | `time_diff`, `time2turn`, `relTimeToTurn`, `setBaseTime` (147-230, 1589-1596) | `TimeConv`, `LogicalClock` |
| D. Sync wrappers | mutex, cond, barrier, sem, rwlock, sleep, yield, and their init/destroy (561-1410, 1883-1936) | `RecorderRT` |
| D. Lineup | `lineupInit/Start/End/Destroy` (1412-1505) | `Lineup` |
| E. Blocking I/O wrappers | `BLOCK_TIMER_START/END`, `regularFile`, 271-291, 1605-2063 | `BlockWakeup` |
| F. Idle thread | `idle_sleep`, `idle_cond_wait` (246-270) | `BlockWakeup` (its loop and parking from spec.md 4.F) |
| G. Non-det regions | `nonDetStart/End/BarrierEnd`, 1507-1587 | `BlockWakeup` |
| H. Log appender, serializer | `Logger`, `RecorderRT<RecordSerializer>` (2108-2335) | not modelled: formatting and file I/O |
| Native semantics the wrappers keep (spec.md 4.D) | none: the promise, not code | `NativeSync` (abstract) |
| Path slicer event analysis | `EventMgr` in `event-mgr.cpp` | `EventMgr` |
| Annotation hooks | `tern_lineup_*`, `tern_non_det_*`, `tern_set_base_time*` in `template.c` (35-134) | `Options`, with the steps of `Lineup`, `BlockWakeup`, `LogicalClock` |

The other files under `src/` are compile-time instrumentation tables, tests,
benchmark apps and a build script.
None of them holds runtime state of the DMT system. PROJECT.json lists them
as not modelled; "Not modelled" below says why.

### How the parts interact

- The wrappers (D) call the scheduler (B) only while holding the turn.
- The timed wrappers convert `abstime` with the logical clock (C), relative to
  the thread's base time.
- `pthreadCreate` (A) registers the child with the scheduler under the turn.
  It then hands the child its id through two process-wide native semaphores,
  **outside** the turn.
- `threadEnd` makes the thread a zombie and signals the threads joining it.
- A blocking I/O wrapper (E) and `nonDetStart` (G) call the scheduler's
  `block()`, which takes the thread out of the run queue. Their end calls
  `wakeup()` **without** the turn, and the thread rejoins the run queue.
  Inside a non-det region every wrapper calls the native function directly.
- The idle thread (F) takes turns like any thread. `idle_cond_wait` parks it
  on the scheduler's idle condvar when another thread is runnable, and the
  next `wakeup()` (E, G) brings it back. `nonDetStart`'s waiters are released
  when nobody but the idle thread is left in the run queue.

## Modules

### `RRScheduler.tla`: the turn scheduler (spec-modelled)

The scheduler state is one record, `sched`:

- `runq`: the run queue. Its head holds the turn.
- `waitq`: the wait queue.
- `chan`, `deadline`: each waiter's channel and deadline.
- `status`: `OK` or `ETIMEDOUT`, what the thread's last wait returned.
- `turn`: the turn counter.
- `zombies`: threads that ended and were not yet joined.

Each scheduler call is an operator from a state to a state. A wrapper's action
can therefore compose the calls it makes under one turn in code order, e.g.
`PutTurn(IncTurnCount(Signal(s, mu, FALSE)))` for `pthread_mutex_unlock`.

The operators:

- `Wait(s, c, dl)` increments the turn counter itself. The code relies on this:
  "in `_S::wait` will increase it again", line 920.
- `Signal` wakes the first waiter on the channel, or all of them in wait-queue
  order.
- Every change of the run queue's head runs `HeadChange`. This first runs
  `FireTimeouts`: waiters whose deadline the counter has reached return
  `ETIMEDOUT`, in (deadline, tid) order. It then runs `BreakDeadlock`: with an
  empty run queue, the earliest *timed* waiter returns `ETIMEDOUT`.

`Block(s)` drops the head of the run queue (the caller holds the turn).
`Wakeup(s, t)` appends `t` to the run queue. `ReleaseSentinel(s, c)` wakes
every waiter on `nonDetCV` once the run queue is empty. No code in `src/`
signals `nonDetCV`; the release follows spec.md 4.G and the comment at lines
1524-1526 ("blocked on this fake var until runq is empty").

`BreakDeadlock` follows the source header comment (lines 31-32): "if there's a
deadlock (activeq == empty), we just wake up timed waiters in order". spec.md
4.B says "the waiter with the smallest deadline". Read literally, that would
also wake an untimed waiter with `ETIMEDOUT`. The untimed lock helper would
then return without the mutex, so we follow the code's comment.

### `TimeConv.tla` and `LogicalClock.tla`: timeouts in turns

`TimeConv` holds the pure conversions:

- `TimeDiff` is `time_diff`.
- `Time2Turn` is `time2turn`.
- `RelTimeToTurn` is `relTimeToTurn`.

The `int64 -> uint64` conversion at the call of `time2turn` is modelled as
`x % 2^Width`. TLC's integers are 32-bit, so the runs use `Width = 30`, with
`NanosecPerTurn = 100` and the inputs chosen so that the ASSUME in
`LogicalClock` holds. That ASSUME states that for every difference of the
inputs, the reduced word exceeds `MAX_REL` exactly when the 64-bit word does.
The results are therefore those of the 64-bit code.

`LogicalClock` is one application thread with these actions:

- `SetBaseTime`, reached through the hooks `tern_set_base_timespec` and
  `tern_set_base_timeval`. The timeval hook first converts with
  `TimevalToTimespec` (`tv_nsec = tv_usec * 1000`). The runs give it a
  timeval base time next to the timespec ones.
- `ConvertTimeout`, the prologue shared by `pthreadMutexTimedLock`,
  `pthreadCondTimedWait` and `semTimedWait`. A `tv_sec` of 0 means "no base
  time" and the wall clock `now` is read instead; the conversion then runs.

### `RecorderRT.tla`: the wrappers

Its variables:

- `sched`: an instance of `RRScheduler`.
- `pc`: where each thread is.
- The pending call's `obj`, `mtx` and `dl`.
- The native state the wrappers observe: `owner` of each mutex and `semv` of
  each semaphore.
- `barriers[b].narrived`, as `narrived`.
- The reaped threads, `joined`.
- `rwl`: each rwlock's native writer and readers.
- `live`: the objects currently initialised. For a barrier this means it is
  present in the runtime's `barriers` table.
- A budget `ops` of application calls.

The actions follow the code's structure:

- **One action per wrapper**, from `SCHED_GET_TURN` to the first `wait` or to
  `SCHED_PUT_TURN`. For example: `PthreadMutexLock`, `PthreadCondWait`,
  `PthreadBarrierWait`, `SemTimedWait`, `Sleep`.
- **One action per continuation after `wait` returns**, enabled when the
  thread heads the run queue again:
  - `LockRetry` is the loop of `pthreadMutexLockHelper`. It returns on
    `ETIMEDOUT` and otherwise calls `trylock` again.
  - `CondResume` is the relock after a cond wait.
  - `BarrierResume`, `SemRetry`, `JoinRetry` and `SleepResume` are the others.
- **Shared helpers.** `LockHelper` and `SemStep` are one iteration of the
  helper loops.
- **Thread lifecycle.** `PthreadCreate`, `BeginHandoff` (the semaphore
  hand-off outside the turn), `ThreadBegin`, `ThreadEnd` and `PthreadJoin`.
- **Read-write locks.** `PthreadRWLockLock` and `RWLockRetry` are the lock
  helpers' loop: `trywrlock`/`tryrdlock`, and `wait(rwlock)` on failure.
  - `PthreadRWLockTryLock` takes the lock **as writer** for both kinds, as
    the code does (line 781, "FIXME").
  - `PthreadRWLockUnlock` releases the lock and calls `signal(rwlock)`, which
    wakes **one** waiter (line 815).
- **Object lifecycle.**
  - The init and destroy wrappers of mutexes, rwlocks and barriers, and
    `semInit`. Destroying a locked mutex or rwlock returns `EBUSY` and
    changes nothing.
  - `PthreadBarrierDestroy` always succeeds and erases the barrier's count.
    The native barrier never sees a waiter, because the runtime parks its
    waiters in `wait(barrier)`.

The application is a client. Whenever a thread holds the turn, it calls any
wrapper a correct program could call: it does not unlock a mutex it does not
own or relock its own, and it ends threads with no mutex held. Main returns
after joining every thread it started. Mutexes, rwlocks and barriers start
initialised, as if main had initialised them before creating any thread; it
may destroy and re-initialise them later. A correct program never destroys or
re-initialises an object a pending call uses. The constant `DestroyBusy`
relaxes this for barriers only: it models a program that counts on
`pthreadBarrierDestroy` returning `EBUSY`, as its comment says it does.

### `NativeSync.tla`: what the wrappers promise

spec.md 4.D says the wrappers reproduce native semantics. `NativeSync` states
those semantics with no turn and no wait queue. Each call either takes effect
atomically or has not happened yet:

- a mutex is taken only when it is live and free, and released by its owner;
- a semaphore is decremented only when positive;
- an rwlock admits a reader while no writer holds it, and a writer only when
  nobody holds it;
- a barrier releases a round only when `BarrierCount` threads have arrived,
  and then every one of them; a thread returns from the wait only once
  released;
- an object is destroyed only when nobody holds it or waits at it;
- `pthread_join` returns once, and only for an ended thread; a thread ends
  holding no mutex and no rwlock.

`RecorderRT` defines `Native == INSTANCE NativeSync WITH ...`. The mapping
hides the turn, the queues and the program counters:

- `owner`, `semv`, `rwl`, `live` and `joined` map to themselves;
- `barwait[b]` is the set of threads parked in `wait(b)`;
- `released[b]` is the set of threads still inside the barrier wrapper but
  no longer parked;
- `ended` is the set of exited threads.

The property `NativeSemantics == Native!Spec` says that every step of the
runtime is a native step or changes none of these. It is a safety property
only. A reader the runtime leaves parked (finding 4) is a missing step, not a
wrong one, so refinement cannot show it. Finding 5 does break it: with
`DestroyBusy`, a destroy while a thread is parked is no native step. The
`barrier_destroy` run reports that finding through `BarrierConsistent`, the
runtime's own bookkeeping.

### `SpawnHandoff.tla`: the two-semaphore spawn hand-off

It uses the same scheduler. `pthreadCreate` is split at the points where
another thread can run:

1. `CreateNative`: the native create, under the turn. The child starts and
   blocks on `thread_begin_sem`.
2. `CreateRegister`: `_S::create`, then `SCHED_PUT_TURN`.
3. `PostBegin`: the post of `thread_begin_sem`, without the turn.
4. `CreateReturn`: the wait on `thread_begin_done_sem`.

The child's `TakeBegin` takes the begin semaphore, reads `_S::self(th)` and
posts done. Semaphores wake any one waiter. `OtherCall` is any other wrapper
call (get turn, put turn), so spawns interleave with ordinary turns.
`Spawns[p]` fixes which threads each thread creates.

### `Lineup.tla`: the soft barrier

The state of a `ref_cnt_barrier_t` is:

- `inited`;
- `nactive`, the threads between `lineupStart` and `lineupEnd`;
- `phase`, Arriving or Leaving.

The actions are `LineupInit`, `LineupStart`, `LineupWake`, `LineupEnd` and
`LineupDestroy`, over the same scheduler:

- **`LineupStart`** increments `nactive`.
  - A start that fills an Arriving lineup sets it Leaving and signals all.
  - Any other start into an Arriving lineup calls
    `wait(&b, turnCount + timeout)`.
- **`LineupWake`** is the continuation after that wait returns. If the
  lineup is still Arriving and not full, it sets Leaving and signals all.
- **`LineupEnd`** decrements `nactive`. The last thread out of a Leaving
  lineup sets it Arriving.
- **`OtherCall`** is any other wrapper call.

The application reaches init, start, end and destroy through the hooks
`tern_lineup_init/start/end/destroy` of `template.c`. Each hook is its
action under `AnnotationsOn` (module `Options`: `options::DMT &&
options::enforce_annotations`). `tern_lineup` is `lineupStart` followed by
`lineupEnd` in one hook. It needs no step of its own, because a thread
inside a lineup can only call `lineupEnd` next.

### `BlockWakeup.tla`: blocking I/O, non-det regions and the idle thread

Besides `sched` and `pc`, it tracks the thread-local `inNonDet`, the global
`nNonDetWait`, and `idleParked`. `idleParked` is set while the idle thread is
blocked on `idle_cond`. The application threads exist from the start. The
idle thread `Idle` is last in the run queue, as if main had just launched
it.

The wrapper actions:

- **`BlockTimerStart(t)`** is the `BLOCK_TIMER_START` macro. Inside a non-det
  region the native call runs directly. Otherwise the wrapper calls `block()`
  and the thread enters the native call.
- **`BlockingCall(t, kind)`** is a file wrapper (`read`, `write`, `pread`,
  `pwrite`, `fgets`, `close`) given a descriptor of kind `kind`: a socket, a
  FIFO, a disk file, or a bad descriptor. If `RR_ignore_rw_regular_file` is
  set and `RegularFile(kind)` holds, libc is called directly. Otherwise the
  wrapper runs `BlockTimerStart`. `RegularFile` is `regularFile`: neither a
  socket nor a FIFO. It ignores fstat's result, so for a bad descriptor it
  reads an uninitialized `st`, and the model allows either answer.
- **`PeerCall`** is a wrapper with no file test: `select`, `poll`,
  `epoll_wait`, `bind`, `sigwait`, `socket`, `listen`, `gethostby*`,
  `inet_ntoa`, `strtok`, `wait`, `waitpid`.
- **`NativeCall`** is a plain passthrough with no turn: `time`, `clock_*`,
  `get/settimeofday`, `shutdown`, `getpeername`, `get/setsockopt`.
- **`SyscallReturn`** is `BLOCK_TIMER_END`: `wakeup()`, without the turn.
- **`Fork`** is the parent side of `__fork`: the turn, the native fork, the
  turn. The child process restarts its own scheduler and is not part of this
  model. `__fork` has no non-det test (finding 6), so the application here
  forks only outside regions.
- **`SyncCall`** is any other wrapper, native inside a region.

The non-det region actions:

- **`NonDetStart`** increments `nNonDetWait` and parks the thread on `nonDetCV`.
- **`NonDetResume`** decrements it and puts the turn.
- **`NonDetBlock`** is the `block()` that ends `nonDetStart`, followed by
  `inNonDet = true`.
- **`NonDetEnd`** covers `nonDetEnd` and `nonDetBarrierEnd`: `inNonDet = false`
  and `wakeup()`.

The application starts and ends regions through the hooks
`tern_non_det_start` and `tern_non_det_end`. These also require
`options::enforce_non_det_annotations` (`NonDetAnnotationsOn`). The
wrappers' passthrough tests `enforce_non_det_annotations && inNonDet`, as the
code does. The configurations set all four options of `Options` to TRUE,
the mode in which these paths run.

The idle thread's actions:

- **`IdleSleep`** is `idle_sleep`: get the turn, increment it, put it.
- **`IdleCondWait`** is `idle_cond_wait`. With another thread in the run
  queue (`runq.size() >= 2`), `idleThreadCondWait` blocks the idle thread.
  Alone, it puts the turn.
- **`WakeUp(t)`** is the scheduler's `wakeup()`. It puts `t` back in the run
  queue, and the parked idle thread after it.

`idleThreadCondWait` and the `idle_thread` loop are not in `src/`. What the
first does is taken from spec.md 4.F: release the turn, block until the next
`wakeup()`. The loop is a free choice between the two calls, which
over-approximates any fixed order.

After every scheduler step, `Sched` releases the `nonDetCV` waiters if the
run queue holds no thread but the idle thread. This is
`RRScheduler!ReleaseSentinel`, spec-modelled after the comment in
`nonDetStart`.

No timed wait happens here, so the turn counter guards nothing. The idle
thread alone would otherwise raise it forever. `MC_View` leaves the counter
out of the state TLC compares.

### `EventMgr.tla`: the path slicer's event analysis

`EventMgr` is an LLVM analysis pass with two searches, each a RECURSIVE
operator written from the code:

- `DFSFunc` is `DFS(Function*)`. It marks `f` visited, then walks the call
  sites of `f` in module order (`CallSites`). For each unvisited caller it
  sets `parent[caller] = f` and recurses. `TraverseCallGraph` clears both
  maps and runs it from each function `setupEvents` gave.
- `FillFrom` is `DFS(BasicBlock*, sink)`. It returns at a visited block or
  at the sink, and otherwise marks the block and recurses on its successors.

The actions are the pass's entry points: `SetupEvents(list)`, `RunOnModule`
and `EventBetween(br, post)`. `EventBetween` clears `bbVisited`, fills from
each successor of the branch, and returns whether a filled block calls a
function `MayCallEvent` holds for. Function pointers are abstracted to the
set of possible callees, which is what `get_called_functions` returns.

`Init` chooses the call graph among all graphs over `Funcs`. The CFG of the
function with the branch is a constant. Two history variables record inputs:
`events` is the list the last traversal used, and `query` is the last call's
branch, post-dominator block and visited set. The properties compare both
searches with a least-fixpoint reachability (`ReachFrom`), built on the
`Graphs` module's `AllSuccessors` and `Transpose`.

`output`, `print` and the commented-out `print_call_chain` write names to
files or stderr, and `is_sync_function` has no caller. None of them changes
the pass's state.

## Runs

| Run | Checks | Result |
|---|---|---|
| `clock` (`LogicalClock.cfg`) | `TypeOK`, `TimeDiffExact`, `FutureTimeoutClamped` | pass, 232 states |
| `clock_past` | `PastTimeoutGetsMinimum` | **violation**: a deadline 100 ns in the past gets 1,000,000 turns |
| `eventmgr` (`EventMgr.cfg`) | `MayCallEventExact`, `ParentChainReachesEvent`, `EventBetweenExact` | pass, 67,584 states |
| `mutex_cond` | `ThreadInOneQueue`, `NoLostWakeup`, `TimedWaitReturns` (liveness), `NativeSemantics` | pass, 22,500 states |
| `barrier_sem` | `TypeOK`, `ThreadInOneQueue`, `NoLostWakeup`, `BarrierConsistent`, `NativeSemantics` | pass, ~397k states |
| `barrier_destroy` | `BarrierConsistent` with `DestroyBusy` | **violation**: a destroy erases the count of a parked waiter |
| `rwlock` | `ThreadInOneQueue`, `RWLockWriterNotStranded`, `NativeSemantics` | pass, ~762k states |
| `rwlock_readers` | `RWLockReaderNotStranded` | **violation**: a reader stays parked on a lock held only for reading |
| `lineup` | `LeavingHasNoWaiters`, `RoundsDoNotOverlap`, deadlock | pass, 2,545 states |
| `blockwakeup` | `ThreadPlacement`, `AllThreadsEnd`, deadlock | pass, 14,100 states (view without the turn counter), about 20 s |
| `spawn_main` | `ChildGetsOwnTid`, `CreateWaitsForChild`, deadlock | pass, 223 states |
| `spawn_nested` | `ChildGetsOwnTid` | **violation**: a new thread reads `InvalidTid` |

What the properties say:

- **`ThreadInOneQueue`**: no thread is in both queues or twice in one. The
  queued threads are exactly the live ones, and every parked thread is inside
  a wrapper's wait. The zombies are the ended, unjoined threads.
- **`NoLostWakeup`**: a thread parked by the mutex lock helper, a semaphore
  wait or a join always has one of two things:
  - the resource is unavailable (mutex held, value 0, thread alive), or
  - a woken thread is on its way to retry it.

  It covers the release paths: unlock, the unlock inside cond wait,
  `sem_post` and thread end. It also covers the retry loops with their
  timeouts, and a trywait stealing a posted value.
- **`BarrierConsistent`**: the runtime's own `narrived` equals the number of
  threads parked on the barrier, across reuse of the barrier.
- **`TimedWaitReturns`**: every wait with a finite deadline returns, whether
  by signal, by the turn count, or by the deadlock wakeup. A `MAX_REL` timeout
  can only return the last way.
- **`ChildGetsOwnTid`**: `_S::self(th)` in `threadBegin` returns the new
  thread's own id.
- **`CreateWaitsForChild`**: `pthreadCreate` returns only after the thread
  it created has read its logical id. This is what
  `sem_wait(&thread_begin_done_sem)` (line 496) is for. Without the wait,
  the parent goes on while its child has no id yet.
- **`TypeOK`** (RecorderRT, in `barrier_sem`): the types, and `narrived`
  below the barrier's count. The last arriver resets it to 0 (line 911), so a
  reused barrier starts each round from zero. SpawnHandoff's `TypeOK` is a
  reading aid that no run checks.
- **`RWLockWriterNotStranded` / `RWLockReaderNotStranded`**: a writer (or
  reader) parked on an rwlock has one of two things:
  - a holder that excludes it, or
  - a woken thread on its way to retry the lock.
- **`LeavingHasNoWaiters`**: once a lineup is Leaving, no thread is parked on
  it. Whoever turns it Leaving must wake every waiter under the same turn.
- **`RoundsDoNotOverlap`**: while a lineup is Arriving, no thread of an
  earlier round is still inside it, and `nactive` counts exactly the threads
  waiting in `lineupStart`.
- **`NativeSemantics`**: `RecorderRT` refines `NativeSync` under the mapping
  above. Whatever order the turn imposes, no wrapper takes a held mutex,
  admits a writer next to readers, releases a partial barrier round, or
  returns from a join on a live thread.
- **`MayCallEventExact`**: after a traversal, `mayCallEvent(f)` holds exactly
  when `f` is an event function or has a call path to one. This holds on
  every call graph over three functions, self and mutual recursion included.
- **`ParentChainReachesEvent`**: every function with a parent calls it.
  Following `parent` from any function ends, within `|Funcs|` links, at an
  event function with no parent. This is the chain `print_call_chain`
  prints.
- **`EventBetweenExact`**: `eventBetween` returns TRUE exactly when some
  block calls a function that may call an event, and that block is
  reachable from a successor of the branch without passing through the
  post-dominator's block. The sink is excluded; the branch's own block
  counts when a loop leads back to it.
- **`ThreadPlacement`**: every live thread is in exactly one of three places:
  - the run queue;
  - the wait queue (only inside `nonDetStart`);
  - detached, i.e. in a native call of a blocking wrapper or in a non-det
    region.

  So a detached thread never holds the turn (spec.md 8.5), and after
  `non_det_end` it is queued again (8.7). The idle thread is in the run
  queue exactly when it is not parked on `idle_cond`.
- **`AllThreadsEnd`** (liveness): every application thread eventually
  exits, although the idle thread takes turns forever. It needs
  `idle_sleep` and `idle_cond_wait` to pass the turn on, `wakeup()` to
  bring back every detached thread, and `nonDetCV` waiters to be released.
  Nothing in `src/` signals `nonDetCV`, and the idle thread never leaves the
  run queue when it is alone. So a release that tested for an empty run
  queue, counting the idle thread, would hold every region back forever;
  this property catches that as well.
  An `idle_sleep` that kept the turn (the mutant `IdleSleepNoPut`) starves
  everyone: it is a cycle of idle steps that no deadlock check sees.

The `lineup` and `blockwakeup` runs check for deadlock as well.

- In `lineup`, every step either spends the call budget or advances a wait
  toward its deadline. With the budget bounded, the state graph has no cycle
  other than the `Terminated` stutter. So "no deadlock" means every timed
  wait returns and every thread ends.
- In `blockwakeup`, every application step spends the budget or advances a
  native call or region toward its end. The idle thread's steps can cycle,
  so deadlock freedom alone does not show that the threads end. `AllThreadsEnd` shows it
  under the fairness below.

Every property of a passing run has a mutant: a bug variant of a mapped
definition, written just before it, which TLC must catch. Examples are a
dropped `signal(mu)` in unlock and a barrier that wakes one waiter instead of
all. PROJECT.json lists them all.

## Findings

1. **Spawn race (code bug).** `pthreadCreate` posts `thread_begin_sem` after
   `SCHED_PUT_TURN` (line 495).
   - The failing sequence:
     1. Main registers child 3 and puts the turn.
     2. Thread 1 takes the turn and natively creates child 2.
     3. Main's post wakes child 2.
     4. Child 2 reads its id before thread 1's `_S::create` and gets
        `InvalidTid`. The assert at line 464 fires.
   - The source comment "Problem 3" (lines 424-452) says the second semaphore
     prevents this.
   - The comment next to the post reads "yi: are these two at correct place???".
2. **Past deadlines wait longest (code bug).** `relTimeToTurn` passes a
   negative `int64` to `time2turn(uint64_t)`, which clamps it to `MAX_REL`.
   The comment at line 226 promises `5*nthread+1`. `src/test/recorder/mutex-test.cpp`
   uses `abstime = now + 100ns`, which after the call is usually in the past.
3. **A base time with `tv_sec == 0` is ignored (divergence, read from the
   code; no run checks it).** `tv_sec == 0` is the "unset" marker (line 682),
   so a base time `{0, 500}` set with `tern_set_base_timespec` is ignored and
   the wall clock is read. `LogicalClock` models the test as the code has it.
   PROJECT.json lists it as a hazard.
4. **Readers stranded by rwlock unlock (divergence).**
   `__pthread_rwlock_unlock` calls `signal(rwlock)`, which wakes one waiter
   (line 815).
   - The failing sequence: a writer holds the lock while readers 0 and 2
     park. The writer unlocks and wakes only reader 0, which takes the lock
     for reading. Reader 2 stays parked although native semantics would
     admit it.
   - A program in which reader 0 then waits for reader 2 deadlocks under the
     runtime but not natively.
5. **Barrier destroy during a round (code bug).** `pthreadBarrierDestroy`
   erases `barriers[b]` unless the native destroy returns `EBUSY`. Its
   comment says this happens "if the barrier is still in use" (line 945).
   - No thread ever calls the native `pthread_barrier_wait`, so that
     `EBUSY` never comes.
   - A destroy while threads are parked erases their count. They stay
     parked until a later round of a re-initialised barrier wakes them with
     it.
   - The same trace breaks `NativeSemantics`: the destroy is no native step
     while a thread waits at the barrier.

6. **Some wrappers take the turn inside a non-det region (divergence, read
   from the code; no run checks it).** spec.md 4.G says every wrapper checks
   the region flag and passes through. `__fork`, `sleep`, `usleep`,
   `nanosleep`, `pthreadCreate`, `pthreadJoin` and `symbolic` call
   `SCHED_GET_TURN` without that test.
   - Inside a region, `sched_timer_start` hits `assert(!inNonDet)` (line 296).
   - Built without assertions, the thread waits in `getTurn` for a turn it
     cannot get: `block()` took it off the run queue, and only its own
     `nonDetEnd` would put it back.
   - `BlockWakeup` lets the application fork only outside regions, so the
     model stays within the contract the code does support.
7. **The idle thread's condition is the reverse of spec.md 4.F (divergence,
   read from the code).** `idle_cond_wait` parks the idle thread when
   another thread is runnable (`runq.size() >= 2`, line 265), and passes the
   turn when it is alone. The spec says it blocks when it is alone.
   - `BlockWakeup` follows the code.
   - Run with the spec's condition, `blockwakeup` passes as well. No
     property here tells the two apart.

`tryrdlock` calling `trywrlock` (line 781) is modelled as the code does it.
The code's FIXME and spec.md 9 already record it, so no run restates it.

## Bounds and why they are enough

- **Threads.** Three threads (main and two children), so at least two threads
  compete while a third is parked, queued or spawning. Two is the least number
  of waiters for which signal-one and signal-all differ. The barrier has count
  3 for the same reason.
- **One object of each kind per run.** All the wrappers' interactions go
  through one channel.
- **Call budgets.** The budgets leave room for a create, a lock, a cond or
  semaphore wait, a signal or post, and an unlock in one behaviour:
  - `MaxOps` = 5 for `barrier_sem`.
  - 4 for `mutex_cond`, which also checks liveness. Liveness checking
    restricts the bound.
  - 6 for the rwlock runs, so that a writer and two readers all reach the
    lock after two creates.
- **Lineup.** Three threads, count 3 and timeout 4 turns. With this
  timeout, one waiter can time out while another is still parked, so the
  signal-all on timeout matters.
- **Block/wakeup.** Three application threads, the idle thread, and 6 calls.
  - Two threads can be in native calls or non-det regions while a third
    holds the turn.
  - All three can meet in `nonDetStart`.
  - The idle thread can park with one thread runnable and be woken by
    another thread's `wakeup()`.
- **Timeouts.** `RelTimes` holds 0 ns, the least timeout (`5*nthread+1` turns,
  which the counter can reach), and 1 s (`MAX_REL`, which only the deadlock
  wakeup ends).
- **Semaphore value.** `MaxSem` = 1 bounds the value.
- **Spawn runs.** Main spawns three threads; in the nested program, main spawns
  two and thread 1 spawns one.
- **Event analysis.** The run covers every call graph over three functions
  (512 graphs, with self-loops and cycles). That is enough for a caller
  reached twice, a cycle through the root, and a second event function
  already reached as a caller of the first (`<<3, 2>>`). The CFG has five
  blocks and two branches. One branch is the target of a back edge, and the
  join block and the return block both call functions. With every choice of
  post-dominator block, this covers:
  - a sink before the loop;
  - a sink after the loop;
  - a sink equal to the branch;
  - a sink that does not post-dominate.
- **Clock run.** The times are around one second, with nanosecond parts that
  need a borrow; the base times include one with `tv_sec = 0`.

## Fairness

`Spec` asserts weak fairness of each thread's steps. The code justifies it:

- The OS eventually runs the thread heading the run queue: `getTurn` spins or
  sleeps until it is the head.
- A thread blocked on a native semaphore that has been posted eventually runs.

No fairness is assumed for the application's choices, beyond its taking some
step when it holds the turn. The mutex, cond and barrier runs set
`CHECK_DEADLOCK FALSE`, because client programs really can deadlock (a cond
wait nobody signals). `NoLostWakeup` shows that every such stop is the
program's own deadlock, not the runtime's. The spawn runs check for deadlock,
with an explicit `Terminated` step once every thread has ended. So do the
`lineup` and `blockwakeup` runs, where the application never blocks on
another thread indefinitely. `Lineup` and `BlockWakeup` also assume that a
native call returns and that a thread in a non-det region eventually calls
`non_det_end`: these steps belong to the same thread's weak fairness.
`BlockWakeup` also assumes weak fairness of the idle thread. It is an OS
thread in an endless loop: when it heads the run queue, it runs.

## Not modelled, and the plan

Modelled so far (besides the abstract `NativeSync`, which `RecorderRT`
refines):

1. Clock (`TimeConv`, `LogicalClock`).
2. Scheduler (`RRScheduler`).
3. Every sync wrapper, including rwlocks and the init/destroy wrappers
   (`RecorderRT`).
4. Spawn hand-off (`SpawnHandoff`).
5. Lineup (`Lineup`).
6. Blocking I/O, non-det regions, the parent side of `fork`, and the idle
   thread (`BlockWakeup`).
7. The path slicer's event analysis (`EventMgr`).
8. The annotation hooks of `template.c`, under the runtime options
   (`Options`, in `Lineup`, `BlockWakeup` and `LogicalClock`).

Not modelled, and why:

- **`add_non_det_var` / `is_non_det_var`**: stubbed out in `src/`. They
  hold no state, and the warning about a variable used both inside and
  outside a region is never emitted.
- **The child side of `fork`**: a second process with its own copy of the
  runtime, restarted by `childForkReturn`, which is not in `src/`.
- **The idle thread's timed-wait role**: advancing the turn counter past the
  deadlines of sleeping threads needs timed waits next to the idle thread, in
  a composition with `RecorderRT`.
- **Mixing one mutex between a region and deterministic code**: inside a
  region `pthread_mutex_unlock` is native and signals nothing (line 705). A
  deterministic waiter on the same mutex would be stranded. spec.md 4.G makes
  this the user's contract. The models keep region threads away from user
  objects.
- **The scheduler's wake-up queue**: the comment at line 1554 describes
  `wakeup()` as adding to a queue that turn holders drain. `RRScheduler`
  is not in `src/`, and its `Wakeup` appends to the run queue in one
  atomic step. So a race between a `wakeup()` made without the turn and the
  turn holder's change of the run queue is outside the model.
  `ThreadPlacement` checks only that `block()` and `wakeup()` are paired.
- **The log appender and `RecordSerializer` mode**: formatting and file
  output.
- **The `XTERN_PLUS_DBUG` paths and `threadDetach`**: a compile-time
  debugging hook.
- **32-bit wrap of `unsigned timeout`**: needs about 2^32 turns.
- **`tern_lineup`, and the rest of `template.c`**: `tern_lineup` is
  `lineupStart` followed by `lineupEnd`, a sequence `Lineup` already
  allows. The rest of that file is `template()`, a type table for the
  instrumentation pass, and an offline Perl script that draws time charts.
- **A direct read on a terminal or pty**: `regularFile` counts these as
  regular, so the thread calls libc while still in the run queue. If the
  read blocks, every other thread waits behind it. The model's direct calls
  return at once, which holds for disk files and bad descriptors. A
  blocking one needs the terminal's input, which comes from outside the
  process.
- **`symbolic`** (1597-1602): `SCHED_GET_TURN` then `SCHED_PUT_TURN`, like
  `Fork`, with no non-det test either (finding 6).
- **`src/apps/stl/src/generate_n.cpp` and the tests**: benchmark and test
  programs, not part of the runtime.

Next, in order of importance:

1. **A composition of `RecorderRT` with `BlockWakeup`**: sync wrappers that
   wait while other threads are detached in native calls or regions, with the
   idle thread advancing timed waits. This would exercise `BreakDeadlock`
   against threads outside the run queue, and the mutex-mixing hazard.
2. **`TimedWaitReturns` with semaphores.** Checking `sem_timedwait` needs a
   smaller bound or a symmetry argument to stay within the time limit.
