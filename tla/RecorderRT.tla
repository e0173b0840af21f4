------------------------------ MODULE RecorderRT ------------------------------
(***************************************************************************)
(* The deterministic synchronization wrappers of RecorderRT<RRScheduler>   *)
(* (src/lib/runtime/record-runtime.cpp).  Every wrapper follows the same   *)
(* skeleton: SCHED_GET_TURN (block until the thread heads the run queue),  *)
(* the native operation, and SCHED_PUT_TURN (incTurnCount, putTurn).  A    *)
(* wrapper that cannot complete calls wait(chan, timeout) and continues    *)
(* after wait returned, which happens when the thread heads the run queue *)
(* again; that continuation is an action of its own, enabled by the turn. *)
(*                                                                          *)
(* The application is a client that, whenever a thread holds the turn,    *)
(* calls any wrapper whose preconditions a correct program meets, within  *)
(* a budget of MaxOps calls.  Native objects are abstracted to what the    *)
(* wrappers observe: a mutex's owner, a semaphore's value.                  *)
(***************************************************************************)
EXTENDS Integers, Sequences, FiniteSets, SequencesExt

CONSTANTS Threads,      \* logical tids, Main among them
          Main,         \* _S::MainThreadTid
          Mutexes, CondVars, Barriers, Sems, RWLocks,
          BarrierCount, \* count passed to pthread_barrier_init
          SemInit,      \* value passed to sem_init
          MaxSem,       \* bound on a semaphore's value
          MaxOps,       \* bound on the number of wrapper calls
          RelTimes,     \* relative timeouts (timespecs) of timed calls
          FOREVER, NULL, NoThread,
          NanosecPerTurn, Width,
          DestroyBusy   \* the application may destroy a barrier in use

Chans == Mutexes \cup CondVars \cup Barriers \cup Sems \cup RWLocks \cup Threads

\* The objects with an init/destroy wrapper; main has initialised them all
\* before it creates the first thread.
Objects == Mutexes \cup Barriers \cup RWLocks

S == INSTANCE RRScheduler WITH Chans <- Chans
TC == INSTANCE TimeConv

VARIABLES sched,    \* the RRScheduler state
          pc,       \* where each thread is
          obj,      \* the object of the pending wrapper call
          mtx,      \* the mutex the pending call must (re)acquire
          dl,       \* the timeout (absolute turn) of the pending call
          owner,    \* native owner of each mutex
          semv,     \* native value of each semaphore
          narrived, \* barriers[b].narrived
          joined,   \* threads reaped by pthread_join
          ops,      \* wrapper calls left to the application
          rwl,      \* native state of each rwlock: writer and readers
          live      \* objects initialised (barriers: present in barriers)

vars == <<sched, pc, obj, mtx, dl, owner, semv, narrived, joined, ops, rwl, live>>

PCs == {"unborn", "spawned", "create", "begin", "app", "lock", "condwait",
        "barrier", "serial", "sem", "join", "sleep", "rdlock", "wrlock",
        "exited"}

\* The pc of a thread parked in (or just woken from) _S::wait.
WaitPCs == {"lock", "condwait", "barrier", "sem", "join", "sleep", "rdlock",
            "wrlock"}

Init ==
  /\ sched = S!SchedInit(Main)
  /\ pc = [t \in Threads |-> IF t = Main THEN "app" ELSE "unborn"]
  /\ obj = [t \in Threads |-> NULL]
  /\ mtx = [t \in Threads |-> NULL]
  /\ dl = [t \in Threads |-> FOREVER]
  /\ owner = [m \in Mutexes |-> NoThread]
  /\ semv = [s \in Sems |-> SemInit]
  /\ narrived = [b \in Barriers |-> 0]
  /\ joined = {}
  /\ ops = MaxOps
  /\ rwl = [l \in RWLocks |-> [writer |-> NoThread, readers |-> {}]]
  /\ live = Objects

-----------------------------------------------------------------------------
(* Helpers shared by the wrappers.                                          *)

\* SCHED_GET_TURN has returned for t.
HasTurn(t) == S!HoldsTurn(sched, t)

\* SCHED_PUT_TURN: incTurnCount, then putTurn.
SchedPutTurn(s) == S!PutTurn(S!IncTurnCount(s))

\* _S::nthread: the threads the scheduler knows and that have not ended.
NThread == Cardinality(ToSet(sched.runq) \cup S!Waiting(sched))

\* timeout = _S::getTurnCount() + relTimeToTurn(&rel_time), at state s.
Deadline(s, rel) == s.turn + TC!RelTimeToTurn(rel, NThread)

\* A wrapper call by the application: holds the turn, spends the budget.
Call(t) == HasTurn(t) /\ pc[t] = "app" /\ ops > 0 /\ ops' = ops - 1

Goto(t, p) == pc' = [pc EXCEPT ![t] = p]

\* t holds rwlock l, for reading or for writing.
Holds(l, t) == rwl[l].writer = t \/ t \in rwl[l].readers

\* Bug variant: the helper takes trylock's EBUSY for success.
LockHelperIgnoreBusy(t, m, tmo, s) ==
  /\ owner' = [owner EXCEPT ![m] = t]
  /\ sched' = SchedPutTurn(s)
  /\ Goto(t, "app")
  /\ UNCHANGED <<mtx, dl>>

(***************************************************************************)
(* One iteration of pthreadMutexLockHelper(mu, timeout) at scheduler state *)
(* s: trylock, and on success the SCHED_PUT_TURN of the calling wrapper;   *)
(* on EBUSY, wait(mu, timeout).                                            *)
(***************************************************************************)
LockHelper(t, m, tmo, s) ==
  IF owner[m] = NoThread
  THEN /\ owner' = [owner EXCEPT ![m] = t]
       /\ sched' = SchedPutTurn(s)
       /\ Goto(t, "app")
       /\ UNCHANGED <<mtx, dl>>
  ELSE /\ sched' = S!Wait(s, m, tmo)
       /\ Goto(t, "lock")
       /\ mtx' = [mtx EXCEPT ![t] = m]
       /\ dl' = [dl EXCEPT ![t] = tmo]
       /\ UNCHANGED owner

-----------------------------------------------------------------------------
(* Threads: pthreadCreate, threadBegin, threadEnd, pthreadJoin.            *)

(***************************************************************************)
(* pthreadCreate: under the turn, the native thread is created and        *)
(* _S::create appends it to the run queue; SCHED_PUT_TURN; then, without   *)
(* the turn, the parent posts thread_begin_sem and waits on                *)
(* thread_begin_done_sem.                                                   *)
(***************************************************************************)
PthreadCreate(t, c) ==
  /\ Call(t)
  /\ pc[c] = "unborn"
  /\ sched' = SchedPutTurn(S!Create(sched, c))
  /\ pc' = [pc EXCEPT ![t] = "create", ![c] = "spawned"]
  /\ obj' = [obj EXCEPT ![t] = c]
  /\ UNCHANGED <<mtx, dl, owner, semv, narrived, joined, rwl, live>>

(***************************************************************************)
(* The semaphore handoff of threadBegin and pthreadCreate, outside the    *)
(* turn: the child takes thread_begin_sem, sets _S::self and posts         *)
(* thread_begin_done_sem, on which the parent returns.  (SpawnHandoff      *)
(* models the handoff between several parents.)                            *)
(***************************************************************************)
BeginHandoff(t) ==
  /\ pc[t] = "create"
  /\ pc[obj[t]] = "spawned"
  /\ pc' = [pc EXCEPT ![t] = "app", ![obj[t]] = "begin"]
  /\ UNCHANGED <<sched, obj, mtx, dl, owner, semv, narrived, joined, ops, rwl, live>>

\* threadBegin: the first turn of the child.
ThreadBegin(t) ==
  /\ HasTurn(t)
  /\ pc[t] = "begin"
  /\ sched' = SchedPutTurn(sched)
  /\ Goto(t, "app")
  /\ UNCHANGED <<obj, mtx, dl, owner, semv, narrived, joined, ops, rwl, live>>

(***************************************************************************)
(* threadEnd: incTurnCount, putTurn(end_of_thread), which makes the thread *)
(* a zombie and wakes its joiners.  A program ends its threads with no     *)
(* mutex held, and main returns after the threads it created are joined.  *)
(***************************************************************************)
ThreadEnd(t) ==
  /\ HasTurn(t)
  /\ pc[t] = "app"
  /\ \A m \in Mutexes : owner[m] # t
  /\ \A l \in RWLocks : ~Holds(l, t)
  /\ t = Main => \A u \in Threads \ {Main} : pc[u] = "unborn" \/ u \in joined
  /\ sched' = S!PutTurnAtThreadEnd(S!IncTurnCount(sched))
  /\ Goto(t, "exited")
  /\ UNCHANGED <<obj, mtx, dl, owner, semv, narrived, joined, ops, rwl, live>>

(***************************************************************************)
(* pthreadJoin: while (!_S::zombie(th)) wait(th); then the native join,    *)
(* _S::join(th) and SCHED_PUT_TURN.  JoinStep is one test of the loop.     *)
(***************************************************************************)
\* Bug variant: join does not test _S::zombie(th) before reaping.
JoinStepNoZombie(t, u) ==
  /\ sched' = SchedPutTurn(S!ReapZombie(sched, u))
  /\ joined' = joined \cup {u}
  /\ Goto(t, "app")

JoinStep(t, u) ==
  IF S!IsZombie(sched, u)
  THEN /\ sched' = SchedPutTurn(S!ReapZombie(sched, u))
       /\ joined' = joined \cup {u}
       /\ Goto(t, "app")
  ELSE /\ sched' = S!Wait(sched, u, FOREVER)
       /\ Goto(t, "join")
       /\ UNCHANGED joined

PthreadJoin(t, u) ==
  /\ HasTurn(t)
  /\ pc[t] = "app"
  /\ t = Main
  /\ u # t
  /\ pc[u] \notin {"unborn"}
  /\ u \notin joined
  /\ JoinStep(t, u)
  /\ obj' = [obj EXCEPT ![t] = u]
  /\ UNCHANGED <<mtx, dl, owner, semv, narrived, ops, rwl, live>>

JoinRetry(t) ==
  /\ HasTurn(t)
  /\ pc[t] = "join"
  /\ JoinStep(t, obj[t])
  /\ UNCHANGED <<obj, mtx, dl, owner, semv, narrived, ops, rwl, live>>

-----------------------------------------------------------------------------
(* Mutexes.                                                                 *)

\* pthreadMutexLock: the helper with no timeout.
PthreadMutexLock(t, m) ==
  /\ Call(t)
  /\ m \in live
  /\ owner[m] # t
  /\ LockHelper(t, m, FOREVER, sched)
  /\ UNCHANGED <<obj, semv, narrived, joined, rwl, live>>

\* pthreadMutexTimedLock: the helper with the deadline computed under the turn.
PthreadMutexTimedLock(t, m, rel) ==
  /\ Call(t)
  /\ m \in live
  /\ owner[m] # t
  /\ LockHelper(t, m, Deadline(sched, rel), sched)
  /\ UNCHANGED <<obj, semv, narrived, joined, rwl, live>>

(***************************************************************************)
(* wait(mu, timeout) returned inside pthreadMutexLockHelper: on ETIMEDOUT  *)
(* the helper returns it and the wrapper puts the turn; otherwise the loop *)
(* tries the lock again.                                                    *)
(***************************************************************************)
LockRetry(t) ==
  /\ HasTurn(t)
  /\ pc[t] = "lock"
  /\ IF sched.status[t] = "ETIMEDOUT"
     THEN /\ sched' = SchedPutTurn(sched)
          /\ Goto(t, "app")
          /\ UNCHANGED <<owner, mtx, dl>>
     ELSE LockHelper(t, mtx[t], dl[t], sched)
  /\ UNCHANGED <<obj, semv, narrived, joined, ops, rwl, live>>

\* Bug variant: unlock without signal(mu).
PthreadMutexUnlockNoSignal(t, m) ==
  /\ HasTurn(t)
  /\ pc[t] = "app"
  /\ owner[m] = t
  /\ owner' = [owner EXCEPT ![m] = NoThread]
  /\ sched' = SchedPutTurn(sched)
  /\ UNCHANGED <<pc, obj, mtx, dl, semv, narrived, joined, ops, rwl, live>>

\* pthreadMutexTryLock: one trylock, EBUSY returned to the caller.
PthreadMutexTryLock(t, m) ==
  /\ Call(t)
  /\ m \in live
  /\ owner[m] # t
  /\ owner' = IF owner[m] = NoThread THEN [owner EXCEPT ![m] = t] ELSE owner
  /\ sched' = SchedPutTurn(sched)
  /\ UNCHANGED <<pc, obj, mtx, dl, semv, narrived, joined, rwl, live>>

\* pthreadMutexUnlock: native unlock, signal(mu), SCHED_PUT_TURN.
PthreadMutexUnlock(t, m) ==
  /\ HasTurn(t)
  /\ pc[t] = "app"
  /\ owner[m] = t
  /\ owner' = [owner EXCEPT ![m] = NoThread]
  /\ sched' = SchedPutTurn(S!Signal(sched, m, FALSE))
  /\ UNCHANGED <<pc, obj, mtx, dl, semv, narrived, joined, ops, rwl, live>>

-----------------------------------------------------------------------------
(* Condition variables.                                                     *)

(***************************************************************************)
(* pthreadCondWait: native unlock and signal(mu), SCHED_INC_TURN, then      *)
(* wait(cv) gives up the turn without a deadline.                          *)
(***************************************************************************)
PthreadCondWait(t, cv, m) ==
  /\ Call(t)
  /\ owner[m] = t
  /\ owner' = [owner EXCEPT ![m] = NoThread]
  /\ sched' = S!Wait(S!IncTurnCount(S!Signal(sched, m, FALSE)), cv, FOREVER)
  /\ Goto(t, "condwait")
  /\ obj' = [obj EXCEPT ![t] = cv]
  /\ mtx' = [mtx EXCEPT ![t] = m]
  /\ dl' = [dl EXCEPT ![t] = FOREVER]
  /\ UNCHANGED <<semv, narrived, joined, rwl, live>>

(***************************************************************************)
(* pthreadCondTimedWait: native unlock, SCHED_INC_TURN, signal(mu), and    *)
(* wait(cv, timeout) with timeout = turn count + relTimeToTurn.             *)
(***************************************************************************)
PthreadCondTimedWait(t, cv, m, rel) ==
  LET s1 == S!Signal(S!IncTurnCount(sched), m, FALSE)
      tmo == Deadline(s1, rel)
  IN  /\ Call(t)
      /\ owner[m] = t
      /\ owner' = [owner EXCEPT ![m] = NoThread]
      /\ sched' = S!Wait(s1, cv, tmo)
      /\ Goto(t, "condwait")
      /\ obj' = [obj EXCEPT ![t] = cv]
      /\ mtx' = [mtx EXCEPT ![t] = m]
      /\ dl' = [dl EXCEPT ![t] = tmo]
      /\ UNCHANGED <<semv, narrived, joined, rwl, live>>

\* The wait on cv returned (signal or timeout): pthreadMutexLockHelper(mu).
CondResume(t) ==
  /\ HasTurn(t)
  /\ pc[t] = "condwait"
  /\ LockHelper(t, mtx[t], FOREVER, sched)
  /\ UNCHANGED <<obj, semv, narrived, joined, ops, rwl, live>>

\* pthreadCondSignal / pthreadCondBroadcast: signal(cv, all), SCHED_PUT_TURN.
PthreadCondSignal(t, cv, all) ==
  /\ Call(t)
  /\ sched' = SchedPutTurn(S!Signal(sched, cv, all))
  /\ UNCHANGED <<pc, obj, mtx, dl, owner, semv, narrived, joined, rwl, live>>

-----------------------------------------------------------------------------
(* Barriers.                                                                *)

\* Bug variant: the last arriver wakes one waiter instead of all.
PthreadBarrierWaitSignalOne(t, b) ==
  LET s1 == S!IncTurnCount(sched)
      n == narrived[b] + 1
  IN  /\ Call(t)
      /\ b \in live
      /\ IF n = BarrierCount
         THEN /\ narrived' = [narrived EXCEPT ![b] = 0]
              /\ sched' = S!PutTurn(S!Signal(s1, b, FALSE))
              /\ Goto(t, "serial")
         ELSE /\ narrived' = [narrived EXCEPT ![b] = n]
              /\ sched' = S!Wait(s1, b, FOREVER)
              /\ Goto(t, "barrier")
      /\ obj' = [obj EXCEPT ![t] = b]
      /\ UNCHANGED <<mtx, dl, owner, semv, joined, rwl, live>>

\* Bug variant: the last arriver wakes everyone but does not reset narrived.
PthreadBarrierWaitNoReset(t, b) ==
  LET s1 == S!IncTurnCount(sched)
      n == narrived[b] + 1
  IN  /\ Call(t)
      /\ b \in live
      /\ narrived' = [narrived EXCEPT ![b] = n]
      /\ IF n = BarrierCount
         THEN /\ sched' = S!PutTurn(S!Signal(s1, b, TRUE))
              /\ Goto(t, "serial")
         ELSE /\ sched' = S!Wait(s1, b, FOREVER)
              /\ Goto(t, "barrier")
      /\ obj' = [obj EXCEPT ![t] = b]
      /\ UNCHANGED <<mtx, dl, owner, semv, joined, rwl, live>>

(***************************************************************************)
(* pthreadBarrierWait: SCHED_INC_TURN and ++narrived.  The last arriver     *)
(* resets narrived, signals all waiters, putTurn and getTurn again; the    *)
(* others wait(barrier).  Both finish with SCHED_PUT_TURN (BarrierResume). *)
(***************************************************************************)
PthreadBarrierWait(t, b) ==
  LET s1 == S!IncTurnCount(sched)
      n == narrived[b] + 1
  IN  /\ Call(t)
      /\ b \in live
      /\ IF n = BarrierCount
         THEN /\ narrived' = [narrived EXCEPT ![b] = 0]
              /\ sched' = S!PutTurn(S!Signal(s1, b, TRUE))
              /\ Goto(t, "serial")
         ELSE /\ narrived' = [narrived EXCEPT ![b] = n]
              /\ sched' = S!Wait(s1, b, FOREVER)
              /\ Goto(t, "barrier")
      /\ obj' = [obj EXCEPT ![t] = b]
      /\ UNCHANGED <<mtx, dl, owner, semv, joined, rwl, live>>

BarrierResume(t) ==
  /\ HasTurn(t)
  /\ pc[t] \in {"barrier", "serial"}
  /\ sched' = SchedPutTurn(sched)
  /\ Goto(t, "app")
  /\ UNCHANGED <<obj, mtx, dl, owner, semv, narrived, joined, ops, rwl, live>>

-----------------------------------------------------------------------------
(* Semaphores.                                                              *)

(***************************************************************************)
(* One test of the loops of semWait and semTimedWait: sem_trywait, and on  *)
(* EAGAIN wait(sem, timeout); on success SCHED_PUT_TURN.                    *)
(***************************************************************************)
SemStep(t, s, tmo) ==
  IF semv[s] > 0
  THEN /\ semv' = [semv EXCEPT ![s] = @ - 1]
       /\ sched' = SchedPutTurn(sched)
       /\ Goto(t, "app")
  ELSE /\ sched' = S!Wait(sched, s, tmo)
       /\ Goto(t, "sem")
       /\ UNCHANGED semv

\* semWait: no deadline.
SemWait(t, s) ==
  /\ Call(t)
  /\ SemStep(t, s, FOREVER)
  /\ obj' = [obj EXCEPT ![t] = s]
  /\ dl' = [dl EXCEPT ![t] = FOREVER]
  /\ UNCHANGED <<mtx, owner, narrived, joined, rwl, live>>

\* semTimedWait: the deadline is computed once, under the turn.
SemTimedWait(t, s, rel) ==
  LET tmo == Deadline(sched, rel)
  IN  /\ Call(t)
      /\ SemStep(t, s, tmo)
      /\ obj' = [obj EXCEPT ![t] = s]
      /\ dl' = [dl EXCEPT ![t] = tmo]
      /\ UNCHANGED <<mtx, owner, narrived, joined, rwl, live>>

(***************************************************************************)
(* wait(sem) returned.  semTimedWait breaks out on ETIMEDOUT and returns   *)
(* -1; semWait ignores the result of wait and tries again.                 *)
(***************************************************************************)
SemRetry(t) ==
  /\ HasTurn(t)
  /\ pc[t] = "sem"
  /\ IF dl[t] # FOREVER /\ sched.status[t] = "ETIMEDOUT"
     THEN /\ sched' = SchedPutTurn(sched)
          /\ Goto(t, "app")
          /\ UNCHANGED semv
     ELSE SemStep(t, obj[t], dl[t])
  /\ UNCHANGED <<obj, mtx, dl, owner, narrived, joined, ops, rwl, live>>

\* semTryWait: one sem_trywait, EAGAIN returned to the caller.
SemTryWait(t, s) ==
  /\ Call(t)
  /\ semv' = IF semv[s] > 0 THEN [semv EXCEPT ![s] = @ - 1] ELSE semv
  /\ sched' = SchedPutTurn(sched)
  /\ UNCHANGED <<pc, obj, mtx, dl, owner, narrived, joined, rwl, live>>

\* Bug variant: post without signal(sem).
SemPostNoSignal(t, s) ==
  /\ Call(t)
  /\ semv[s] < MaxSem
  /\ semv' = [semv EXCEPT ![s] = @ + 1]
  /\ sched' = SchedPutTurn(sched)
  /\ UNCHANGED <<pc, obj, mtx, dl, owner, narrived, joined, rwl, live>>

\* semPost: native post, signal(sem), SCHED_PUT_TURN.
SemPost(t, s) ==
  /\ Call(t)
  /\ semv[s] < MaxSem
  /\ semv' = [semv EXCEPT ![s] = @ + 1]
  /\ sched' = SchedPutTurn(S!Signal(sched, s, FALSE))
  /\ UNCHANGED <<pc, obj, mtx, dl, owner, narrived, joined, rwl, live>>

-----------------------------------------------------------------------------
(* Read-write locks.  Native rwlocks are only ever tried under the turn,    *)
(* so a native tryrdlock fails only while a writer holds the lock and a    *)
(* native trywrlock fails while anyone holds it.                           *)

\* pthread_rwlock_tryrdlock / pthread_rwlock_trywrlock would succeed.
RdFree(l) == rwl[l].writer = NoThread
WrFree(l) == rwl[l].writer = NoThread /\ rwl[l].readers = {}

\* The native lock taken for reading ("rd") or for writing ("wr") by t.
Acquire(l, t, kind) ==
  IF kind = "rd" THEN [rwl EXCEPT ![l].readers = @ \cup {t}]
                 ELSE [rwl EXCEPT ![l].writer = t]

\* Bug variant: the write helper tests only for a writer, as the read helper.
RWLockHelperRdTest(t, l, kind) ==
  IF RdFree(l)
  THEN /\ rwl' = Acquire(l, t, kind)
       /\ sched' = SchedPutTurn(sched)
       /\ Goto(t, "app")
  ELSE /\ sched' = S!Wait(sched, l, FOREVER)
       /\ Goto(t, IF kind = "rd" THEN "rdlock" ELSE "wrlock")
       /\ UNCHANGED rwl

(***************************************************************************)
(* One iteration of pthreadRWLockRdLockHelper / pthreadRWLockWrLockHelper  *)
(* (no timeout): the native try, and on success the SCHED_PUT_TURN of the  *)
(* wrapper; on EBUSY, wait(rwlock).                                        *)
(***************************************************************************)
RWLockHelper(t, l, kind) ==
  IF IF kind = "rd" THEN RdFree(l) ELSE WrFree(l)
  THEN /\ rwl' = Acquire(l, t, kind)
       /\ sched' = SchedPutTurn(sched)
       /\ Goto(t, "app")
  ELSE /\ sched' = S!Wait(sched, l, FOREVER)
       /\ Goto(t, IF kind = "rd" THEN "rdlock" ELSE "wrlock")
       /\ UNCHANGED rwl

\* __pthread_rwlock_rdlock and __pthread_rwlock_wrlock.
PthreadRWLockLock(t, l, kind) ==
  /\ Call(t)
  /\ l \in live
  /\ ~Holds(l, t)
  /\ RWLockHelper(t, l, kind)
  /\ obj' = [obj EXCEPT ![t] = l]
  /\ dl' = [dl EXCEPT ![t] = FOREVER]
  /\ UNCHANGED <<mtx, owner, semv, narrived, joined, live>>

\* wait(rwlock) returned inside a lock helper: the loop tries again.
RWLockRetry(t) ==
  /\ HasTurn(t)
  /\ pc[t] \in {"rdlock", "wrlock"}
  /\ RWLockHelper(t, obj[t], IF pc[t] = "rdlock" THEN "rd" ELSE "wr")
  /\ UNCHANGED <<obj, mtx, dl, owner, semv, narrived, joined, ops, live>>

(***************************************************************************)
(* __pthread_rwlock_tryrdlock and __pthread_rwlock_trywrlock: one native   *)
(* try, EBUSY returned to the caller.  Both call pthread_rwlock_trywrlock  *)
(* ("FIXME now using wrlock for all rdlock"), so a tryrdlock that succeeds *)
(* holds the lock for writing.                                              *)
(***************************************************************************)
PthreadRWLockTryLock(t, l, kind) ==
  /\ Call(t)
  /\ l \in live
  /\ ~Holds(l, t)
  /\ rwl' = IF WrFree(l) THEN Acquire(l, t, "wr") ELSE rwl
  /\ sched' = SchedPutTurn(sched)
  /\ UNCHANGED <<pc, obj, mtx, dl, owner, semv, narrived, joined, live>>

\* Bug variant: unlock without signal(rwlock).
PthreadRWLockUnlockNoSignal(t, l) ==
  /\ HasTurn(t)
  /\ pc[t] = "app"
  /\ Holds(l, t)
  /\ rwl' = [rwl EXCEPT ![l] = [writer |-> IF @.writer = t THEN NoThread ELSE @.writer,
                                readers |-> @.readers \ {t}]]
  /\ sched' = SchedPutTurn(sched)
  /\ UNCHANGED <<pc, obj, mtx, dl, owner, semv, narrived, joined, ops, live>>

\* __pthread_rwlock_unlock: native unlock, signal(rwlock), SCHED_PUT_TURN.
PthreadRWLockUnlock(t, l) ==
  /\ HasTurn(t)
  /\ pc[t] = "app"
  /\ Holds(l, t)
  /\ rwl' = [rwl EXCEPT ![l] = [writer |-> IF @.writer = t THEN NoThread ELSE @.writer,
                                readers |-> @.readers \ {t}]]
  /\ sched' = SchedPutTurn(S!Signal(sched, l, FALSE))
  /\ UNCHANGED <<pc, obj, mtx, dl, owner, semv, narrived, joined, ops, live>>

-----------------------------------------------------------------------------
(* Initialisation and destruction: pthread_mutex_init/destroy,            *)
(* pthread_rwlock_init/destroy, pthread_barrier_init/destroy, sem_init.   *)
(* Each runs under the turn (SCHED_GET_TURN ... SCHED_PUT_TURN).  A correct *)
(* program initialises an object that is not initialised, and destroys or *)
(* re-initialises one no pending call uses; DestroyBusy lets it destroy a  *)
(* barrier threads are waiting at, counting on the EBUSY that              *)
(* pthreadBarrierDestroy expects.                                          *)

\* Some thread's pending call (parked, woken or serial) uses object o.
InUse(o) ==
  \E u \in Threads : pc[u] \in WaitPCs \cup {"serial"} /\ o \in {obj[u], mtx[u]}

\* pthreadMutexInit: native init.
PthreadMutexInit(t, m) ==
  /\ Call(t)
  /\ m \notin live
  /\ live' = live \cup {m}
  /\ owner' = [owner EXCEPT ![m] = NoThread]
  /\ sched' = SchedPutTurn(sched)
  /\ UNCHANGED <<pc, obj, mtx, dl, semv, narrived, joined, rwl>>

\* pthreadMutexDestroy: native destroy, which returns EBUSY on a locked mutex.
PthreadMutexDestroy(t, m) ==
  /\ Call(t)
  /\ m \in live
  /\ ~InUse(m)
  /\ live' = IF owner[m] = NoThread THEN live \ {m} ELSE live
  /\ sched' = SchedPutTurn(sched)
  /\ UNCHANGED <<pc, obj, mtx, dl, owner, semv, narrived, joined, rwl>>

\* __pthread_rwlock_init: native init.
PthreadRWLockInit(t, l) ==
  /\ Call(t)
  /\ l \notin live
  /\ live' = live \cup {l}
  /\ rwl' = [rwl EXCEPT ![l] = [writer |-> NoThread, readers |-> {}]]
  /\ sched' = SchedPutTurn(sched)
  /\ UNCHANGED <<pc, obj, mtx, dl, owner, semv, narrived, joined>>

\* __pthread_rwlock_destroy: native destroy, EBUSY while the lock is held.
PthreadRWLockDestroy(t, l) ==
  /\ Call(t)
  /\ l \in live
  /\ ~InUse(l)
  /\ live' = IF WrFree(l) THEN live \ {l} ELSE live
  /\ sched' = SchedPutTurn(sched)
  /\ UNCHANGED <<pc, obj, mtx, dl, owner, semv, narrived, joined, rwl>>

\* pthreadBarrierInit: barriers[b] = {count, narrived = 0}.
PthreadBarrierInit(t, b) ==
  /\ Call(t)
  /\ b \notin live
  /\ live' = live \cup {b}
  /\ narrived' = [narrived EXCEPT ![b] = 0]
  /\ sched' = SchedPutTurn(sched)
  /\ UNCHANGED <<pc, obj, mtx, dl, owner, semv, joined, rwl>>

(***************************************************************************)
(* pthreadBarrierDestroy: native destroy, and barriers.erase(b) unless it  *)
(* returned EBUSY.  No thread ever calls the native pthread_barrier_wait   *)
(* (the waiters are parked in wait(barrier)), so the native barrier is     *)
(* never in use and the destroy returns 0.                                 *)
(***************************************************************************)
PthreadBarrierDestroy(t, b) ==
  /\ Call(t)
  /\ b \in live
  /\ DestroyBusy \/ ~InUse(b)
  /\ live' = live \ {b}
  /\ narrived' = [narrived EXCEPT ![b] = 0]
  /\ sched' = SchedPutTurn(sched)
  /\ UNCHANGED <<pc, obj, mtx, dl, owner, semv, joined, rwl>>

\* semInit: native sem_init(sem, pshared, SemInit).
SemInitCall(t, s) ==
  /\ Call(t)
  /\ ~InUse(s)
  /\ semv' = [semv EXCEPT ![s] = SemInit]
  /\ sched' = SchedPutTurn(sched)
  /\ UNCHANGED <<pc, obj, mtx, dl, owner, narrived, joined, rwl, live>>

-----------------------------------------------------------------------------
(* sleep, usleep, nanosleep and sched_yield.                                *)

\* sleep(ts): wait(NULL, turn count + relTimeToTurn(ts)).
Sleep(t, rel) ==
  /\ Call(t)
  /\ sched' = S!Wait(sched, NULL, Deadline(sched, rel))
  /\ Goto(t, "sleep")
  /\ UNCHANGED <<obj, mtx, dl, owner, semv, narrived, joined, rwl, live>>

SleepResume(t) ==
  /\ HasTurn(t)
  /\ pc[t] = "sleep"
  /\ sched' = SchedPutTurn(sched)
  /\ Goto(t, "app")
  /\ UNCHANGED <<obj, mtx, dl, owner, semv, narrived, joined, ops, rwl, live>>

\* schedYield: sched_yield under the turn, SCHED_PUT_TURN.
SchedYield(t) ==
  /\ Call(t)
  /\ sched' = SchedPutTurn(sched)
  /\ UNCHANGED <<pc, obj, mtx, dl, owner, semv, narrived, joined, rwl, live>>

-----------------------------------------------------------------------------
\* Every step thread t can take.
Step(t) ==
  \/ \E c \in Threads : PthreadCreate(t, c)
  \/ BeginHandoff(t)
  \/ ThreadBegin(t)
  \/ ThreadEnd(t)
  \/ \E u \in Threads : PthreadJoin(t, u)
  \/ JoinRetry(t)
  \/ \E m \in Mutexes : \/ PthreadMutexLock(t, m)
                        \/ PthreadMutexTryLock(t, m)
                        \/ PthreadMutexUnlock(t, m)
                        \/ \E rel \in RelTimes : PthreadMutexTimedLock(t, m, rel)
  \/ LockRetry(t)
  \/ \E cv \in CondVars, m \in Mutexes :
        \/ PthreadCondWait(t, cv, m)
        \/ \E rel \in RelTimes : PthreadCondTimedWait(t, cv, m, rel)
  \/ CondResume(t)
  \/ \E cv \in CondVars, all \in BOOLEAN : PthreadCondSignal(t, cv, all)
  \/ \E b \in Barriers : PthreadBarrierWait(t, b)
  \/ BarrierResume(t)
  \/ \E s \in Sems : \/ SemWait(t, s)
                     \/ SemTryWait(t, s)
                     \/ SemPost(t, s)
                     \/ \E rel \in RelTimes : SemTimedWait(t, s, rel)
  \/ SemRetry(t)
  \/ \E l \in RWLocks : \/ PthreadRWLockUnlock(t, l)
                        \/ \E kind \in {"rd", "wr"} :
                              \/ PthreadRWLockLock(t, l, kind)
                              \/ PthreadRWLockTryLock(t, l, kind)
  \/ RWLockRetry(t)
  \/ \E m \in Mutexes : PthreadMutexInit(t, m) \/ PthreadMutexDestroy(t, m)
  \/ \E l \in RWLocks : PthreadRWLockInit(t, l) \/ PthreadRWLockDestroy(t, l)
  \/ \E b \in Barriers : PthreadBarrierInit(t, b) \/ PthreadBarrierDestroy(t, b)
  \/ \E s \in Sems : SemInitCall(t, s)
  \/ \E rel \in RelTimes : Sleep(t, rel)
  \/ SleepResume(t)
  \/ SchedYield(t)

Next == \E t \in Threads : Step(t)

(***************************************************************************)
(* Fairness: the OS runs a thread that heads the run queue, and a thread   *)
(* blocked on a native semaphore that was posted; so every thread that can *)
(* continuously take a step eventually does.                                *)
(***************************************************************************)
Spec == Init /\ [][Next]_vars /\ \A t \in Threads : WF_vars(Step(t))

-----------------------------------------------------------------------------
(* Properties.                                                              *)

(***************************************************************************)
(* Types.  Among them, narrived stays below the barrier's count: the last  *)
(* arriver of pthreadBarrierWait resets it to 0 (line 911), so a reused    *)
(* barrier starts every round from zero.                                   *)
(***************************************************************************)
TypeOK ==
  /\ sched \in S!SchedType
  /\ pc \in [Threads -> PCs]
  /\ owner \in [Mutexes -> Threads \cup {NoThread}]
  /\ semv \in [Sems -> 0 .. MaxSem]
  /\ narrived \in [Barriers -> 0 .. BarrierCount - 1]
  /\ joined \subseteq Threads \ {Main}
  /\ ops \in 0 .. MaxOps
  /\ rwl \in [RWLocks -> [writer: Threads \cup {NoThread}, readers: SUBSET Threads]]
  /\ live \subseteq Objects

(***************************************************************************)
(* The scheduler's queues agree with where the threads are: no thread is   *)
(* in the run queue and the wait queue, or twice in one; exactly the       *)
(* created threads that have not ended are queued; a thread in the wait    *)
(* queue is inside a wrapper's wait; the zombies are the ended threads no  *)
(* one has joined.  Breaks if signal, a timeout or the deadlock breaker    *)
(* leaves a woken thread behind, or putTurn(end_of_thread) mis-files one.  *)
(***************************************************************************)
ThreadInOneQueue ==
  /\ IsInjective(sched.runq \o sched.waitq)
  /\ ToSet(sched.runq \o sched.waitq) = {t \in Threads : pc[t] \notin {"unborn", "exited"}}
  /\ \A t \in S!Waiting(sched) : pc[t] \in WaitPCs
  /\ sched.zombies = {t \in Threads : pc[t] = "exited"} \ joined

WaitingOn(w, c) == w \in S!Waiting(sched) /\ sched.chan[w] = c

Runnable(u) == u \in ToSet(sched.runq)

\* The POSIX view of the state: the barrier rounds are the threads parked in
\* wait(barrier) and those woken by the last arriver that have not returned.
Native == INSTANCE NativeSync WITH
  barwait <- [b \in Barriers |-> {t \in Threads : WaitingOn(t, b)}],
  released <- [b \in Barriers |->
                 {t \in Threads : pc[t] \in {"barrier", "serial"} /\ obj[t] = b
                                  /\ ~WaitingOn(t, b)}],
  ended <- {t \in Threads : pc[t] = "exited"}

(***************************************************************************)
(* The wrappers implement the native semantics (NativeSync): every step of *)
(* the runtime is a step of the POSIX objects or leaves them unchanged.    *)
(* In particular the runtime's own barrier (narrived, signal(barrier,      *)
(* all)) releases exactly a full round, pthreadJoin returns only for an    *)
(* ended thread, the lock helpers take a mutex or rwlock only when the     *)
(* native object is free, and a destroy finds the object unused.           *)
(***************************************************************************)
NativeSemantics == Native!Spec

(***************************************************************************)
(* No lost wakeup: a thread parked in wait(mu) by the lock helper only     *)
(* while the mutex is held or a woken thread is on its way to retry it;    *)
(* parked in wait(sem) only while the value is 0 or a woken thread will    *)
(* retry sem_trywait; parked in pthread_join's wait(th) only while th has  *)
(* not ended.  Every release (unlock, the unlock inside cond_wait,         *)
(* sem_post, thread end) must signal the right channel while the turn is   *)
(* held, or a waiter sleeps forever on a free resource.                    *)
(***************************************************************************)
NoLostWakeup ==
  /\ \A m \in Mutexes, w \in Threads :
       WaitingOn(w, m) =>
         \/ owner[m] # NoThread
         \/ \E u \in Threads :
              /\ Runnable(u) /\ mtx[u] = m
              /\ \/ pc[u] = "condwait"
                 \/ pc[u] = "lock" /\ sched.status[u] = "OK"
  /\ \A s \in Sems, w \in Threads :
       WaitingOn(w, s) =>
         \/ semv[s] = 0
         \/ \E u \in Threads :
              /\ Runnable(u) /\ pc[u] = "sem" /\ obj[u] = s
              /\ sched.status[u] = "OK" \/ dl[u] = FOREVER
  /\ \A u, w \in Threads : WaitingOn(w, u) => pc[u] # "exited"

(***************************************************************************)
(* The runtime's own barrier count matches the scheduler: narrived is the  *)
(* number of threads parked in wait(barrier).  The last arriver must reset *)
(* it and wake every waiter with signal(barrier, all=true), or a later     *)
(* round releases too early or never.                                       *)
(***************************************************************************)
BarrierConsistent ==
  \A b \in Barriers :
    narrived[b] = Cardinality({w \in S!Waiting(sched) : sched.chan[w] = b})

(***************************************************************************)
(* Every timed wait returns: a thread parked with a finite deadline (timed *)
(* lock, cond_timedwait, sem_timedwait, sleep) eventually leaves the wait  *)
(* queue, by a signal, by the turn count passing its deadline, or by the   *)
(* deadlock breaker once the run queue is empty.                           *)
(***************************************************************************)
TimedWaitReturns ==
  \A t \in Threads :
    (t \in S!Waiting(sched) /\ sched.deadline[t] # FOREVER) ~> t \notin S!Waiting(sched)

(***************************************************************************)
(* A writer parked in wait(rwlock) by pthreadRWLockWrLockHelper sleeps only *)
(* while someone holds the lock or a woken thread is on its way to retry   *)
(* it.  __pthread_rwlock_unlock signals one waiter per release; when the   *)
(* last holder leaves, that one signal must reach a thread that can use   *)
(* the lock, or a writer sleeps forever on a free rwlock.                  *)
(***************************************************************************)
RWLockWriterNotStranded ==
  \A l \in RWLocks, w \in Threads :
    WaitingOn(w, l) /\ pc[w] = "wrlock" =>
      \/ ~WrFree(l)
      \/ \E u \in Threads : Runnable(u) /\ pc[u] \in {"rdlock", "wrlock"} /\ obj[u] = l

(***************************************************************************)
(* A reader parked in wait(rwlock) by pthreadRWLockRdLockHelper sleeps only *)
(* while a writer holds the lock or a woken thread will retry it: native   *)
(* rwlocks admit every reader while no writer holds the lock.              *)
(***************************************************************************)
RWLockReaderNotStranded ==
  \A l \in RWLocks, w \in Threads :
    WaitingOn(w, l) /\ pc[w] = "rdlock" =>
      \/ ~RdFree(l)
      \/ \E u \in Threads : Runnable(u) /\ pc[u] \in {"rdlock", "wrlock"} /\ obj[u] = l
=============================================================================
