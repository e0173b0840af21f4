------------------------------ MODULE NativeSync ------------------------------
(***************************************************************************)
(* What the synchronization objects promise a program, independent of any *)
(* scheduler: the POSIX semantics that RecorderRT's wrappers must keep      *)
(* while they decide the order (spec.md 4.D: "the wrappers reproduce       *)
(* native semantics").  There is no turn and no wait queue here; a call    *)
(* either takes effect atomically or has no effect yet.                    *)
(*                                                                          *)
(*   - a mutex is taken only when free and released only by its owner;    *)
(*   - a semaphore is decremented only when positive;                       *)
(*   - an rwlock admits readers while no writer holds it, and a writer     *)
(*     only when nobody holds it;                                           *)
(*   - a barrier releases the threads of a round only when BarrierCount   *)
(*     have arrived, and every one of them; a thread passes a barrier only *)
(*     once released; a barrier is destroyed only when nobody waits at it; *)
(*   - pthread_join returns only for an ended thread, once;                *)
(*   - a thread ends holding no mutex and no rwlock.                        *)
(***************************************************************************)
EXTENDS Integers, FiniteSets

CONSTANTS Threads, Mutexes, Sems, RWLocks, Barriers, BarrierCount, SemInit,
          NoThread

VARIABLES owner,     \* the thread holding each mutex, or NoThread
          semv,      \* the value of each semaphore
          rwl,       \* each rwlock's writer and readers
          barwait,   \* threads arrived at each barrier in the current round
          released,  \* threads of a completed round not yet returned
          live,      \* initialised mutexes, barriers and rwlocks
          ended,     \* threads that have ended
          joined     \* ended threads reaped by pthread_join

nvars == <<owner, semv, rwl, barwait, released, live, ended, joined>>

Free == [writer |-> NoThread, readers |-> {}]

Init ==
  /\ owner = [m \in Mutexes |-> NoThread]
  /\ semv = [s \in Sems |-> SemInit]
  /\ rwl = [l \in RWLocks |-> Free]
  /\ barwait = [b \in Barriers |-> {}]
  /\ released = [b \in Barriers |-> {}]
  /\ live = Mutexes \cup Barriers \cup RWLocks
  /\ ended = {}
  /\ joined = {}

Lock(t, m) ==
  /\ m \in live /\ owner[m] = NoThread
  /\ owner' = [owner EXCEPT ![m] = t]
  /\ UNCHANGED <<semv, rwl, barwait, released, live, ended, joined>>

Unlock(t, m) ==
  /\ owner[m] = t
  /\ owner' = [owner EXCEPT ![m] = NoThread]
  /\ UNCHANGED <<semv, rwl, barwait, released, live, ended, joined>>

SemTake(s) ==
  /\ semv[s] > 0
  /\ semv' = [semv EXCEPT ![s] = @ - 1]
  /\ UNCHANGED <<owner, rwl, barwait, released, live, ended, joined>>

SemGive(s) ==
  /\ semv' = [semv EXCEPT ![s] = @ + 1]
  /\ UNCHANGED <<owner, rwl, barwait, released, live, ended, joined>>

SemReset(s) ==
  /\ semv' = [semv EXCEPT ![s] = SemInit]
  /\ UNCHANGED <<owner, rwl, barwait, released, live, ended, joined>>

RdLock(t, l) ==
  /\ l \in live /\ rwl[l].writer = NoThread
  /\ rwl' = [rwl EXCEPT ![l].readers = @ \cup {t}]
  /\ UNCHANGED <<owner, semv, barwait, released, live, ended, joined>>

WrLock(t, l) ==
  /\ l \in live /\ rwl[l] = Free
  /\ rwl' = [rwl EXCEPT ![l].writer = t]
  /\ UNCHANGED <<owner, semv, barwait, released, live, ended, joined>>

RWUnlock(t, l) ==
  /\ t = rwl[l].writer \/ t \in rwl[l].readers
  /\ rwl' = [rwl EXCEPT ![l] = [writer |-> IF @.writer = t THEN NoThread ELSE @.writer,
                                readers |-> @.readers \ {t}]]
  /\ UNCHANGED <<owner, semv, barwait, released, live, ended, joined>>

\* pthread_barrier_wait: the BarrierCount-th arrival releases the round.
Arrive(t, b) ==
  /\ b \in live
  /\ t \notin barwait[b] \cup released[b]
  /\ IF Cardinality(barwait[b]) + 1 = BarrierCount
     THEN /\ barwait' = [barwait EXCEPT ![b] = {}]
          /\ released' = [released EXCEPT ![b] = @ \cup barwait[b] \cup {t}]
     ELSE /\ barwait' = [barwait EXCEPT ![b] = @ \cup {t}]
          /\ UNCHANGED released
  /\ UNCHANGED <<owner, semv, rwl, live, ended, joined>>

\* pthread_barrier_wait returns.
Depart(t, b) ==
  /\ t \in released[b]
  /\ released' = [released EXCEPT ![b] = @ \ {t}]
  /\ UNCHANGED <<owner, semv, rwl, barwait, live, ended, joined>>

\* Initialisation of an object that is not initialised.
Create(o) ==
  /\ o \notin live
  /\ live' = live \cup {o}
  /\ owner' = IF o \in Mutexes THEN [owner EXCEPT ![o] = NoThread] ELSE owner
  /\ rwl' = IF o \in RWLocks THEN [rwl EXCEPT ![o] = Free] ELSE rwl
  /\ barwait' = IF o \in Barriers THEN [barwait EXCEPT ![o] = {}] ELSE barwait
  /\ UNCHANGED <<semv, released, ended, joined>>

\* Destruction of an object nobody holds or waits at.
Destroy(o) ==
  /\ o \in live
  /\ o \in Mutexes => owner[o] = NoThread
  /\ o \in RWLocks => rwl[o] = Free
  /\ o \in Barriers => barwait[o] = {}
  /\ live' = live \ {o}
  /\ UNCHANGED <<owner, semv, rwl, barwait, released, ended, joined>>

Exit(t) ==
  /\ t \notin ended
  /\ \A m \in Mutexes : owner[m] # t
  /\ \A l \in RWLocks : t # rwl[l].writer /\ t \notin rwl[l].readers
  /\ ended' = ended \cup {t}
  /\ UNCHANGED <<owner, semv, rwl, barwait, released, live, joined>>

Join(u) ==
  /\ u \in ended \ joined
  /\ joined' = joined \cup {u}
  /\ UNCHANGED <<owner, semv, rwl, barwait, released, live, ended>>

Next ==
  \/ \E t \in Threads :
       \/ \E m \in Mutexes : Lock(t, m) \/ Unlock(t, m)
       \/ \E l \in RWLocks : RdLock(t, l) \/ WrLock(t, l) \/ RWUnlock(t, l)
       \/ \E b \in Barriers : Arrive(t, b) \/ Depart(t, b)
       \/ Exit(t) \/ Join(t)
  \/ \E s \in Sems : SemTake(s) \/ SemGive(s) \/ SemReset(s)
  \/ \E o \in Mutexes \cup Barriers \cup RWLocks : Create(o) \/ Destroy(o)

\* Safety only: the native objects promise nothing about progress here.
Spec == Init /\ [][Next]_nvars
=============================================================================
