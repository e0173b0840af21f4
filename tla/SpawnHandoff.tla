----------------------------- MODULE SpawnHandoff -----------------------------
(***************************************************************************)
(* The thread spawn hand-off of RecorderRT (pthreadCreate, threadBegin in  *)
(* record-runtime.cpp) between several parents.  A parent, holding the     *)
(* turn, creates the native thread and then registers it with _S::create;  *)
(* it puts the turn, posts thread_begin_sem and waits on                   *)
(* thread_begin_done_sem.  A new thread waits on thread_begin_sem, reads   *)
(* its logical id with _S::self(th), posts thread_begin_done_sem, and then *)
(* takes its first turn.  Both semaphores are process-wide, and the native *)
(* semaphores wake any one waiter.                                          *)
(*                                                                          *)
(* Spawns[p] is the sequence of threads p creates, in order.               *)
(***************************************************************************)
EXTENDS Integers, Sequences, FiniteSets, SequencesExt

CONSTANTS Threads, Main, Spawns, InvalidTid, Unset, FOREVER, NULL,
          MaxCalls   \* other wrapper calls each thread makes

Children == UNION {ToSet(Spawns[p]) : p \in DOMAIN Spawns}

ASSUME /\ DOMAIN Spawns \subseteq Threads
       /\ Main \notin Children
       /\ Children \subseteq Threads

S == INSTANCE RRScheduler WITH Chans <- Threads

VARIABLES sched,      \* the RRScheduler state
          pc,         \* where each thread is
          next,       \* index in Spawns[p] of the next thread p creates
          registered, \* threads _S::create has given a logical id
          selfTid,    \* what _S::self(th) returned to each new thread
          beginSem,   \* thread_begin_sem
          doneSem,    \* thread_begin_done_sem
          calls       \* other wrapper calls each thread has made

vars == <<sched, pc, next, registered, selfTid, beginSem, doneSem, calls>>

PCs == {"unborn", "beginwait", "getturn", "app", "created", "post",
        "donewait", "exited"}

Init ==
  /\ sched = S!SchedInit(Main)
  /\ pc = [t \in Threads |-> IF t = Main THEN "app" ELSE "unborn"]
  /\ next = [p \in DOMAIN Spawns |-> 1]
  /\ registered = {Main}
  /\ selfTid = [t \in Threads |-> IF t = Main THEN Main ELSE Unset]
  /\ beginSem = 0
  /\ doneSem = 0
  /\ calls = [t \in Threads |-> 0]

SchedPutTurn(s) == S!PutTurn(S!IncTurnCount(s))

HasMore(p) == p \in DOMAIN Spawns /\ next[p] <= Len(Spawns[p])

Child(p) == Spawns[p][next[p]]

(***************************************************************************)
(* pthreadCreate, under the turn: __tern_pthread_create starts the native  *)
(* thread, which enters threadBegin and blocks in sem_wait(begin).          *)
(***************************************************************************)
CreateNative(p) ==
  /\ S!HoldsTurn(sched, p)
  /\ pc[p] = "app"
  /\ HasMore(p)
  /\ pc' = [pc EXCEPT ![p] = "created", ![Child(p)] = "beginwait"]
  /\ UNCHANGED <<sched, next, registered, selfTid, beginSem, doneSem, calls>>

\* Bug variant: _S::create queues the thread but does not record its id.
CreateRegisterNoRecord(p) ==
  /\ pc[p] = "created"
  /\ sched' = SchedPutTurn(S!Create(sched, Child(p)))
  /\ pc' = [pc EXCEPT ![p] = "post"]
  /\ UNCHANGED <<next, registered, selfTid, beginSem, doneSem, calls>>

\* _S::create(*thread), then SCHED_PUT_TURN.
CreateRegister(p) ==
  /\ pc[p] = "created"
  /\ registered' = registered \cup {Child(p)}
  /\ sched' = SchedPutTurn(S!Create(sched, Child(p)))
  /\ pc' = [pc EXCEPT ![p] = "post"]
  /\ UNCHANGED <<next, selfTid, beginSem, doneSem, calls>>

\* sem_post(&thread_begin_sem), outside the turn.
PostBegin(p) ==
  /\ pc[p] = "post"
  /\ beginSem' = beginSem + 1
  /\ pc' = [pc EXCEPT ![p] = "donewait"]
  /\ UNCHANGED <<sched, next, registered, selfTid, doneSem, calls>>

\* Bug variant: sem_wait(&thread_begin_done_sem) is dropped.
CreateReturnNoWait(p) ==
  /\ pc[p] = "donewait"
  /\ pc' = [pc EXCEPT ![p] = "app"]
  /\ next' = [next EXCEPT ![p] = @ + 1]
  /\ UNCHANGED <<sched, registered, selfTid, beginSem, doneSem, calls>>

\* sem_wait(&thread_begin_done_sem) returns; pthreadCreate returns.
CreateReturn(p) ==
  /\ pc[p] = "donewait"
  /\ doneSem > 0
  /\ doneSem' = doneSem - 1
  /\ pc' = [pc EXCEPT ![p] = "app"]
  /\ next' = [next EXCEPT ![p] = @ + 1]
  /\ UNCHANGED <<sched, registered, selfTid, beginSem, calls>>

(***************************************************************************)
(* threadBegin of a new thread: sem_wait(begin) returns, _S::self(th)      *)
(* looks the native thread up among the registered ones (InvalidTid if it  *)
(* is not there), sem_post(done).                                           *)
(***************************************************************************)
TakeBegin(c) ==
  /\ pc[c] = "beginwait"
  /\ beginSem > 0
  /\ beginSem' = beginSem - 1
  /\ selfTid' = [selfTid EXCEPT ![c] = IF c \in registered THEN c ELSE InvalidTid]
  /\ doneSem' = doneSem + 1
  /\ pc' = [pc EXCEPT ![c] = "getturn"]
  /\ UNCHANGED <<sched, next, registered, calls>>

\* threadBegin: SCHED_GET_TURN, SCHED_PUT_TURN.
ThreadBegin(c) ==
  /\ S!HoldsTurn(sched, c)
  /\ pc[c] = "getturn"
  /\ sched' = SchedPutTurn(sched)
  /\ pc' = [pc EXCEPT ![c] = "app"]
  /\ UNCHANGED <<next, registered, selfTid, beginSem, doneSem, calls>>

(***************************************************************************)
(* Any other wrapper call: SCHED_GET_TURN, the operation, SCHED_PUT_TURN.  *)
(***************************************************************************)
OtherCall(t) ==
  /\ S!HoldsTurn(sched, t)
  /\ pc[t] = "app"
  /\ calls[t] < MaxCalls
  /\ calls' = [calls EXCEPT ![t] = @ + 1]
  /\ sched' = SchedPutTurn(sched)
  /\ UNCHANGED <<pc, next, registered, selfTid, beginSem, doneSem>>

\* threadEnd of a thread that has created all its threads.
ThreadEnd(t) ==
  /\ S!HoldsTurn(sched, t)
  /\ pc[t] = "app"
  /\ ~HasMore(t)
  /\ sched' = S!PutTurnAtThreadEnd(S!IncTurnCount(sched))
  /\ pc' = [pc EXCEPT ![t] = "exited"]
  /\ UNCHANGED <<next, registered, selfTid, beginSem, doneSem, calls>>

Step(t) ==
  \/ CreateNative(t) \/ CreateRegister(t) \/ PostBegin(t) \/ CreateReturn(t)
  \/ TakeBegin(t) \/ ThreadBegin(t) \/ OtherCall(t) \/ ThreadEnd(t)

\* Every thread has ended: the program has exited.
Terminated ==
  /\ \A t \in Threads : pc[t] \in {"unborn", "exited"}
  /\ UNCHANGED vars

Next == (\E t \in Threads : Step(t)) \/ Terminated

\* The OS runs every thread that can continue: a turn holder, a thread whose
\* semaphore has been posted, a parent between two steps outside the turn.
Spec == Init /\ [][Next]_vars /\ \A t \in Threads : WF_vars(Step(t))

-----------------------------------------------------------------------------
(***************************************************************************)
(* Types (a reading aid; the runs check the properties below).             *)
(***************************************************************************)
TypeOK ==
  /\ pc \in [Threads -> PCs]
  /\ registered \subseteq Threads
  /\ selfTid \in [Threads -> Threads \cup {InvalidTid, Unset}]
  /\ beginSem \in Nat /\ doneSem \in Nat
  /\ calls \in [Threads -> 0 .. MaxCalls]

(***************************************************************************)
(* A new thread learns its own logical id: _S::self(th) in threadBegin     *)
(* never returns InvalidTid or another thread's id.  The hand-off posts    *)
(* thread_begin_sem only after _S::create, so the thread woken must        *)
(* already be registered (spec.md 4.A: "two spawns must not cross-wire").  *)
(***************************************************************************)
ChildGetsOwnTid == \A t \in Threads : selfTid[t] \in {t, Unset}

(***************************************************************************)
(* pthreadCreate returns only after the thread it created has read its     *)
(* logical id: sem_wait(&thread_begin_done_sem) at line 496 holds the      *)
(* parent until that child's threadBegin has run _S::self(th) and posted.  *)
(* A parent that returned early could go on (create, join, end) while its  *)
(* child has no id yet.                                                     *)
(***************************************************************************)
CreateWaitsForChild ==
  \A p \in DOMAIN Spawns : \A i \in 1 .. next[p] - 1 :
    selfTid[Spawns[p][i]] # Unset
=============================================================================
