----------------------------- MODULE RRScheduler -----------------------------
(***************************************************************************)
(* The round-robin turn scheduler RecorderRT is instantiated with          *)
(* (InstallRuntime: new RecorderRT<RRScheduler>).  Its implementation is   *)
(* not in this source tree; the operators follow spec.md 4.B and the       *)
(* comments of record-runtime.cpp.                                          *)
(*                                                                          *)
(* The scheduler state is one record, so that a wrapper of RecorderRT can  *)
(* compose the calls it makes while holding the turn, in code order, e.g.  *)
(* PutTurn(IncTurnCount(Signal(s, mu, FALSE))) for pthread_mutex_unlock.    *)
(*   runq      run queue; its head holds the turn                          *)
(*   waitq     wait queue in insertion order                                *)
(*   chan      wait channel of each waiting thread                          *)
(*   deadline  wake deadline in turns, FOREVER for an untimed wait         *)
(*   status    what the last wait of each thread returned                  *)
(*   turn      the turn counter                                             *)
(*   zombies   threads that ended and are not yet joined                   *)
(***************************************************************************)
EXTENDS Integers, Sequences, SequencesExt

CONSTANTS Threads,   \* logical thread ids, naturals ordered as tids are
          Chans,     \* wait channels: addresses of sync objects and threads
          FOREVER,   \* deadline of an untimed wait (UINT_MAX)
          NULL       \* the channel of a pure sleep, wait(NULL, deadline)

Statuses == {"OK", "ETIMEDOUT"}

SchedType ==
  [runq: Seq(Threads), waitq: Seq(Threads), chan: [Threads -> Chans \cup {NULL}],
   deadline: [Threads -> Nat \cup {FOREVER}], status: [Threads -> Statuses],
   turn: Nat, zombies: SUBSET Threads]

\* The initial thread holds the turn.
SchedInit(main) ==
  [runq |-> <<main>>, waitq |-> <<>>, chan |-> [t \in Threads |-> NULL],
   deadline |-> [t \in Threads |-> FOREVER], status |-> [t \in Threads |-> "OK"],
   turn |-> 0, zombies |-> {}]

HoldsTurn(s, t) == s.runq # <<>> /\ Head(s.runq) = t

Waiting(s) == ToSet(s.waitq)

\* incTurnCount()
IncTurnCount(s) == [s EXCEPT !.turn = @ + 1]

\* Bug variant: the woken threads stay in the wait queue as well.
PromoteNoDequeue(s, ws, st) ==
  [s EXCEPT !.runq = @ \o ws,
            !.status = [t \in Threads |-> IF t \in ToSet(ws) THEN st ELSE @[t]]]

(***************************************************************************)
(* Move the waiters ws (a sequence, in wake order) from the wait queue to  *)
(* the tail of the run queue; their wait returns st.                       *)
(***************************************************************************)
Promote(s, ws, st) ==
  [s EXCEPT !.waitq = SelectSeq(@, LAMBDA t : t \notin ToSet(ws)),
            !.runq = @ \o ws,
            !.status = [t \in Threads |-> IF t \in ToSet(ws) THEN st ELSE @[t]]]

TimedWaiters(s) == {t \in Waiting(s) : s.deadline[t] # FOREVER}

\* Wake order of timeouts: ascending deadline, then ascending logical id.
Earlier(s, a, b) ==
  \/ s.deadline[a] < s.deadline[b]
  \/ s.deadline[a] = s.deadline[b] /\ a < b

(***************************************************************************)
(* On every change of the head, timed waiters whose deadline the turn     *)
(* counter has reached return ETIMEDOUT, in deadline order.                *)
(***************************************************************************)
FireTimeouts(s) ==
  LET expired == {t \in TimedWaiters(s) : s.deadline[t] <= s.turn}
  IN  Promote(s, SetToSortSeq(expired, LAMBDA a, b : Earlier(s, a, b)), "ETIMEDOUT")

\* Bug variant: no deadlock breaking.
BreakDeadlockOff(s) == s

(***************************************************************************)
(* "if there's a deadlock (activeq == empty), we just wake up timed       *)
(* waiters in order" (record-runtime.cpp header): with an empty run queue  *)
(* the earliest timed waiter returns ETIMEDOUT.                            *)
(***************************************************************************)
BreakDeadlock(s) ==
  IF s.runq = <<>> /\ TimedWaiters(s) # {}
  THEN LET first == CHOOSE t \in TimedWaiters(s) :
                      \A u \in TimedWaiters(s) \ {t} : Earlier(s, t, u)
       IN  Promote(s, <<first>>, "ETIMEDOUT")
  ELSE s

\* The step that follows every change of the run queue's head.
HeadChange(s) == BreakDeadlock(FireTimeouts(s))

\* putTurn(): the head rotates to the tail.
PutTurn(s) == HeadChange([s EXCEPT !.runq = Append(Tail(@), Head(@))])

(***************************************************************************)
(* wait(chan, deadline): the head moves to the wait queue and releases    *)
(* the turn.  wait increments the turn counter itself ("in _S::wait will   *)
(* increase it again", pthreadBarrierWait).                                *)
(***************************************************************************)
Wait(s, c, dl) ==
  LET t == Head(s.runq)
  IN  HeadChange([s EXCEPT !.turn = @ + 1, !.runq = Tail(@),
                           !.waitq = Append(@, t), !.chan[t] = c,
                           !.deadline[t] = dl])

(***************************************************************************)
(* signal(chan, all): the first waiter on chan, or all of them in wait    *)
(* queue order, join the run queue and their wait returns OK.              *)
(***************************************************************************)
Signal(s, c, all) ==
  LET ws == SelectSeq(s.waitq, LAMBDA t : s.chan[t] = c)
  IN  Promote(s, IF all \/ ws = <<>> THEN ws ELSE <<Head(ws)>>, "OK")

(***************************************************************************)
(* putTurn(true) at thread end: the head leaves the run queue, becomes a   *)
(* zombie and wakes the threads joining it (they wait on its address).     *)
(***************************************************************************)
PutTurnAtThreadEnd(s) ==
  LET t == Head(s.runq)
  IN  HeadChange(Signal([s EXCEPT !.runq = Tail(@), !.zombies = @ \cup {t}], t, TRUE))

\* create(th): the child joins the tail of the run queue.
Create(s, c) == [s EXCEPT !.runq = Append(@, c)]

\* Bug variant: block() rotates the caller instead of removing it.
BlockStay(s) == PutTurn(s)

(***************************************************************************)
(* block(): the caller, holding the turn, leaves the run queue without     *)
(* joining the wait queue, and the turn passes on (spec.md 4.B).           *)
(***************************************************************************)
Block(s) == HeadChange([s EXCEPT !.runq = Tail(@)])

\* wakeup(): the caller rejoins the tail of the run queue, without the turn.
Wakeup(s, t) == [s EXCEPT !.runq = Append(@, t)]

(***************************************************************************)
(* The non-det sentinel channel c (nonDetCV): its waiters are released     *)
(* once the run queue is empty except for the idle thread, i.e. "all      *)
(* valid (except idle thread) xtern threads are paused" (nonDetStart in   *)
(* record-runtime.cpp; spec.md 4.G).                                      *)
(***************************************************************************)
ReleaseSentinel(s, c, idle) ==
  IF ToSet(s.runq) \subseteq {idle}
  THEN Promote(s, SelectSeq(s.waitq, LAMBDA t : s.chan[t] = c), "OK")
  ELSE s

\* zombie(th)
IsZombie(s, u) == u \in s.zombies

\* Bug variant: join leaves the thread in the zombie set.
ReapZombieKeep(s, u) == s

\* join(th): the joined thread stops being a zombie.
ReapZombie(s, u) == [s EXCEPT !.zombies = @ \ {u}]
=============================================================================
