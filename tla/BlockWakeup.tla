----------------------------- MODULE BlockWakeup -----------------------------
(***************************************************************************)
(* The wrappers of RecorderRT that take a thread out of the turn protocol  *)
(* and bring it back (record-runtime.cpp):                                  *)
(*   - the blocking I/O wrappers (__accept ... __strtok): BLOCK_TIMER_START *)
(*     calls block(), the native call runs without the turn, and           *)
(*     BLOCK_TIMER_END calls wakeup(); a regular file under                *)
(*     RR_ignore_rw_regular_file, or a thread in a non-det region, calls   *)
(*     the native function directly;                                       *)
(*   - nonDetStart: wait(&nonDetCV) until every other thread is paused,    *)
(*     SCHED_PUT_TURN, block(), inNonDet = true; nonDetEnd and             *)
(*     nonDetBarrierEnd: inNonDet = false, wakeup();                       *)
(*   - every other wrapper (SCHED_GET_TURN, SCHED_PUT_TURN), which passes  *)
(*     through to the native call inside a non-det region.                 *)
(*   - the idle thread (spec.md 4.F): under the turn, idle_cond_wait       *)
(*     parks it on the scheduler's idle condvar when another thread is     *)
(*     runnable and otherwise passes the turn; idle_sleep passes the turn. *)
(*     The next wakeup() brings it back.                                   *)
(* The threads exist from the start, the idle thread last in the run      *)
(* queue; each calls wrappers within MaxOps calls and ends outside any    *)
(* non-det region.  The idle thread runs for as long as the process does. *)
(***************************************************************************)
EXTENDS Integers, Sequences, FiniteSets, SequencesExt, Options

CONSTANTS Threads,    \* logical tids
          NonDetCV,   \* the address of nonDetCV, a wait channel
          MaxOps,     \* bound on the wrapper calls
          Idle,       \* the idle thread (idle_th)
          FOREVER, NULL

S == INSTANCE RRScheduler WITH Threads <- Threads \cup {Idle},
                               Chans <- {NonDetCV} \cup Threads

VARIABLES sched,        \* the RRScheduler state
          pc,           \* where each thread is
          inNonDet,     \* the thread-local inNonDet
          nNonDetWait,  \* threads inside nonDetStart's wait
          ops,          \* wrapper calls left
          idleParked    \* the idle thread is blocked on idle_cond

vars == <<sched, pc, inNonDet, nNonDetWait, ops, idleParked>>

PCs == {"app", "syscall", "ndwait", "ndblock", "exited"}

Init ==
  /\ sched = [S!SchedInit(CHOOSE t \in Threads : TRUE) EXCEPT
                !.runq = SetToSortSeq(Threads, LAMBDA a, b : a < b) \o <<Idle>>]
  /\ pc = [t \in Threads |-> "app"]
  /\ inNonDet = [t \in Threads |-> FALSE]
  /\ nNonDetWait = 0
  /\ ops = MaxOps
  /\ idleParked = FALSE

\* Every scheduler step ends with the release of the non-det waiters.
Sched(s) == S!ReleaseSentinel(s, NonDetCV, Idle)

SchedPutTurn(s) == Sched(S!PutTurn(S!IncTurnCount(s)))

HasTurn(t) == S!HoldsTurn(sched, t)

Goto(t, p) == pc' = [pc EXCEPT ![t] = p]

\* The application calls a wrapper.
Call(t) == pc[t] = "app" /\ ops > 0 /\ ops' = ops - 1

(***************************************************************************)
(* BLOCK_TIMER_START: inside a non-det region the native call is made      *)
(* directly; otherwise block() gets the turn and leaves the run queue      *)
(* (RRScheduler's interProStart holds), and the thread enters the native  *)
(* call.                                                                   *)
(***************************************************************************)
BlockTimerStart(t) ==
  IF EnforceNonDetAnnotations /\ inNonDet[t]
  THEN UNCHANGED <<sched, pc>>
  ELSE /\ HasTurn(t)
       /\ sched' = Sched(S!Block(sched))
       /\ Goto(t, "syscall")

(***************************************************************************)
(* The kinds of descriptor a file wrapper is given: a socket, a FIFO, a    *)
(* file on disk, and a descriptor fstat rejects (closed or never opened).  *)
(***************************************************************************)
FdKinds == {"socket", "fifo", "disk", "badfd"}

(***************************************************************************)
(* regularFile(fd): neither a socket nor a FIFO.  The result of fstat is  *)
(* not checked: for a bad descriptor st is uninitialized and either answer *)
(* can come out.  The set of possible results.                             *)
(***************************************************************************)
RegularFile(kind) ==
  IF kind = "badfd" THEN BOOLEAN ELSE {kind \notin {"socket", "fifo"}}

\* A file wrapper (read, write, pread, pwrite, fgets, close): a regular file
\* under RR_ignore_rw_regular_file goes to libc directly.
BlockingCall(t, kind) ==
  /\ Call(t)
  /\ \E regular \in RegularFile(kind) :
       IF RRIgnoreRwRegularFile /\ regular THEN UNCHANGED <<sched, pc>>
                                           ELSE BlockTimerStart(t)
  /\ UNCHANGED <<inNonDet, nNonDetWait, idleParked>>

\* A peer wrapper (select, epoll_wait, poll, bind, sigwait, socket, listen,
\* gethostbyname/addr, inet_ntoa, strtok, wait, waitpid): BLOCK_TIMER_START,
\* with no file test.
PeerCall(t) ==
  /\ Call(t)
  /\ BlockTimerStart(t)
  /\ UNCHANGED <<inNonDet, nNonDetWait, idleParked>>

\* time, clock_*, get/settimeofday, shutdown, getpeername, get/setsockopt:
\* the native function, called without the turn, in or out of a region.
NativeCall(t) ==
  /\ Call(t)
  /\ UNCHANGED <<sched, pc, inNonDet, nNonDetWait, idleParked>>

\* wakeup(): the caller rejoins the run queue, and so does a parked idle thread.
WakeUp(t) ==
  /\ sched' = Sched(IF idleParked THEN S!Wakeup(S!Wakeup(sched, t), Idle)
                                  ELSE S!Wakeup(sched, t))
  /\ idleParked' = FALSE

\* The native call returned: BLOCK_TIMER_END calls wakeup(), without the turn.
SyscallReturn(t) ==
  /\ pc[t] = "syscall"
  /\ WakeUp(t)
  /\ Goto(t, "app")
  /\ UNCHANGED <<inNonDet, nNonDetWait, ops>>

\* Any other wrapper: SCHED_GET_TURN, SCHED_PUT_TURN; native in a non-det region.
SyncCall(t) ==
  /\ Call(t)
  /\ IF EnforceNonDetAnnotations /\ inNonDet[t]
     THEN UNCHANGED sched
     ELSE HasTurn(t) /\ sched' = SchedPutTurn(sched)
  /\ UNCHANGED <<pc, inNonDet, nNonDetWait, idleParked>>

(***************************************************************************)
(* __fork: SCHED_GET_TURN, the native fork, SCHED_PUT_TURN; the child     *)
(* process restarts its own scheduler (childForkReturn) and is not part   *)
(* of this process.  There is no non-det test: inside a region            *)
(* sched_timer_start reaches assert(!inNonDet), so the application here   *)
(* forks only outside regions (README, finding 6).                       *)
(***************************************************************************)
Fork(t) ==
  /\ Call(t)
  /\ ~inNonDet[t]
  /\ HasTurn(t)
  /\ sched' = SchedPutTurn(sched)
  /\ UNCHANGED <<pc, inNonDet, nNonDetWait, idleParked>>

\* nonDetStart: SCHED_GET_TURN, nNonDetWait++, wait(&nonDetCV).
NonDetStart(t) ==
  /\ Call(t)
  /\ HasTurn(t)
  /\ ~inNonDet[t]
  /\ nNonDetWait' = nNonDetWait + 1
  /\ sched' = Sched(S!Wait(sched, NonDetCV, FOREVER))
  /\ Goto(t, "ndwait")
  /\ UNCHANGED <<inNonDet, idleParked>>

\* The wait on nonDetCV returned: nNonDetWait--, SCHED_PUT_TURN.
NonDetResume(t) ==
  /\ HasTurn(t)
  /\ pc[t] = "ndwait"
  /\ nNonDetWait' = nNonDetWait - 1
  /\ sched' = SchedPutTurn(sched)
  /\ Goto(t, "ndblock")
  /\ UNCHANGED <<inNonDet, ops, idleParked>>

\* Bug variant: the flag is set before block() has taken the thread out.
NonDetBlockEarly(t) ==
  /\ pc[t] = "ndblock"
  /\ inNonDet' = [inNonDet EXCEPT ![t] = TRUE]
  /\ Goto(t, "app")
  /\ UNCHANGED <<sched, nNonDetWait, ops, idleParked>>

\* The block() that ends nonDetStart (it gets the turn first); inNonDet = true.
NonDetBlock(t) ==
  /\ HasTurn(t)
  /\ pc[t] = "ndblock"
  /\ sched' = Sched(S!Block(sched))
  /\ inNonDet' = [inNonDet EXCEPT ![t] = TRUE]
  /\ Goto(t, "app")
  /\ UNCHANGED <<nNonDetWait, ops, idleParked>>

\* nonDetEnd / nonDetBarrierEnd: inNonDet = false, wakeup(), without the turn.
NonDetEnd(t) ==
  /\ pc[t] = "app"
  /\ inNonDet[t]
  /\ inNonDet' = [inNonDet EXCEPT ![t] = FALSE]
  /\ WakeUp(t)
  /\ UNCHANGED <<pc, nNonDetWait, ops>>

\* tern_non_det_start / tern_non_det_end (template.c): the hooks the
\* application calls; when the options are off they do nothing.
tern_non_det_start(t) == NonDetAnnotationsOn /\ NonDetStart(t)

tern_non_det_end(t) == NonDetAnnotationsOn /\ NonDetEnd(t)

\* threadEnd, outside any non-det region.
ThreadEnd(t) ==
  /\ HasTurn(t)
  /\ pc[t] = "app"
  /\ ~inNonDet[t]
  /\ sched' = Sched(S!PutTurnAtThreadEnd(S!IncTurnCount(sched)))
  /\ Goto(t, "exited")
  /\ UNCHANGED <<inNonDet, nNonDetWait, ops, idleParked>>

\* Bug variant: idle_sleep keeps the turn (no putTurn).
IdleSleepNoPut ==
  /\ HasTurn(Idle)
  /\ sched' = Sched(S!IncTurnCount(sched))
  /\ UNCHANGED <<pc, inNonDet, nNonDetWait, ops, idleParked>>

\* idle_sleep: getTurn, incTurnCount, putTurn.
IdleSleep ==
  /\ HasTurn(Idle)
  /\ sched' = Sched(S!PutTurn(S!IncTurnCount(sched)))
  /\ UNCHANGED <<pc, inNonDet, nNonDetWait, ops, idleParked>>

(***************************************************************************)
(* idle_cond_wait: getTurn, incTurnCount; with at least one other thread  *)
(* in the run queue (runq.size() >= 2) idleThreadCondWait releases the    *)
(* turn and blocks the idle thread on idle_cond until the next wakeup();  *)
(* alone, it puts the turn.                                               *)
(***************************************************************************)
IdleCondWait ==
  /\ HasTurn(Idle)
  /\ LET s == S!IncTurnCount(sched)
     IN  IF Len(s.runq) >= 2
         THEN sched' = Sched(S!Block(s)) /\ idleParked' = TRUE
         ELSE sched' = Sched(S!PutTurn(s)) /\ UNCHANGED idleParked
  /\ UNCHANGED <<pc, inNonDet, nNonDetWait, ops>>

\* The idle thread's loop (idle_thread, not in this tree) calls either.
IdleStep == IdleSleep \/ IdleCondWait

Step(t) ==
  \/ \E kind \in FdKinds : BlockingCall(t, kind)
  \/ PeerCall(t) \/ NativeCall(t) \/ SyscallReturn(t) \/ SyncCall(t) \/ Fork(t)
  \/ tern_non_det_start(t) \/ NonDetResume(t) \/ NonDetBlock(t)
  \/ tern_non_det_end(t)
  \/ ThreadEnd(t)

\* Every application thread has ended (the idle thread may still run).
Terminated ==
  /\ \A t \in Threads : pc[t] = "exited"
  /\ UNCHANGED vars

Next == (\E t \in Threads : Step(t)) \/ IdleStep \/ Terminated

(***************************************************************************)
(* The OS runs the thread heading the run queue, a native call eventually  *)
(* returns, and a thread outside the turn protocol keeps running; so does *)
(* the idle thread.                                                        *)
(***************************************************************************)
Spec == Init /\ [][Next]_vars /\ \A t \in Threads : WF_vars(Step(t))
                             /\ WF_vars(IdleStep)

-----------------------------------------------------------------------------
TypeOK ==
  /\ sched \in S!SchedType
  /\ pc \in [Threads -> PCs]
  /\ inNonDet \in [Threads -> BOOLEAN]
  /\ nNonDetWait \in 0 .. Cardinality(Threads)
  /\ ops \in 0 .. MaxOps
  /\ idleParked \in BOOLEAN

\* The thread is outside the turn protocol: in a native call or a non-det region.
Detached(t) == pc[t] = "syscall" \/ inNonDet[t]

(***************************************************************************)
(* Every live thread is in exactly one of the run queue, the wait queue,   *)
(* or detached (spec.md 2), and only nonDetStart parks a thread here.  In  *)
(* particular a thread never holds the turn while blocked in a native      *)
(* call of a blocking wrapper or inside a non-det region (spec.md 8.5):    *)
(* block() must take it off the run queue, and wakeup() put it back once.  *)
(***************************************************************************)
ThreadPlacement ==
  /\ IsInjective(sched.runq \o sched.waitq)
  /\ \A t \in Threads :
       t \in ToSet(sched.runq \o sched.waitq) <=> pc[t] # "exited" /\ ~Detached(t)
  /\ \A t \in S!Waiting(sched) : pc[t] = "ndwait" /\ sched.chan[t] = NonDetCV
  /\ Idle \in ToSet(sched.runq) <=> ~idleParked

(***************************************************************************)
(* Every application thread ends.  The idle thread can take turns forever, *)
(* so no deadlock check shows this: a thread could starve while the idle   *)
(* thread spins.  It holds because idle_cond_wait and idle_sleep pass the  *)
(* turn on (putTurn), the native calls return, the regions end, and the   *)
(* nonDetCV waiters are released once only the idle thread is runnable.    *)
(***************************************************************************)
AllThreadsEnd == <>(\A t \in Threads : pc[t] = "exited")
=============================================================================
