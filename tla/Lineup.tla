-------------------------------- MODULE Lineup --------------------------------
(***************************************************************************)
(* The lineup (soft barrier) annotations of RecorderRT: lineupInit,         *)
(* lineupStart, lineupEnd and lineupDestroy in record-runtime.cpp, over    *)
(* the turn scheduler.  A lineup (ref_cnt_barrier_t) counts the threads    *)
(* between start and end (nactive) and has a phase: while Arriving, a      *)
(* starting thread waits, with a timeout, until count threads have started *)
(* and the lineup turns Leaving; while Leaving, starts pass through; the   *)
(* last end turns it Arriving again.                                        *)
(*                                                                          *)
(* The threads exist from the start (the spawn protocol is RecorderRT's    *)
(* and SpawnHandoff's).  Each may call the annotations in any order a      *)
(* correct program does, within MaxOps calls, and end.                     *)
(***************************************************************************)
EXTENDS Integers, Sequences, FiniteSets, SequencesExt, Options

CONSTANTS Threads,    \* logical tids
          L,          \* the lineup's opaque_type
          Count,      \* count passed to lineupInit
          Timeout,    \* timeout_turns passed to lineupInit
          MaxOps,     \* bound on the annotations called
          FOREVER, NULL

ASSUME Count \in Nat \ {0} /\ Timeout \in Nat /\ MaxOps \in Nat

S == INSTANCE RRScheduler WITH Chans <- {L} \cup Threads

VARIABLES sched,    \* the RRScheduler state
          pc,       \* where each thread is
          inited,   \* L is in refcnt_bars
          nactive,  \* refcnt_bars[L].nactive
          phase,    \* refcnt_bars[L] isArriving / isLeaving
          ops       \* annotation calls left

vars == <<sched, pc, inited, nactive, phase, ops>>

PCs == {"app", "lwait", "inside", "exited"}

Init ==
  /\ sched = [S!SchedInit(CHOOSE t \in Threads : TRUE) EXCEPT
                !.runq = SetToSortSeq(Threads, LAMBDA a, b : a < b)]
  /\ pc = [t \in Threads |-> "app"]
  /\ inited = FALSE
  /\ nactive = 0
  /\ phase = "Arriving"
  /\ ops = MaxOps

SchedPutTurn(s) == S!PutTurn(S!IncTurnCount(s))

\* SCHED_GET_TURN of an annotation called by the application.
Call(t) == S!HoldsTurn(sched, t) /\ pc[t] = "app" /\ ops > 0 /\ ops' = ops - 1

Goto(t, p) == pc' = [pc EXCEPT ![t] = p]

\* lineupInit: refcnt_bars[L] = ref_cnt_barrier_t(count, 0, timeout).
LineupInit(t) ==
  /\ Call(t)
  /\ ~inited
  /\ inited' = TRUE
  /\ nactive' = 0
  /\ phase' = "Arriving"
  /\ sched' = SchedPutTurn(sched)
  /\ UNCHANGED pc

\* lineupDestroy, by a program with no thread between start and end.
LineupDestroy(t) ==
  /\ Call(t)
  /\ inited
  /\ nactive = 0
  /\ inited' = FALSE
  /\ sched' = SchedPutTurn(sched)
  /\ UNCHANGED <<pc, nactive, phase>>

(***************************************************************************)
(* lineupStart: ++nactive.  Arriving and now full: setLeaving and signal   *)
(* all waiters.  Arriving and not full: wait(&b, turnCount + timeout),     *)
(* continued by LineupWake.  Leaving: pass through.  Then SCHED_PUT_TURN.  *)
(***************************************************************************)
LineupStart(t) ==
  LET n == nactive + 1
  IN  /\ Call(t)
      /\ inited
      /\ nactive' = n
      /\ IF phase = "Arriving" /\ n # Count
         THEN /\ sched' = S!Wait(sched, L, sched.turn + Timeout)
              /\ Goto(t, "lwait")
              /\ UNCHANGED phase
         ELSE /\ phase' = "Leaving"
              /\ sched' = SchedPutTurn(IF phase = "Arriving"
                                       THEN S!Signal(sched, L, TRUE) ELSE sched)
              /\ Goto(t, "inside")
      /\ UNCHANGED inited

\* Bug variant: a timed-out thread turns the lineup Leaving but wakes nobody.
LineupWakeNoSignal(t) ==
  /\ S!HoldsTurn(sched, t)
  /\ pc[t] = "lwait"
  /\ IF nactive < Count /\ phase = "Arriving"
     THEN /\ phase' = "Leaving"
          /\ sched' = SchedPutTurn(sched)
     ELSE /\ sched' = SchedPutTurn(sched)
          /\ UNCHANGED phase
  /\ Goto(t, "inside")
  /\ UNCHANGED <<inited, nactive, ops>>

(***************************************************************************)
(* wait(&b, ...) returned in lineupStart (signal or timeout): if the       *)
(* lineup is still Arriving and not full, setLeaving and signal all; then  *)
(* SCHED_PUT_TURN.                                                          *)
(***************************************************************************)
LineupWake(t) ==
  /\ S!HoldsTurn(sched, t)
  /\ pc[t] = "lwait"
  /\ IF nactive < Count /\ phase = "Arriving"
     THEN /\ phase' = "Leaving"
          /\ sched' = SchedPutTurn(S!Signal(sched, L, TRUE))
     ELSE /\ sched' = SchedPutTurn(sched)
          /\ UNCHANGED phase
  /\ Goto(t, "inside")
  /\ UNCHANGED <<inited, nactive, ops>>

\* Bug variant: the last end does not wait for nactive to reach 0.
LineupEndEarlyReset(t) ==
  /\ S!HoldsTurn(sched, t)
  /\ pc[t] = "inside"
  /\ nactive' = nactive - 1
  /\ phase' = "Arriving"
  /\ sched' = SchedPutTurn(sched)
  /\ Goto(t, "app")
  /\ UNCHANGED <<inited, ops>>

\* lineupEnd: --nactive; the last thread out of a Leaving lineup sets it Arriving.
LineupEnd(t) ==
  /\ S!HoldsTurn(sched, t)
  /\ pc[t] = "inside"
  /\ nactive' = nactive - 1
  /\ phase' = IF nactive - 1 = 0 /\ phase = "Leaving" THEN "Arriving" ELSE phase
  /\ sched' = SchedPutTurn(sched)
  /\ Goto(t, "app")
  /\ UNCHANGED <<inited, ops>>

\* Any other wrapper call: SCHED_GET_TURN, SCHED_PUT_TURN.
OtherCall(t) ==
  /\ Call(t)
  /\ sched' = SchedPutTurn(sched)
  /\ UNCHANGED <<pc, inited, nactive, phase>>

\* threadEnd, outside any lineup region.
ThreadEnd(t) ==
  /\ S!HoldsTurn(sched, t)
  /\ pc[t] = "app"
  /\ sched' = S!PutTurnAtThreadEnd(S!IncTurnCount(sched))
  /\ Goto(t, "exited")
  /\ UNCHANGED <<inited, nactive, phase, ops>>

(***************************************************************************)
(* The hooks the application calls (template.c): each calls the runtime   *)
(* only when the annotation options are on, and is a no-op otherwise.     *)
(* tern_lineup (start then end in one hook) is not a step of its own:     *)
(* from "inside" the only step a thread takes is LineupEnd.               *)
(***************************************************************************)
tern_lineup_init(t) == AnnotationsOn /\ LineupInit(t)

tern_lineup_destroy(t) == AnnotationsOn /\ LineupDestroy(t)

tern_lineup_start(t) == AnnotationsOn /\ LineupStart(t)

tern_lineup_end(t) == AnnotationsOn /\ LineupEnd(t)

Step(t) ==
  \/ tern_lineup_init(t) \/ tern_lineup_destroy(t) \/ tern_lineup_start(t)
  \/ LineupWake(t) \/ tern_lineup_end(t) \/ OtherCall(t) \/ ThreadEnd(t)

\* Every thread has ended.
Terminated ==
  /\ \A t \in Threads : pc[t] = "exited"
  /\ UNCHANGED vars

Next == (\E t \in Threads : Step(t)) \/ Terminated

\* The OS runs the thread heading the run queue.
Spec == Init /\ [][Next]_vars /\ \A t \in Threads : WF_vars(Step(t))

-----------------------------------------------------------------------------
TypeOK ==
  /\ sched \in S!SchedType
  /\ pc \in [Threads -> PCs]
  /\ inited \in BOOLEAN
  /\ nactive \in 0 .. Cardinality(Threads)
  /\ phase \in {"Arriving", "Leaving"}
  /\ ops \in 0 .. MaxOps

(***************************************************************************)
(* A Leaving lineup has no thread parked on it: whoever turns it Leaving   *)
(* (the thread that fills it, or the first to time out) signals all        *)
(* waiters under the same turn, so no thread waits out its whole timeout   *)
(* for a round that has already left.                                       *)
(***************************************************************************)
LeavingHasNoWaiters ==
  phase = "Leaving" => \A w \in S!Waiting(sched) : sched.chan[w] # L

(***************************************************************************)
(* Rounds do not overlap: while the lineup is Arriving, no thread is still *)
(* between lineupStart and lineupEnd of an earlier round, and nactive      *)
(* counts exactly the threads inside lineupStart.                          *)
(***************************************************************************)
RoundsDoNotOverlap ==
  phase = "Arriving" =>
    /\ \A t \in Threads : pc[t] # "inside"
    /\ nactive = Cardinality({t \in Threads : pc[t] = "lwait"})
=============================================================================
