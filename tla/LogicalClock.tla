---------------------------- MODULE LogicalClock ----------------------------
(***************************************************************************)
(* The timeout prologue of the timed wrappers of record-runtime.cpp: the    *)
(* per-thread base time (my_base_time, setBaseTime) and the conversion of   *)
(* an absolute deadline into a number of turns (TimeConv).                  *)
(*                                                                          *)
(* The state machine is one application thread that sets its base time    *)
(* and then converts the deadline of a timed call (the prologue shared by  *)
(* pthreadMutexTimedLock, pthreadCondTimedWait and semTimedWait).           *)
(***************************************************************************)
EXTENDS TimeConv, Options

CONSTANTS Times,           \* absolute times (abstime, clock_gettime) used
          BaseTimes,       \* arguments of tern_set_base_timespec
          BaseTimevals,    \* arguments of tern_set_base_timeval
          NThreads         \* values of _S::nthread at the call

(***************************************************************************)
(* The reduced word width is exact on the inputs: for every difference d   *)
(* of two times a conversion subtracts, (d % 2^Width) \div NanosecPerTurn  *)
(* exceeds MAX_REL iff (d % 2^64) \div NanosecPerTurn does.  A base time   *)
(* with tv_sec = 0 is never subtracted.                                     *)
(***************************************************************************)
\* tern_set_base_timeval: ts.tv_sec = tv->tv_sec, ts.tv_nsec = tv->tv_usec * 1000.
TimevalToTimespec(tv) == [sec |-> tv.sec, nsec |-> tv.usec * 1000]

AllBaseTimes == BaseTimes \cup {TimevalToTimespec(tv) : tv \in BaseTimevals}

ASSUME \A tv \in BaseTimevals : tv.usec \in 0 .. 999999

ASSUME \A a, b \in Times \cup {t \in AllBaseTimes : t.sec # 0} :
         LET d == ToNs(a) - ToNs(b)
         IN  d < 0 => (2 ^ Width + d) \div NanosecPerTurn > MAX_REL

-----------------------------------------------------------------------------
VARIABLES base,    \* my_base_time of the thread
          cur,     \* cur_time the deadline is measured from
          abs,     \* abstime passed by the application
          rel,     \* rel_time = time_diff(cur_time, abstime)
          nthread, \* _S::nthread when the turns were computed
          turns,   \* relTimeToTurn(&rel_time)
          called   \* a timed wrapper has converted its deadline

vars == <<base, cur, abs, rel, nthread, turns, called>>

Init ==
  /\ base = ZeroTime
  /\ cur = ZeroTime
  /\ abs = ZeroTime
  /\ rel = ZeroTime
  /\ nthread = 1
  /\ turns = 0
  /\ called = FALSE

\* RecorderRT::setBaseTime(ts)
SetBaseTime(ts) ==
  /\ base' = ts
  /\ UNCHANGED <<cur, abs, rel, nthread, turns, called>>

(***************************************************************************)
(* The timeout prologue of a timed wrapper, e.g. pthreadMutexTimedLock:    *)
(* a base time whose tv_sec is 0 counts as unset and the wall clock (now)  *)
(* is read instead.                                                         *)
(***************************************************************************)
ConvertTimeout(abstime, now, n) ==
  LET c == IF base.sec = 0 THEN now ELSE base
      r == TimeDiff(c, abstime)
  IN  /\ cur' = c
      /\ abs' = abstime
      /\ rel' = r
      /\ nthread' = n
      /\ turns' = RelTimeToTurn(r, n)
      /\ called' = TRUE
      /\ UNCHANGED base

(***************************************************************************)
(* The hooks the application calls (template.c); each reaches setBaseTime *)
(* only when the annotation options are on.                                *)
(***************************************************************************)
tern_set_base_timespec(ts) == AnnotationsOn /\ SetBaseTime(ts)

tern_set_base_timeval(tv) == AnnotationsOn /\ SetBaseTime(TimevalToTimespec(tv))

Next ==
  \/ \E ts \in BaseTimes : tern_set_base_timespec(ts)
  \/ \E tv \in BaseTimevals : tern_set_base_timeval(tv)
  \/ \E a, now \in Times, n \in NThreads : ConvertTimeout(a, now, n)

Spec == Init /\ [][Next]_vars

-----------------------------------------------------------------------------
\* Reference: the relative time as a number of nanoseconds.
RelNs == ToNs(abs) - ToNs(cur)

Clamp(x, lo, hi) == IF x < lo THEN lo ELSE IF x > hi THEN hi ELSE x

TypeOK ==
  /\ rel.nsec \in 0 .. (NsPerSec - 1)
  /\ turns \in 0 .. MAX_REL
  /\ nthread \in NThreads \cup {1}
  /\ called \in BOOLEAN

(***************************************************************************)
(* time_diff returns a normalised timespec (0 <= nsec < 1e9) whose value   *)
(* is abstime - cur_time, for every pair of valid times, including an      *)
(* abstime that is already in the past.                                     *)
(***************************************************************************)
TimeDiffExact ==
  /\ rel.nsec \in 0 .. (NsPerSec - 1)
  /\ ToNs(rel) = RelNs

(***************************************************************************)
(* A deadline in the future becomes clamp(ns / nanosec_per_turn,           *)
(* 5 * nthread + 1, MAX_REL) turns (spec.md 4.C): relTimeToTurn and        *)
(* time2turn together implement the clamp for every non-negative interval. *)
(***************************************************************************)
FutureTimeoutClamped ==
  called /\ RelNs >= 0 =>
    turns = Clamp(RelNs \div NanosecPerTurn, 5 * nthread + 1, MAX_REL)

(***************************************************************************)
(* The comment in relTimeToTurn: "if result too small or negative, return  *)
(* only (5 * nthread + 1)".  A deadline already in the past must give the  *)
(* minimum number of turns.                                                 *)
(***************************************************************************)
PastTimeoutGetsMinimum ==
  called /\ RelNs < 0 => turns = 5 * nthread + 1
=============================================================================
