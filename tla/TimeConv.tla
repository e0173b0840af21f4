------------------------------ MODULE TimeConv ------------------------------
(***************************************************************************)
(* Physical-to-logical timeout conversion of record-runtime.cpp: time_diff, *)
(* time2turn and RecorderRT::relTimeToTurn.  A timespec is a record         *)
(* [sec, nsec].  The int64 -> uint64 conversion at the call of time2turn    *)
(* keeps its wrap-around, with the word width a constant.                   *)
(***************************************************************************)
EXTENDS Integers

CONSTANTS NanosecPerTurn,  \* options::nanosec_per_turn
          Width            \* width of the unsigned word time2turn divides

NsPerSec == 1000000000

\* const uint64_t MAX_REL in time2turn: the longest logical timeout.
MAX_REL == 1000000

ZeroTime == [sec |-> 0, nsec |-> 0]

ASSUME NanosecPerTurn \in Nat \ {0} /\ Width \in Nat \ {0}

ToNs(ts) == ts.sec * NsPerSec + ts.nsec

\* Bug variants: no borrow at all; a borrow that keeps the seconds.
TimeDiffNoBorrow(start, end) ==
  [sec |-> end.sec - start.sec, nsec |-> end.nsec - start.nsec]

TimeDiffKeepSec(start, end) ==
  IF end.nsec - start.nsec < 0
  THEN [sec |-> end.sec - start.sec, nsec |-> NsPerSec - start.nsec + end.nsec]
  ELSE [sec |-> end.sec - start.sec, nsec |-> end.nsec - start.nsec]

(***************************************************************************)
(* time_diff(start, end): end - start with a borrow from the seconds.      *)
(***************************************************************************)
TimeDiff(start, end) ==
  IF end.nsec - start.nsec < 0
  THEN [sec |-> end.sec - start.sec - 1, nsec |-> NsPerSec - start.nsec + end.nsec]
  ELSE [sec |-> end.sec - start.sec, nsec |-> end.nsec - start.nsec]

\* The implicit conversion of the int64_t argument to time2turn's uint64_t.
ToUnsigned(x) == x % (2 ^ Width)

(***************************************************************************)
(* time2turn(nsec): nsec / nanosec_per_turn, capped at MAX_REL.  The exit  *)
(* when launch_idle_thread is off is an error path outside this module.    *)
(***************************************************************************)
Time2Turn(nsec) ==
  LET ret64 == ToUnsigned(nsec) \div NanosecPerTurn
  IN  IF ret64 > MAX_REL THEN MAX_REL ELSE ret64

\* Bug variant: lower bound 5 * nthread, without the + 1.
RelTimeToTurnLowOff(rel, nthread) ==
  LET ret == Time2Turn(ToNs(rel))
  IN  IF ret < 5 * nthread THEN 5 * nthread ELSE ret

(***************************************************************************)
(* relTimeToTurn(reltime): the turns of a relative time, raised to at      *)
(* least 5 * nthread + 1.                                                   *)
(***************************************************************************)
RelTimeToTurn(rel, nthread) ==
  LET ret == Time2Turn(ToNs(rel))
  IN  IF ret < 5 * nthread + 1 THEN 5 * nthread + 1 ELSE ret
=============================================================================
