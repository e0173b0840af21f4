--------------------------- MODULE MC_LogicalClock ---------------------------
(***************************************************************************)
(* Inputs for LogicalClock.  Times lie within one second of each other so  *)
(* that a 30-bit word reproduces the 64-bit wrap-around of time2turn (the  *)
(* ASSUME in LogicalClock); NanosecPerTurn = 100 keeps 2^30 / 100 above    *)
(* MAX_REL.  The values cover an interval under one turn, one shorter than *)
(* 5 * nthread + 1 turns, one above MAX_REL, and intervals in the past.    *)
(***************************************************************************)
EXTENDS LogicalClock

MC_Times ==
  { [sec |-> 1, nsec |-> n] : n \in {0, 100, 50000000, 960000000} }

\* a base time with tv_sec = 0 next to ordinary ones
MC_BaseTimes ==
  { [sec |-> 1, nsec |-> 100], [sec |-> 0, nsec |-> 500] }

\* a timeval base time (1 us is 1000 ns after the conversion)
MC_BaseTimevals == { [sec |-> 1, usec |-> 1] }
=============================================================================
