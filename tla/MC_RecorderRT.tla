---------------------------- MODULE MC_RecorderRT ----------------------------
(* Model values and small instances of RecorderRT for TLC.                  *)
EXTENDS RecorderRT

\* A timeout of 0 ns (raised to 5 * nthread + 1 turns) and one of 1 s (MAX_REL).
MC_RelTimes == {[sec |-> 0, nsec |-> 0], [sec |-> 1, nsec |-> 0]}
=============================================================================
