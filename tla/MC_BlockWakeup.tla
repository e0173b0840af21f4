------------------------------ MODULE MC_BlockWakeup ------------------------------
EXTENDS BlockWakeup, TLC

\* No timed wait exists here, so the turn counter guards nothing; states
\* that differ only in it are the same (the idle thread's turns would
\* otherwise grow it without bound).
MC_View == <<[sched EXCEPT !.turn = 0], pc, inNonDet, nNonDetWait, ops, idleParked>>
=============================================================================
