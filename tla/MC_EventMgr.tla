------------------------------ MODULE MC_EventMgr ------------------------------
EXTENDS EventMgr, TLC

\* Every call graph over three functions (self and mutual recursion
\* included); one event function, or two where the second may already
\* have been reached as a caller of the first.
MC_Funcs == 1 .. 3
MC_EventLists == {<<2>>, <<3, 2>>}

(***************************************************************************)
(* A function whose branch in block 1 has successors 2 and 3; block 3      *)
(* ends in a second branch, back to 1 (a loop) or on to 4, the join of    *)
(* both; 4 falls through to the return block 5.                           *)
(***************************************************************************)
MC_BBs == 1 .. 5
MC_Succ == (1 :> {2, 3}) @@ (2 :> {4}) @@ (3 :> {1, 4}) @@ (4 :> {5}) @@ (5 :> {})
MC_BBCalls == (1 :> {3}) @@ (2 :> {1}) @@ (3 :> {}) @@ (4 :> {2}) @@ (5 :> {1, 2})
MC_Branches == {1, 3}
=============================================================================
