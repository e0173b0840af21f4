------------------------------- MODULE EventMgr -------------------------------
(***************************************************************************)
(* The event-function analysis of the path slicer (EventMgr in             *)
(* lib/path-slicer/event-mgr.cpp).  Two searches:                          *)
(*                                                                          *)
(*   - traverse_call_graph runs DFS(Function* ) from every sync function    *)
(*     set by setupEvents, walking call sites backwards to their callers;   *)
(*     the functions it visits are the ones mayCallEvent answers TRUE for, *)
(*     and parent records the caller-to-callee edge each was found by;      *)
(*   - eventBetween(branch, post) flood-fills the blocks reachable from    *)
(*     the branch's successors, stopping at the post-dominator's block      *)
(*     (DFS(BasicBlock* , sink)), and reports whether a filled block calls *)
(*     a function that may call an event.                                   *)
(*                                                                          *)
(* The module's call graph is chosen once in Init among all call graphs    *)
(* over Funcs (CallGraphFP::runOnModule computes the call sites of a fixed *)
(* module); the CFG of the function holding the branch is a constant.      *)
(* Both searches are RECURSIVE operators, written from the code, and the   *)
(* properties compare them with the reachability of the Graphs module.    *)
(***************************************************************************)
EXTENDS Integers, Graphs

CONSTANTS Funcs,       \* the module's functions (integers: call-site order)
          NoFunc,      \* parent.count(f) == 0
          EventLists,  \* eventList arguments of setupEvents
          BBs,         \* the basic blocks of the function with the branch
          Succ,        \* successors of each block (succ_begin .. succ_end)
          BBCalls,     \* functions called by non-intrinsic calls of a block
          Branches     \* blocks ending in a BranchInst

ASSUME /\ Funcs \subseteq Int /\ BBs \subseteq Int
       /\ Succ \in [BBs -> SUBSET BBs] /\ BBCalls \in [BBs -> SUBSET Funcs]
       /\ Branches \subseteq BBs

VARIABLES calls,       \* the callees of each function, as CallGraphFP sees them
          sync_funcs,  \* the event functions set by setupEvents
          visited,     \* functions reached by traverse_call_graph
          parent,      \* parent[caller] = the callee it was found from
          bbVisited,   \* blocks filled by the last eventBetween
          answer,      \* the value the last eventBetween returned
          query,       \* history: branch block, post block and visited of that call
          events       \* history: sync_funcs at the last traverse_call_graph

vars == <<calls, sync_funcs, visited, parent, bbVisited, answer, query, events>>

NoQuery == [br |-> 0, post |-> 0, may |-> {}]

\* get_call_sites(f): the call instructions calling f, in module order.
CallSites(f) == SetToSortSeq({g \in Funcs : f \in calls[g]}, <)

(***************************************************************************)
(* DFS(Function* f): visited.insert(f), then for each call site of f whose *)
(* calling function is unvisited, parent[caller] = f and DFS(caller).      *)
(* The record r holds visited and parent across the recursion.             *)
(***************************************************************************)
RECURSIVE DFSFunc(_, _)

\* Bug variant: a caller is re-parented even when already visited.
DFSFuncReparent(f, r) ==
  FoldLeft(LAMBDA q, c :
             IF c \in q.visited THEN [q EXCEPT !.parent[c] = f]
             ELSE DFSFunc(c, [q EXCEPT !.parent[c] = f]),
           [r EXCEPT !.visited = @ \cup {f}], CallSites(f))

\* Bug variant: the callers are marked but not searched in turn.
DFSFuncNoRecurse(f, r) ==
  FoldLeft(LAMBDA q, c :
             IF c \in q.visited THEN q
             ELSE [q EXCEPT !.parent[c] = f, !.visited = @ \cup {c}],
           [r EXCEPT !.visited = @ \cup {f}], CallSites(f))

DFSFunc(f, r) ==
  FoldLeft(LAMBDA q, c :
             IF c \in q.visited THEN q
             ELSE DFSFunc(c, [q EXCEPT !.parent[c] = f]),
           [r EXCEPT !.visited = @ \cup {f}], CallSites(f))

\* traverse_call_graph: clear visited and parent, DFS from each sync function.
TraverseCallGraph(list) ==
  FoldLeft(LAMBDA r, s : DFSFunc(s, r),
           [visited |-> {}, parent |-> [f \in Funcs |-> NoFunc]], list)

(***************************************************************************)
(* DFS(BasicBlock* x, sink): return if x is visited; return if x is the    *)
(* sink; mark x and recurse on each successor.                              *)
(***************************************************************************)
RECURSIVE FillFrom(_, _, _)

\* Bug variant: a block is marked before the sink test.
FillFromMarkSink(x, sink, vis) ==
  IF vis[x] THEN vis
  ELSE IF x = sink THEN [vis EXCEPT ![x] = TRUE]
  ELSE FoldLeft(LAMBDA v, y : FillFrom(y, sink, v),
                [vis EXCEPT ![x] = TRUE], SetToSortSeq(Succ[x], <))

FillFrom(x, sink, vis) ==
  IF vis[x] \/ x = sink THEN vis
  ELSE FoldLeft(LAMBDA v, y : FillFrom(y, sink, v),
                [vis EXCEPT ![x] = TRUE], SetToSortSeq(Succ[x], <))

Init ==
  /\ calls \in [Funcs -> SUBSET Funcs]
  /\ sync_funcs = <<>>
  /\ visited = {}
  /\ parent = [f \in Funcs |-> NoFunc]
  /\ bbVisited = [b \in BBs |-> FALSE]
  /\ answer = FALSE
  /\ query = NoQuery
  /\ events = <<>>

\* setupEvents(eventList): sync_funcs = eventList.
SetupEvents(list) ==
  /\ sync_funcs' = list
  /\ UNCHANGED <<calls, visited, parent, bbVisited, answer, query, events>>

\* runOnModule: the call sites of the module, then traverse_call_graph.
RunOnModule ==
  LET r == TraverseCallGraph(sync_funcs)
  IN  /\ visited' = r.visited
      /\ parent' = r.parent
      /\ events' = sync_funcs
      /\ UNCHANGED <<calls, sync_funcs, bbVisited, answer, query>>

\* mayCallEvent(f): visited.count(f).
MayCallEvent(f) == f \in visited

(***************************************************************************)
(* eventBetween(prevInstr, postInstr): clear bbVisited, fill from every    *)
(* successor of the branch up to the post-dominator's block, and return    *)
(* TRUE iff a filled block calls a function mayCallEvent holds for.        *)
(***************************************************************************)
EventBetween(br, post) ==
  LET fill == FoldLeft(LAMBDA v, s : FillFrom(s, post, v),
                       [b \in BBs |-> FALSE], SetToSortSeq(Succ[br], <))
  IN  /\ bbVisited' = fill
      /\ answer' = \E b \in BBs : fill[b] /\ \E g \in BBCalls[b] : MayCallEvent(g)
      /\ query' = [br |-> br, post |-> post, may |-> visited]
      /\ UNCHANGED <<calls, sync_funcs, visited, parent, events>>

Next ==
  \/ \E list \in EventLists : SetupEvents(list)
  \/ RunOnModule
  \/ \E br \in Branches, post \in BBs : EventBetween(br, post)

Spec == Init /\ [][Next]_vars

-----------------------------------------------------------------------------
TypeOK ==
  /\ calls \in [Funcs -> SUBSET Funcs]
  /\ visited \subseteq Funcs
  /\ parent \in [Funcs -> Funcs \cup {NoFunc}]
  /\ bbVisited \in [BBs -> BOOLEAN]
  /\ answer \in BOOLEAN

\* The nodes of G reachable from vs, vs included: the least fixpoint.
RECURSIVE ReachFrom(_, _)
ReachFrom(G, vs) ==
  LET next == vs \cup AllSuccessors(G, vs)
  IN  IF next = vs THEN vs ELSE ReachFrom(G, next)

\* The call graph, caller to callee, and the CFG, as Graphs records.
CallGraph == [node |-> Funcs, edge |-> {<<g, f>> \in Funcs \X Funcs : f \in calls[g]}]
CFG == [node |-> BBs, edge |-> {<<b, c>> \in BBs \X BBs : c \in Succ[b]}]

(***************************************************************************)
(* mayCallEvent(f) holds exactly for the sync functions of the last        *)
(* traversal and every function with a call path to one of them, however  *)
(* the call graph recurses: DFS(Function* ) marks a function before it     *)
(* searches its callers and searches every unvisited one.                  *)
(***************************************************************************)
MayCallEventExact ==
  visited = ReachFrom(Transpose(CallGraph), ToSet(events))

(***************************************************************************)
(* The parent links form a forest rooted at the sync functions: a         *)
(* function with a parent calls it, and following parent from any         *)
(* function ends, within |Funcs| links, at a sync function with no parent, *)
(* the call chain print_call_chain prints.                                  *)
(***************************************************************************)
RECURSIVE ChainEnd(_, _)
ChainEnd(f, n) == IF parent[f] = NoFunc \/ n = 0 THEN f ELSE ChainEnd(parent[f], n - 1)

ParentChainReachesEvent ==
  \A f \in Funcs : parent[f] # NoFunc =>
    /\ parent[f] \in calls[f]
    /\ LET e == ChainEnd(f, Cardinality(Funcs))
       IN  parent[e] = NoFunc /\ e \in ToSet(events)

(***************************************************************************)
(* eventBetween returns TRUE exactly when a block reachable from a         *)
(* successor of the branch without passing through the post-dominator's    *)
(* block (the sink itself excluded, the branch's block included when a     *)
(* loop leads back to it) calls a function mayCallEvent holds for.         *)
(***************************************************************************)
EventBetweenExact ==
  query # NoQuery =>
    LET G == [node |-> BBs \ {query.post},
              edge |-> {e \in CFG.edge : query.post \notin {e[1], e[2]}}]
        between == ReachFrom(G, Succ[query.br] \ {query.post})
    IN  answer = \E b \in between : BBCalls[b] \cap query.may # {}
=============================================================================
