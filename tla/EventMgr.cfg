\* Every call graph over three functions; a five-block CFG with a loop.
CONSTANTS
  Funcs <- MC_Funcs
  NoFunc = NoFunc
  EventLists <- MC_EventLists
  BBs <- MC_BBs
  Succ <- MC_Succ
  BBCalls <- MC_BBCalls
  Branches <- MC_Branches
SPECIFICATION Spec
INVARIANT MayCallEventExact ParentChainReachesEvent EventBetweenExact
