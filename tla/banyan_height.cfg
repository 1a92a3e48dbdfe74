\* banyan: 3 replicas, heights up to 1, ranks up to 1
CONSTANTS
  Algorithm = "banyan"
  N = 3
  F = 0
  P = 1
  Overtake <- OvertakeToLast
  Silent = {}
  Queried = {1, 2}
  Links <- ListenerLinks
  Timers = {2}
  MaxHeight = 1
  MaxRank = 1
  MaxChain = 2
  Genesis = Genesis
  Block <- MCBlock
SPECIFICATION Spec
CHECK_DEADLOCK FALSE
INVARIANTS VoteDiscipline FinalityAgreement FastCount  
