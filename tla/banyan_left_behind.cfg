\* banyan: 3 replicas, heights up to 2, ranks up to 1
CONSTANTS
  Algorithm = "banyan"
  N = 3
  F = 0
  P = 1
  Overtake <- InOrder
  Silent = {}
  Queried = {1, 2}
  Links <- StarLinks
  Timers = {2}
  MaxHeight = 2
  MaxRank = 1
  MaxChain = 3
  Genesis = Genesis
  Block <- MCBlock
SPECIFICATION Spec
CHECK_DEADLOCK FALSE
INVARIANTS NoBlockLeftBehind
