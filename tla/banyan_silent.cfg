\* banyan: 4 replicas, heights up to 1, ranks up to 1
CONSTANTS
  Algorithm = "banyan"
  N = 4
  F = 1
  P = 1
  Overtake <- InOrder
  Silent = {1}
  Queried = {1, 2}
  Links <- WithoutOneLinks
  Timers = {2}
  MaxHeight = 1
  MaxRank = 1
  MaxChain = 1
  Genesis = Genesis
  Block <- MCBlock
SPECIFICATION FairSpec
CHECK_DEADLOCK FALSE
PROPERTIES EveryHeightShipped
