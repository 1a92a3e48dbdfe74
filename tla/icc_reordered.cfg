\* icc: 2 replicas, heights up to 3, ranks up to 1
CONSTANTS
  Algorithm = "icc"
  N = 2
  F = 0
  P = 0
  Overtake <- OvertakeOne
  Silent = {}
  Queried = {1, 2}
  Links <- AllLinks
  Timers = {1, 2}
  MaxHeight = 3
  MaxRank = 1
  MaxChain = 5
  Genesis = Genesis
  Block <- MCBlock
SPECIFICATION Spec
CHECK_DEADLOCK FALSE
INVARIANTS VoteDiscipline FinalityAgreement LedgerInv
PROPERTIES RefinesTotalOrder
