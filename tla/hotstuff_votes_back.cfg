SPECIFICATION Spec

CONSTANTS
  Genesis = Genesis
  Block <- MCBlock
  N = 2
  MaxHeight = 4
  MaxChain = 4
  Algorithms = {"hotstuff"}
  Overtake = 0
  Silent = {}
  Queried = {1, 2}
  Timers = {1, 2}
  HSTimerViews = {0, 1, 2}
  SLTimerViews = {0, 1, 2}

INVARIANTS VotesNeverGoBack

CHECK_DEADLOCK FALSE
