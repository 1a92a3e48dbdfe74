SPECIFICATION Spec

CONSTANTS
  Genesis = Genesis
  Block <- MCBlock
  N = 2
  MaxHeight = 4
  MaxChain = 4
  Algorithms = {"streamlet"}
  Overtake = 1
  Silent = {}
  Queried = {1, 2}
  Timers = {1, 2}
  HSTimerViews = {1, 2}
  SLTimerViews = {1, 2}

INVARIANTS CommitsFollowThreeChain

CHECK_DEADLOCK FALSE
