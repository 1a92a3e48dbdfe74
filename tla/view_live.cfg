SPECIFICATION FairSpec

CONSTANTS
  Genesis = Genesis
  Block <- MCBlock
  N = 2
  MaxHeight = 5
  MaxChain = 5
  Algorithms = {"hotstuff", "streamlet"}
  Overtake = 0
  Silent = {}
  Queried = {1, 2}
  Timers = {1, 2}
  HSTimerViews = {0}
  SLTimerViews = {0}

PROPERTIES EventuallyCommitted

CHECK_DEADLOCK FALSE
