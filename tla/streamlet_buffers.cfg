SPECIFICATION Spec

CONSTANTS
  Genesis = Genesis
  Block <- MCBlock
  N = 6
  Self = 6
  MaxHeight = 5
  Trees <- MCTrees
  MaxSkips = 1
  MaxLate = 1
  Ahead = 1
  TmoViews = {2}

INVARIANTS NotarizedTree PanicsOnlyEarly CommittedOnce

CHECK_DEADLOCK FALSE
