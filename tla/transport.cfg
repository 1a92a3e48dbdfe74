SPECIFICATION FairSpec

CONSTANTS
  Node = {1, 2, 3}
  Sender <- MCSender
  Silent = {2}
  Attempts = 2
  MaxSends <- MCMaxSends
  MayCrash = {1}

INVARIANTS OneChangeover
PROPERTIES EverythingArrives CrashSpreads

CHECK_DEADLOCK FALSE
