SPECIFICATION FairSpec

CONSTANTS
  N = 2
  Self = 1
  EventCap = 1
  ViewCap = 1
  MaxView = 2

INVARIANTS OneCertificate OneStartLost
PROPERTIES ViewsAscend StartReaches 

CHECK_DEADLOCK FALSE
