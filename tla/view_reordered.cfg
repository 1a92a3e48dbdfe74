SPECIFICATION Spec

CONSTANTS
  Genesis = Genesis
  Block <- MCBlock
  N = 2
  MaxHeight = 4
  MaxChain = 4
  Algorithms = {"hotstuff", "streamlet"}
  Overtake = 1
  Silent = {}
  Queried = {1, 2}
  Timers = {1, 2}
  HSTimerViews = {0, 2}
  SLTimerViews = {1}

INVARIANTS TypeOK OneProposalPerView CertificatesAreVotes CommittedChain ProposalTree PruningReturns CommitsAreThreeChains CommittedAreVoted

CHECK_DEADLOCK FALSE
