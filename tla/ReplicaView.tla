---------------------------- MODULE ReplicaView -----------------------------
(***************************************************************************)
(* replica/replica_view.go: N replicas that run HotStuff or Streamlet.     *)
(*                                                                         *)
(* The event loop of Start handles blocks, votes, timeouts and the views   *)
(* that ListenLocalEvent passes on; ListenLocalEvent handles the timer.    *)
(* A handler is one step: how the goroutines of a replica interleave is    *)
(* the subject of Goroutines.  newViewChan and the view events of          *)
(* eventChan are one queue, as are the messages on a link and those of     *)
(* eventChan.                                                              *)
(***************************************************************************)
EXTENDS ViewProtocol

HS == INSTANCE HotStuff
SL == INSTANCE Streamlet

CONSTANTS Algorithms,    \* the protocols to run: "hotstuff", "streamlet"
          Overtake,      \* bound: how many earlier ones a message may overtake
          Silent,        \* replicas run with isByz: they do nothing
          Queried,       \* bound: the replicas a client may query
          Timers,        \* bound: the replicas whose timer may fire, and the
          HSTimerViews,  \* views in which it may do so with HotStuff
          SLTimerViews   \* and with Streamlet

ASSUME ViewAssumption ==
  /\ Algorithms \subseteq {"hotstuff", "streamlet"}
  /\ Overtake \in Nat
  /\ Silent \subseteq Replica
  /\ Queried \subseteq Replica
  /\ Timers \subseteq Replica
  /\ HSTimerViews \subseteq Nat /\ SLTimerViews \subseteq Nat
  /\ \A b \in Block : b.proposer = Leader(b.height)

VARIABLES
  algorithm,  \* the flag with which all replicas were started
  rs,         \* rs[r]: the protocol state of replica r
  started     \* the replicas whose ListenLocalEvent has received the start signal

vars == <<algorithm, rs, started>>

-----------------------------------------------------------------------------
(* The interface SafetyView. *)

UsesHotStuff == algorithm = "hotstuff"

NewSafety(alg) == IF alg = "hotstuff" THEN HS!NewHotStuff ELSE SL!NewStreamlet

ProcessBlock(r, s, b) ==
  IF UsesHotStuff THEN HS!ProcessBlock(r, s, b) ELSE SL!HandleBlock(r, s, b)

ProcessVote(r, s, b, q) ==
  IF UsesHotStuff THEN HS!ProcessVote(s, b, q) ELSE SL!HandleVote(r, s, b, q)

ProcessRemoteTmo(s, view, highQC, q) ==
  IF UsesHotStuff THEN HS!ProcessRemoteTmo(s, view, highQC, q)
                  ELSE SL!ProcessRemoteTmo(s, view, q)

ProcessLocalTmo(r, s) ==
  IF UsesHotStuff THEN HS!ProcessLocalTmo(r, s) ELSE SL!ProcessLocalTmo(r, s)

MakeProposal(r, s, view) ==
  IF UsesHotStuff THEN HS!MakeProposal(r, s, view) ELSE SL!MakeProposal(r, s, view)

Certificates(s) ==
  IF UsesHotStuff THEN HS!Certificates(s) ELSE SL!Certificates(s)

-----------------------------------------------------------------------------
(* The replicas. *)

Init ==
  /\ algorithm \in Algorithms
  /\ rs = [r \in Replica |-> NewSafety(algorithm)]
  /\ started = {}

Up(r) == r \notin Silent /\ ~rs[r].halted

startSignal(r) == started' = started \cup {r}

\* The switch of the event loop on a message of v.
Handle(r, s, v, m) ==
  CASE m.type = "block" -> ProcessBlock(r, s, m.block)
    [] m.type = "vote"  -> ProcessVote(r, s, m.block, m.voter)
    [] m.type = "tmo"   -> ProcessRemoteTmo(s, m.view, m.highQC, v)

\* HandleVote and HandleTmo drop what is stale, but they look at the view
\* some time before the event loop does.
IsStale(s, m) ==
  CASE m.type = "block" -> FALSE
    [] m.type = "vote"  -> m.block.height < s.curView
    [] m.type = "tmo"   -> m.view < s.curView

\* A message of v reaches the event loop of r, or is dropped as stale.
Deliver(r, v) ==
  /\ Up(r)
  /\ \E i \in DOMAIN rs[v].out[r] :
       LET m == rs[v].out[r][i]
           sent == [rs EXCEPT ![v].out[r] = RemoveAt(@, i)]
       IN  /\ i <= Overtake + 1
           /\ \/ rs' = [sent EXCEPT ![r] = Handle(r, @, v, m)] /\ startSignal(r)
              \/ IsStale(rs[r], m) /\ rs' = sent /\ UNCHANGED started
  /\ UNCHANGED algorithm

\* handleQuery starts a replica.
Query(r) ==
  /\ Up(r)
  /\ r \in Queried \ started
  /\ startSignal(r)
  /\ UNCHANGED <<algorithm, rs>>

\* Bound: proposals are made only within Block.
WithinBounds(r, s, view) ==
  /\ view <= MaxHeight
  /\ r = Leader(view) => MakeProposal(r, s, view) \in Block

\* Mutant: the block is for the current view, not for the one announced.
MutantProposeBlock(r, s, view) ==
  LET b == MakeProposal(r, s, s.curView)
  IN  ProcessBlock(r, Broadcast(r, [s EXCEPT !.proposed = @ \cup {b}], BlockMsg(b)), b)

proposeBlock(r, s, view) ==
  LET b == MakeProposal(r, s, view)
  IN  ProcessBlock(r, Broadcast(r, [s EXCEPT !.proposed = @ \cup {b}], BlockMsg(b)), b)

\* processNewView, however late the event loop takes the view
NewView(r) ==
  /\ Up(r)
  /\ r \in started
  /\ rs[r].newViewChan # <<>>
  /\ LET view == Head(rs[r].newViewChan)
         s == [rs[r] EXCEPT !.newViewChan = Tail(@)]
     IN  /\ WithinBounds(r, s, view)
         /\ rs' = [rs EXCEPT ![r] = IF r = Leader(view)
                                    THEN proposeBlock(r, s, view) ELSE s]
  /\ UNCHANGED <<algorithm, started>>

\* Bound: the timer does not fire twice for one timeout.
MayFire(r) ==
  /\ r \in Timers
  /\ rs[r].curView \in IF UsesHotStuff THEN HSTimerViews ELSE SLTimerViews
  /\ <<rs[r].curView, r>> \in rs[r].timeouts => UsesHotStuff

\* ListenLocalEvent: the timer has fired.
Timeout(r) ==
  /\ Up(r)
  /\ r \in started
  /\ MayFire(r)
  /\ rs' = [rs EXCEPT ![r] = ProcessLocalTmo(r, @)]
  /\ UNCHANGED <<algorithm, started>>

\* The goroutine Streamlet starts for a timeout certificate
AdvanceLater(r) ==
  /\ Up(r)
  /\ ~UsesHotStuff
  /\ \E view \in rs[r].advancing :
       rs' = [rs EXCEPT ![r] = AdvanceView([rs[r] EXCEPT !.advancing = @ \ {view}], view)]
  /\ UNCHANGED <<algorithm, started>>

Next ==
  \E r \in Replica :
    \/ \E v \in Replica \ {r} : Deliver(r, v)
    \/ Query(r)
    \/ NewView(r)
    \/ Timeout(r)
    \/ AdvanceLater(r)

Spec == Init /\ [][Next]_vars

\* As long as some replica can take a step, some replica takes one: the
\* scheduler of the goroutines does not stop, and what was sent arrives.
FairSpec == Spec /\ WF_vars(Next)

-----------------------------------------------------------------------------
(* Properties. *)

Proposed == UNION {rs[r].proposed : r \in Replica}

\* The certificates the replicas know of
Certified == (UNION {Certificates(rs[r]) : r \in Replica})
               \cup ({b.prev : b \in Proposed} \ {Genesis})

Voted == UNION {Range(rs[r].voted) : r \in Replica}

ChainOf(b) ==
  LET back[x \in Block] == {x} \cup (IF x.prev = Genesis THEN {} ELSE back[x.prev])
  IN  IF b = Genesis THEN {} ELSE back[b]

\* More than two thirds of the replicas have voted for b.
HasVotes(b) ==
  3 * Cardinality({r \in Replica : b \in Range(rs[r].voted)}) > 2 * N

\* Every variable holds a value of its kind.
TypeOK ==
  /\ DOMAIN rs = Replica
  /\ \A r \in Replica : rs[r] \in IF UsesHotStuff THEN HS!State ELSE SL!State
  /\ algorithm \in Algorithms
  /\ started \subseteq Replica

\* A leader proposes one block in a view, although the pacemaker is advanced
\* by certificates, timeouts and timers in any order.
OneProposalPerView ==
  \A b, c \in Proposed : b.height = c.height => b = c

\* However late a leader handles a view, the proposals are a tree, as in
\* IsTree: each is on Genesis or on a proposal made before it; and with
\* Streamlet the proposal of view 1 is on Genesis.  This is what MCStreamlet
\* takes for granted of the other replicas.
ProposalTree ==
  IF UsesHotStuff THEN IsTree(Proposed) ELSE SL!StreamletTree(Proposed)

\* Behind every certificate in use there is a super majority of replicas that
\* voted for its block.
CertificatesAreVotes == \A b \in Certified : HasVotes(b)

\* The block that HotStuff committed last, which LowestLevel is the view of, has
\* a child and a grandchild in the next two views, and a super majority of
\* replicas voted for each of the three: the premise of the safety argument of
\* HotStuff, however the views were left.
CommitsAreThreeChains ==
  UsesHotStuff => \A r \in Replica : rs[r].bc.lowest > 0 =>
    \E b \in Range(rs[r].committed), x, y \in Voted :
      /\ b.height = rs[r].bc.lowest
      /\ x.prev = b /\ x.height = b.height + 1
      /\ y.prev = x /\ y.height = b.height + 2
      /\ \A c \in {b, x, y} : HasVotes(c)

\* A super majority of replicas voted for every block that a replica of either
\* protocol has committed, also for the ancestors that CommitBlock commits
\* without a certificate of theirs having been handled.
CommittedAreVoted ==
  \A r \in Replica : \A b \in Range(rs[r].committed) : HasVotes(b)

\* What a HotStuff replica has committed is the whole chain of its highest
\* block, each block once, and pruning follows it.
CommittedChain ==
  UsesHotStuff => \A r \in Replica :
    LET blocks == Range(rs[r].committed)
        top == IF blocks = {} THEN Genesis
               ELSE CHOOSE b \in blocks : \A c \in blocks : c.height <= b.height
    IN  /\ blocks = ChainOf(top)
        /\ Len(rs[r].committed) = Cardinality(blocks)
        /\ rs[r].bc.lowest = HeightOf(top)

\* A HotStuff replica goes on: PruneUpToLevel comes back from the search along
\* the first containers of the levels, however the blocks came in.
PruningReturns == UsesHotStuff => \A r \in Replica : ~rs[r].halted

\* Some block is committed by every replica that is not silent.
EventuallyCommitted ==
  <>(\A r \in Replica \ Silent : rs[r].committed # <<>>)

-----------------------------------------------------------------------------
(* What the repository says and the code does not do. *)

\* protocol/hotstuff.go:288: "target view is lower than the last voted view"
\* is an error, so that a replica never votes for a lower view than before.
\* (Nothing calls updateLastVotedView.)
VotesNeverGoBack ==
  \A r \in Replica : \A i, j \in DOMAIN rs[r].voted :
    i < j => rs[r].voted[i].height < rs[r].voted[j].height

\* protocol/streamlet.go:349: "check three-chain" stands before the test that
\* commits the second of three notarized blocks: the highest block committed
\* extends the block of the view before, and a block of the view after
\* extends it.
CommitsFollowThreeChain ==
  ~UsesHotStuff =>
    \A r \in Replica : \A b \in Range(rs[r].committed) :
      (\A c \in Range(rs[r].committed) : c.height <= b.height) =>
        /\ HeightOf(b.prev) + 1 = b.height
        /\ \E c \in Voted : c.prev = b /\ c.height = b.height + 1
=============================================================================
