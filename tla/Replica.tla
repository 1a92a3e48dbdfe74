------------------------------ MODULE Replica -------------------------------
(***************************************************************************)
(* replica/replica.go: N replicas that run Banyan or ICC and exchange      *)
(* blocks and shares over TCP links.                                       *)
(*                                                                         *)
(* Each replica has two goroutines that run the protocol's handlers: the   *)
(* event loop of Start and ListenLocalEvent.  A handler is one step here:  *)
(* the data race between the two goroutines is not modelled.               *)
(*                                                                         *)
(* A link delivers a message of the sender's log at most once: in order    *)
(* (one TCP connection per peer, one reader, and the buffered channels up  *)
(* to the event loop), or else out of order, and then a message that is    *)
(* never delivered is a lost one.  A replica may stop at any moment: no    *)
(* step is ever forced.                                                    *)
(***************************************************************************)
EXTENDS Banyan, Icc

CONSTANTS Algorithm,  \* config algorithm: "icc" or "banyan"
          Overtake,   \* bound: how many earlier ones a message may overtake on
                      \* each link: none on tcp and chan, unless both
                      \* goroutines dial the peer at once; any on udp
          Silent,     \* replicas run with isByz: their socket sends nothing
          Queried,    \* bound: the replicas a client may query
          Links,      \* bound: <<r, v>> if messages of v may reach r
          Timers,     \* bound: the replicas whose timer may fire
          MaxRank     \* bound: timer ticks counted at one height

ASSUME AlgorithmAssumption ==
  /\ Algorithm \in {"icc", "banyan"}
  /\ Overtake \in [Replica \X Replica -> Nat]
  /\ Silent \subseteq Replica
  /\ Queried \subseteq Replica
  /\ Links \subseteq Replica \X Replica
  /\ Timers \subseteq Replica
  /\ MaxRank \in Nat

VARIABLES
  rs,     \* rs[r]: the protocol state of replica r
  local,  \* local[r]: ListenLocalEvent of r
  got     \* got[r][v]: the messages of the log of v that r has handled

vars == <<rs, local, got>>

\* pc: "waiting" for the start signal, "started" when it was received, then
\* "running" in the select loop.
LocalState == [pc : {"waiting", "started", "running"},
               height : Nat, rank : Nat]  \* block_production_height, _rank

Init ==
  /\ rs = [r \in Replica |-> NewState]
  /\ local = [r \in Replica |-> [pc |-> "waiting", height |-> 1, rank |-> 0]]
  /\ got = [r \in Replica |-> [v \in Replica |-> {}]]

-----------------------------------------------------------------------------
\* NewReplica installs the handlers of the configured algorithm.
ProcessBlock(r, s, b) ==
  IF Algorithm = "icc" THEN IccProcessBlock(r, s, b)
                       ELSE BanyanProcessBlock(r, s, b)

ProcessNotarizationShare(r, s, v, b, fast) ==
  IF Algorithm = "icc" THEN IccProcessNotarizationShare(r, s, v, b)
                       ELSE BanyanProcessNotarizationShare(r, s, v, b, fast)

\* The switch of the event loop.
Handle(r, s, v, m) ==
  CASE m.type = "block"  -> ProcessBlock(r, s, m.block)
    [] m.type = "nshare" -> ProcessNotarizationShare(r, s, v, m.block, m.fast)
    [] m.type = "fshare" -> ProcessFinalizationShare(s, v, m.block)

\* startSignal hands ListenLocalEvent the signal it waits for.
startSignal(r) ==
  local' = [local EXCEPT ![r].pc = IF @ = "waiting" THEN "started" ELSE @]

\* proposeIfLeader and proposeBlock: the proposer sends its block to the
\* others and then handles it itself.
proposeIfLeader(r, s, height, rank) ==
  IF IsLeader(r, height, rank)
  THEN LET b == MakeProposal(r, s, height, rank)
       IN  ProcessBlock(r, Broadcast(s, BlockMsg(b)), b)
  ELSE {s}

\* Bound: proposals are made only within Block.
WithinBounds(r, s, height, rank) ==
  IsLeader(r, height, rank) => MakeProposal(r, s, height, rank) \in Block

Propose(r, s, height, rank) ==
  /\ WithinBounds(r, s, height, rank)
  /\ \E t \in proposeIfLeader(r, s, height, rank) : rs' = [rs EXCEPT ![r] = t]
  /\ local' = [local EXCEPT ![r] = [pc |-> "running", height |-> height, rank |-> rank]]
  /\ got' = got

-----------------------------------------------------------------------------
\* The event loop takes a message of v.
Deliver(r, v) ==
  /\ <<r, v>> \in Links /\ v \notin Silent
  /\ ~rs[r].ledger.halted
  /\ \E i \in DOMAIN rs[v].sent \ got[r][v] :
       /\ Cardinality((1..(i - 1)) \ got[r][v]) <= Overtake[r, v]
       /\ got' = [got EXCEPT ![r][v] = @ \cup {i}]
       /\ \E t \in Handle(r, rs[r], v, rs[v].sent[i]) : rs' = [rs EXCEPT ![r] = t]
  /\ startSignal(r)

\* handleQuery starts a replica too.
Query(r) ==
  /\ r \in Queried
  /\ local[r].pc = "waiting"
  /\ startSignal(r)
  /\ UNCHANGED <<rs, got>>

\* ListenLocalEvent after the start signal
FirstProposal(r) ==
  /\ ~rs[r].ledger.halted
  /\ local[r].pc = "started"
  /\ Propose(r, rs[r], 1, 0)

\* ListenLocalEvent: a new height
NewHeight(r) ==
  /\ ~rs[r].ledger.halted
  /\ local[r].pc = "running"
  /\ rs[r].newHeightChan # <<>>
  /\ Head(rs[r].newHeightChan) <= MaxHeight
  /\ Propose(r, [rs[r] EXCEPT !.newHeightChan = Tail(@)],
             Head(rs[r].newHeightChan), 0)

\* Mutant: the rank is not counted up.
MutantTimeout(r) ==
  /\ r \in Timers
  /\ ~rs[r].ledger.halted
  /\ local[r].pc = "running"
  /\ local[r].rank < MaxRank
  /\ Propose(r, rs[r], local[r].height, local[r].rank)

\* ListenLocalEvent: the timer has fired.  With a height waiting in the
\* channel select may still choose the timer.
Timeout(r) ==
  /\ r \in Timers
  /\ ~rs[r].ledger.halted
  /\ local[r].pc = "running"
  /\ local[r].rank < MaxRank
  /\ Propose(r, rs[r], local[r].height, local[r].rank + 1)

Next ==
  \E r \in Replica :
    \/ \E v \in Replica \ {r} : Deliver(r, v)
    \/ Query(r)
    \/ FirstProposal(r)
    \/ NewHeight(r)
    \/ Timeout(r)

Spec == Init /\ [][Next]_vars

\* Goroutines are scheduled, what was sent arrives, a client queries the
\* replicas of Queried, and the timers of Timers run.
FairSpec ==
  /\ Spec
  /\ \A r \in Replica :
       /\ WF_vars(Query(r)) /\ WF_vars(FirstProposal(r))
       /\ WF_vars(NewHeight(r)) /\ WF_vars(Timeout(r))
       /\ \A v \in Replica \ {r} : WF_vars(Deliver(r, v))

-----------------------------------------------------------------------------
(* Properties. *)

Committed(r) == rs[r].ledger.committed

Proposed == UNION {BlocksIn(rs[r].sent) : r \in Replica}

\* Every variable holds a value of its kind.  The ledger is described by
\* LedgerInv.
TypeOK ==
  /\ DOMAIN rs = Replica
  /\ \A r \in Replica : rs[r] \in State({rs[r].ledger})
  /\ local \in [Replica -> LocalState]
  /\ got \in [Replica -> [Replica -> SUBSET Nat]]

\* A replica that sent a finalization share for a block (sentNSharesNo = 1 in
\* banyan.go and icc_actually.go) never votes, before or after, to notarize
\* another block of that height; and in Banyan neither does a replica that
\* sent a fast share.
VoteDiscipline ==
  \A r \in Replica :
    LET log == rs[r].sent
    IN  \A b \in FCast(log) \cup FastCast(log) : \A c \in Cast(log) :
          b.height = c.height => b = c

\* When some replica has finalized a block, by finalization shares or on the
\* fast path, no replica has notarized or finalized another block of that
\* height.
FinalityAgreement ==
  \A q, r \in Replica : \A b \in rs[q].isFinalized :
    \A c \in rs[r].isNotarized \cup rs[r].isFinalized :
      b.height = c.height => b = c

\* The fast votes NSharesBagBanyan counts for a height, a bare number, never
\* exceed the replicas that sent a fast share at that height.
FastCount ==
  \A r \in Replica : \A h \in Height :
    rs[r].fastVotes[h] <=
      Cardinality({v \in Replica : \E b \in FastCast(rs[v].sent) : b.height = h})

\* Two proposals of the same height and rank are the same block: a leader
\* never proposes twice, although ListenLocalEvent takes heights and timer
\* ticks in any order.
UniqueProposal ==
  \A b, c \in Proposed : b.height = c.height /\ b.rank = c.rank => b = c

\* What a replica has shipped is a chain from genesis without gaps, all of it
\* finalized by this replica, and pruning follows it.
LedgerInv ==
  \A r \in Replica :
    LET l == rs[r].ledger
    IN  /\ \A i \in DOMAIN l.committed :
             /\ l.committed[i].height = i
             /\ l.committed[i].prev = IF i = 1 THEN Genesis ELSE l.committed[i - 1]
             /\ l.committed[i] \in rs[r].isFinalized
        /\ l.lastShipped = IF l.committed = <<>> THEN Genesis ELSE Last(l.committed)
        /\ l.bc.lowest = Len(l.committed)
        /\ l.bc.full \subseteq ContainersAt(l.bc, l.bc.lowest .. MaxHeight)

\* A replica that hears the others in order has notarized what it has
\* finalized: by then the notarization shares it needs are in, before
\* ProcessNotarizationShare starts to ignore them, and so a finalized height
\* never stops it from moving on.
FinalizedIsNotarized ==
  \A r \in {q \in Replica : \A v \in Replica : Overtake[q, v] = 0} :
    rs[r].isFinalized \subseteq rs[r].isNotarized

\* No finalized block gets lost when its shares come before it: it is shipped,
\* stored or in the ship queue, also after later blocks have been pruned.
FinalizedIsKept ==
  \A r \in Replica :
    LET l == rs[r].ledger
    IN  rs[r].isFinalized \subseteq Range(l.committed) \cup l.bc.full \cup l.shipQueue

\* A proposal never skips a height: its parent, the head of the proposer at
\* that moment, is at most one height below it.
NoGap == \A b \in Proposed : b.height <= HeightOf(b.prev) + 1

\* PruneUpToLevel neither panics nor loops on the forests that arise.
NeverHalts == \A r \in Replica : ~rs[r].ledger.halted

\* Every replica that is not silent ships a block of every height: with a
\* silent leader, because a timer fires and the next rank takes over.
EveryHeightShipped ==
  <>(\A r \in Replica \ Silent : Len(Committed(r)) = MaxHeight)

\* The replicas together are a total order broadcast of blocks: what each of
\* them sends to committedBlocks is a prefix of one sequence.
Order == INSTANCE TotalOrder
           WITH delivered <- [r \in Replica |-> Committed(r)]
RefinesTotalOrder == Order!Spec

-----------------------------------------------------------------------------
(* What the repository says and the code does not do. *)

\* README.md:4: without an effective fast path "no penalties are incurred".
\* A block that is finalized and stored, and whose parent is the last block
\* shipped, has been shipped.  (TryToShip forgets a block that is finalized
\* before its parent is shipped.)
NoBlockLeftBehind ==
  \A r \in Replica : \A b \in rs[r].isFinalized :
    HasVertex(rs[r].ledger.bc, b) => b.prev # rs[r].ledger.lastShipped
=============================================================================
