------------------------------ MODULE Protocol ------------------------------
(***************************************************************************)
(* What protocol/banyan.go and protocol/icc_actually.go have in common:    *)
(* the state of a replica, finalization shares, the shipping of finalized  *)
(* blocks and the making of a proposal, as operators on the state of one   *)
(* replica.                                                                *)
(*                                                                         *)
(* A handler maps a state to the SET of states it may end in: everything   *)
(* is deterministic but the order in which Go iterates over the map        *)
(* shipQueue.                                                              *)
(***************************************************************************)
EXTENDS LevelledForest

CONSTANTS N,        \* config.N, the number of replicas
          F,        \* config.F, the faults tolerated
          P         \* config.P, the replicas the fast path may miss

ASSUME ReplicaAssumption ==
  /\ N \in Nat \ {0} /\ F \in Nat /\ P \in Nat
  /\ \A b \in Block : b.proposer \in 1..N /\ b.rank \in Nat

\* The least that the quorums need to intersect; it holds if N > 3F and the
\* fast path misses P <= (N + F) / 2 replicas.  config.go checks nothing.
ASSUME QuorumAssumption == 2 * P <= N + F /\ P <= (N * 2) \div 3

Replica == 1..N
Height == 1..MaxHeight

\* The messages of a replica.  A share carries the identifier and the height
\* of the block it is about; `fast' stands for the Rank -1 of a notarization
\* share.  The signer of a share is the replica in whose log it is: blocks
\* are echoed, shares never are.
BlockMsg(b) == [type |-> "block", block |-> b, fast |-> FALSE]
NShareMsg(b, fast) == [type |-> "nshare", block |-> b, fast |-> fast]
FShareMsg(b) == [type |-> "fshare", block |-> b, fast |-> FALSE]

Message == [type : {"block", "nshare", "fshare"}, block : Block, fast : BOOLEAN]

\* What a replica has stored and shipped; kept apart from the votes.
\*   halted: CommitBlock has panicked or is in an endless loop
NewLedger ==
  [bc          |-> NewLevelledForest,
   lastShipped |-> Genesis,
   shipQueue   |-> {},
   committed   |-> <<>>,      \* the blocks sent to committedBlocks, in order
   halted      |-> FALSE]

\* The values of the state of a replica whose ledger is in L.
\* `sent' is everything given to Broadcast so far: each link delivers it in
\* order.
State(L) ==
  [nShares       : SUBSET (Block \X Replica),  \* votes of the N-shares bag
   fastVotes     : [Height -> Nat],            \* fastVotesRankZero
   fShares       : SUBSET (Block \X Replica),  \* votes of the F-shares bag
   headHeight    : Level,
   headId        : Identifier,
   sentNRank     : [Height -> Nat],
   sentNSharesNo : [Height -> Nat],
   sentNShareId  : [Height -> Identifier],
   sentFShare    : SUBSET Height,
   isNotarized   : SUBSET Block,
   isFinalized   : SUBSET Block,
   echoedBlock   : SUBSET Block,
   curHeight     : Nat,                        \* local_timeout
   newHeightChan : Seq(Nat),
   sent          : Seq(Message),
   ledger        : L]

\* NewBanyan, NewIcc, NewLocalTimeout.  Genesis stands for the zero value of
\* an identifier in sentNShareId: neither is the identifier of a block.
NewState ==
  [nShares       |-> {},
   fastVotes     |-> [h \in Height |-> 0],
   fShares       |-> {},
   headHeight    |-> 0,
   headId        |-> Genesis,
   sentNRank     |-> [h \in Height |-> 0],
   sentNSharesNo |-> [h \in Height |-> 0],
   sentNShareId  |-> [h \in Height |-> Genesis],
   sentFShare    |-> {},
   isNotarized   |-> {},
   isFinalized   |-> {},
   echoedBlock   |-> {},
   curHeight     |-> 1,
   newHeightChan |-> <<>>,
   sent          |-> <<>>,
   ledger        |-> NewLedger]

\* The blocks a log of messages holds, and those it holds shares for.
BlocksIn(log) == {log[i].block : i \in {j \in DOMAIN log : log[j].type = "block"}}
Cast(log) == {log[i].block : i \in {j \in DOMAIN log : log[j].type = "nshare"}}
FastCast(log) == {log[i].block : i \in {j \in DOMAIN log : log[j].type = "nshare"
                                                         /\ log[j].fast}}
FCast(log) == {log[i].block : i \in {j \in DOMAIN log : log[j].type = "fshare"}}

-----------------------------------------------------------------------------
\* election/rotation.go
IsLeader(r, height, rank) == (height - 1 + rank) % N = r - 1

\* socket.Broadcast to every other replica
Broadcast(s, m) == [s EXCEPT !.sent = Append(@, m)]

\* local_timeout.HeightIncreased.  The channel has room for 100 heights,
\* more than any bound MaxHeight used.
HeightIncreased(s, height) ==
  IF height <= s.curHeight
  THEN s
  ELSE [s EXCEPT !.curHeight = height,
                 !.newHeightChan = Append(@, height)]

Votes(bag, b) == {v \in Replica : <<b, v>> \in bag}

\* Mutant: F + 1 votes are enough.
MutantWeakMajority(bag, b) == Cardinality(Votes(bag, b)) > F

\* superMajority of NSharesBag and of FSharesBag
superMajority(bag, b) == Cardinality(Votes(bag, b)) > (N * 2) \div 3

-----------------------------------------------------------------------------
(* Shipping. *)

\* Mutant: the parent need not have been shipped.
MutantCanShip(l, id) ==
  ~l.halted /\ HasVertex(l.bc, id) /\ id.height >= l.bc.lowest

\* The id is stored, its parent was shipped last and CommitBlock does not
\* return the error of PruneUpToLevel.
CanShip(l, id) ==
  /\ ~l.halted
  /\ HasVertex(l.bc, id)
  /\ id.prev = l.lastShipped
  /\ id.height >= l.bc.lowest

\* TryToShip without the queue: commit the block if it can be shipped.
Ship(l, id) ==
  IF ~CanShip(l, id) THEN l
  ELSE IF ~PruneReturns(l.bc, id.height) THEN [l EXCEPT !.halted = TRUE]
  ELSE [l EXCEPT !.committed   = @ \o CommittedBlocks(l.bc, id),
                 !.bc          = PruneUpToLevel(@, id.height),
                 !.lastShipped = id,
                 !.shipQueue   = @ \ {id}]

\* One queued block that can be shipped is shipped.
ShipOne(l) ==
  LET ready == {id \in l.shipQueue : CanShip(l, id)}
  IN  IF ready = {} THEN {l} ELSE {Ship(l, id) : id \in ready}

\* ShipRounds(l)[n]: what n blocks of the queue shipped one after the other,
\* in the order of some iteration over the map, may leave.
ShipRounds(l) ==
  LET after[n \in Nat] == IF n = 0 THEN {l} ELSE UNION {ShipOne(x) : x \in after[n - 1]}
  IN  after

\* A block that was shipped makes every queued block be tried, recursively:
\* the queue is tried until nothing in it can be shipped.
ShipQueue(l) == ShipRounds(l)[Cardinality(l.shipQueue)]

\* Mutant: a finalized block that is missing is not queued.
MutantTryToShip(l, id) ==
  IF CanShip(l, id) THEN ShipQueue(Ship(l, id)) ELSE {l}

\* A block that is stored but whose parent was not shipped yet is neither
\* shipped nor queued.
TryToShip(l, id) ==
  IF l.halted THEN {l}
  ELSE IF ~HasVertex(l.bc, id) THEN {[l EXCEPT !.shipQueue = @ \cup {id}]}
  ELSE IF ~CanShip(l, id) THEN {l}
  ELSE ShipQueue(Ship(l, id))

-----------------------------------------------------------------------------
(* Finalization. *)

\* isFinalized[id] and TryToShip
Finalize(s, b) ==
  IF s.ledger.halted THEN {s}
  ELSE {[s EXCEPT !.isFinalized = @ \cup {b}, !.ledger = l] :
          l \in TryToShip(s.ledger, b)}

\* v is the voter of the share
ProcessFinalizationShare(s, v, b) ==
  IF b \in s.isFinalized
  THEN {s}
  ELSE LET t == [s EXCEPT !.fShares = @ \cup {<<b, v>>}]
       IN  IF superMajority(t.fShares, b) THEN Finalize(t, b) ELSE {t}

\* Mutant: the number of blocks voted for is not looked at.
MutantSendFShare(r, s, b) ==
  IF ~s.ledger.halted /\ b.height \notin s.sentFShare /\ s.sentNShareId[b.height] = b
  THEN ProcessFinalizationShare(
         Broadcast([s EXCEPT !.sentFShare = @ \cup {b.height}], FShareMsg(b)),
         r, b)
  ELSE {s}

\* The finalization share that ProcessBlock and ProcessNotarizationShare send
\* for a notarized block b, if it is the only block of its height that r has
\* voted for.
SendFShare(r, s, b) ==
  IF /\ ~s.ledger.halted
     /\ b.height \notin s.sentFShare
     /\ s.sentNSharesNo[b.height] = 1
     /\ s.sentNShareId[b.height] = b
  THEN ProcessFinalizationShare(
         Broadcast([s EXCEPT !.sentFShare = @ \cup {b.height}], FShareMsg(b)),
         r, b)
  ELSE {s}

\* Mutant: the height that is announced is one too high.
MutantNotarize(r, s, b) ==
  LET t == [s EXCEPT !.isNotarized = @ \cup {b}]
      u == IF t.headHeight < b.height
           THEN HeightIncreased([t EXCEPT !.headHeight = b.height, !.headId = b],
                                b.height + 2)
           ELSE t
  IN  SendFShare(r, u, b)

\* isNotarized[id], the new head, and the finalization share
Notarize(r, s, b) ==
  LET t == [s EXCEPT !.isNotarized = @ \cup {b}]
      u == IF t.headHeight < b.height
           THEN HeightIncreased([t EXCEPT !.headHeight = b.height, !.headId = b],
                                b.height + 1)
           ELSE t
  IN  SendFShare(r, u, b)

-----------------------------------------------------------------------------
(* Blocks. *)

\* The level a block claims for its parent (blockchain/container.go), whatever
\* height the parent really has.
ParentLevel(b) == b.height - 1

\* The part of ProcessBlock before the notarization share: echo the block,
\* store it, and ship it if it was queued as missing.
StoreBlock(s, b) ==
  LET t == IF b \notin s.echoedBlock /\ b.height > s.headHeight
           THEN Broadcast([s EXCEPT !.echoedBlock = @ \cup {b}], BlockMsg(b))
           ELSE s
      l == [t.ledger EXCEPT !.bc = AddVertex(@, b, ParentLevel(b))]
  IN  {[t EXCEPT !.ledger = x] :
         x \in (IF b \in l.shipQueue THEN TryToShip(l, b) ELSE {l})}

\* The conditions under which ProcessBlock does not return at once.
Accepts(s, b) ==
  /\ ~HasVertex(s.ledger.bc, b)
  /\ IsLeader(b.proposer, b.height, b.rank)

\* The parent is the head, whatever its height.
MakeProposal(r, s, height, rank) ==
  [height |-> height, rank |-> rank, proposer |-> r, prev |-> s.headId]
=============================================================================
