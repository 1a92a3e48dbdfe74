---------------------------- MODULE ViewProtocol ----------------------------
(***************************************************************************)
(* What protocol/hotstuff.go and protocol/streamlet.go have in common: the *)
(* messages, leaders, votes (blockchain_view/quorum.go) and the committing *)
(* of a block (blockchain_view/blockchain.go), as operators on the state   *)
(* of one replica.                                                         *)
(*                                                                         *)
(* The field height of a block is its view.  A quorum certificate is       *)
(* written as the block it certifies; its view is the view of that block.  *)
(* Every replica follows the protocol, so that all signatures are valid.   *)
(***************************************************************************)
EXTENDS LevelledForest, Pacemaker

View == 0..MaxHeight

\* A vote names its voter, since Streamlet forwards the votes of others.
BlockMsg(b) == [type |-> "block", block |-> b]
VoteMsg(b, q) == [type |-> "vote", block |-> b, voter |-> q]
TmoMsg(view, highQC) == [type |-> "tmo", view |-> view, highQC |-> highQC]

Message == [type : {"block"}, block : Block]
             \cup [type : {"vote"}, block : Block, voter : Replica]
             \cup [type : {"tmo"}, view : Nat, highQC : Identifier]

\* election/rotation.go: FindLeaderForView and IsLeaderView
Leader(view) == ((view - 1) % N) + 1

Send(s, q, m) == [s EXCEPT !.out[q] = Append(@, m)]

Broadcast(r, s, m) ==
  [s EXCEPT !.out = [q \in Replica |-> IF q = r THEN @[q] ELSE Append(@[q], m)]]

\* What Op makes of x: handlers in sequence.  (TLC evaluates x only once.)
Then(x, Op(_)) == CHOOSE y \in {Op(z) : z \in {x}} : TRUE

\* The block is sent on, unless its identifier has been seen before.
Echo(r, s, b, m) ==
  IF b \in s.echoedBlock THEN s
  ELSE Broadcast(r, [s EXCEPT !.echoedBlock = @ \cup {b}], m)

\* History: the blocks r has voted for, in the order of its first votes.
Remember(s, b) == [s EXCEPT !.voted = IF b \in Range(@) THEN @ ELSE Append(@, b)]

-----------------------------------------------------------------------------
(* Votes. *)

Votes(s, b) == {q \in Replica : <<b, q>> \in s.votes}

\* Mutant: the votes are counted, but not for the block they are for.
MutantAddVote(s, b, q) ==
  LET t == [s EXCEPT !.votes = @ \cup {<<b, q>>}]
      all == {v \in Replica : \E w \in t.votes : w[2] = v /\ w[1].height >= b.height}
  IN  IF superMajority(Votes(s, b)) THEN [state |-> s, isBuilt |-> FALSE]
      ELSE [state |-> t, isBuilt |-> superMajority(all)]

\* Quorum.Add: a certificate is built with the vote that makes the super
\* majority, and never again.
AddVote(s, b, q) ==
  LET t == [s EXCEPT !.votes = @ \cup {<<b, q>>}]
  IN  IF superMajority(Votes(s, b)) THEN [state |-> s, isBuilt |-> FALSE]
      ELSE [state |-> t, isBuilt |-> superMajority(Votes(t, b))]

-----------------------------------------------------------------------------
(* Committing a block. *)

\* GetParentBlock finds the block and its parent.
HasParent(f, id) == HasVertex(f, id) /\ HasVertex(f, id.prev)

\* CommitBlock does not return an error.
CanCommit(s, b) == HasVertex(s.bc, b) /\ b.height >= s.bc.lowest

\* Mutants: the committed block is pruned too; nothing is pruned.
MutantCommitBlock(s, b) ==
  IF ~CanCommit(s, b) THEN s
  ELSE [s EXCEPT !.committed = @ \o CommittedBlocks(s.bc, b),
                 !.bc = PruneUpToLevel(@, b.height + 1)]

MutantCommitAgain(s, b) ==
  IF ~CanCommit(s, b) THEN s
  ELSE [s EXCEPT !.committed = @ \o CommittedBlocks(s.bc, b)]

\* The votes for what is committed are forgotten.
CommitBlock(s, b) ==
  LET blocks == CommittedBlocks(s.bc, b)
      kept == {w \in s.votes : w[1] \notin Range(blocks)}
  IN  IF ~CanCommit(s, b) THEN s
      ELSE IF ~PruneReturns(s.bc, b.height) THEN [s EXCEPT !.halted = TRUE]
      ELSE [s EXCEPT !.votes = kept,
                     !.committed = @ \o blocks,
                     !.bc = PruneUpToLevel(@, b.height)]
=============================================================================
