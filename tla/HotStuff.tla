------------------------------ MODULE HotStuff ------------------------------
(***************************************************************************)
(* protocol/hotstuff.go and blockchain_view/: the handlers of the chained  *)
(* HotStuff protocol on the state of one replica.  All of them are         *)
(* deterministic.                                                          *)
(*                                                                         *)
(* The field height of a block is its view, and prev is both its parent    *)
(* and the quorum certificate it carries: MakeProposal takes PrevID from   *)
(* the certificate.  A certificate is written as the block it certifies;   *)
(* its view is the view of that block.  Genesis is the certificate of view *)
(* 0 with which every replica starts, and its zero identifier.             *)
(*                                                                         *)
(* Every replica follows the protocol, so that all signatures are valid    *)
(* (an empty list of signers is accepted too, as Genesis needs).           *)
(***************************************************************************)
EXTENDS ViewProtocol

\* The values of the state of a replica.
State ==
  [curView        : Nat,
   newViewChan    : Seq(Nat),
   timeouts       : SUBSET (Nat \X Replica),
   highQC         : Identifier,
   preferredView  : View,
   votes          : SUBSET (Block \X Replica),  \* Quorum.votes
   bufferedQCs    : SUBSET Identifier,
   bufferedBlocks : SUBSET Block,               \* at most one of each view
   echoedBlock    : SUBSET Block,
   bc             : Forest,
   committed      : Seq(Block),                 \* sent to committedBlocks
   halted         : BOOLEAN,                    \* PruneUpToLevel did not return
   out            : [Replica -> Seq(Message)],  \* sent, on the way to each peer
   proposed       : SUBSET Block,               \* history: own proposals
   voted          : Seq(Block)]                 \* history: blocks voted for

NewHotStuff ==
  [curView        |-> NewPacemaker.curView,
   newViewChan    |-> NewPacemaker.newViewChan,
   timeouts       |-> NewPacemaker.timeouts,
   highQC         |-> Genesis,
   preferredView  |-> 0,
   votes          |-> {},
   bufferedQCs    |-> {},
   bufferedBlocks |-> {},
   echoedBlock    |-> {},
   bc             |-> NewLevelledForest,
   committed      |-> <<>>,
   halted         |-> FALSE,
   out            |-> [q \in Replica |-> <<>>],
   proposed       |-> {},
   voted          |-> <<>>]

\* The certificates a replica knows of
Certificates(s) == (s.bufferedQCs \cup {s.highQC}) \ {Genesis}

-----------------------------------------------------------------------------
(* Certificates. *)

updateHighQC(s, qc) ==
  IF HeightOf(qc) > HeightOf(s.highQC) THEN [s EXCEPT !.highQC = qc] ELSE s

\* The view of the parent of the certified block, if it is larger.
updatePreferredView(s, qc) ==
  IF HeightOf(qc) > 2 /\ qc.prev.height > s.preferredView
  THEN [s EXCEPT !.preferredView = qc.prev.height]
  ELSE s

\* Mutant: only the last two views have to be consecutive.
MutantCommitRule(f, qc) ==
  /\ HeightOf(qc) >= 3
  /\ HasParent(f, qc) /\ HasParent(f, qc.prev)
  /\ qc.prev.height + 1 = qc.height

\* The three-chain: the grandparent of the certified block is committed.
commitRule(f, qc) ==
  /\ HeightOf(qc) >= 3
  /\ HasParent(f, qc) /\ HasParent(f, qc.prev)
  /\ qc.prev.prev.height + 1 = qc.prev.height
  /\ qc.prev.height + 1 = qc.height

processCertificate(s, qc) ==
  LET view == HeightOf(qc)
      Commit(t) == IF commitRule(t.bc, qc) THEN CommitBlock(t, qc.prev.prev) ELSE t
  IN  IF view < s.curView THEN s
      ELSE IF view > 2 /\ ~HasParent(s.bc, qc)
      THEN [s EXCEPT !.bufferedQCs = @ \cup {qc}]
      ELSE Then(updateHighQC(AdvanceView(updatePreferredView(s, qc), view), qc), Commit)

-----------------------------------------------------------------------------
(* Votes. *)

\* The vote of q for b.  A certificate whose block is missing is kept.
ProcessVote(s, b, q) ==
  LET Certify(x) ==
        IF ~x.isBuilt THEN x.state
        ELSE IF ~HasVertex(s.bc, b) THEN [x.state EXCEPT !.bufferedQCs = @ \cup {b}]
        ELSE processCertificate(x.state, b)
  IN  Then(AddVote(s, b, q), Certify)

\* lastVotedView is never assigned: it is 0 and restricts nothing.
votingRule(s, b) ==
  \/ b.height <= 2
  \/ HasParent(s.bc, b) /\ b.prev.height >= s.preferredView

\* Mutant: the vote goes to the leader of the view of the block.
MutantVote(r, s, b) ==
  LET aggregator == Leader(b.height)
      Cast(t) == IF aggregator = r THEN ProcessVote(t, b, r)
                                   ELSE Send(t, aggregator, VoteMsg(b, r))
  IN  Then(Remember(s, b), Cast)

\* The vote goes to the leader of the next view.
Vote(r, s, b) ==
  LET aggregator == Leader(b.height + 1)
      Cast(t) == IF aggregator = r THEN ProcessVote(t, b, r)
                                   ELSE Send(t, aggregator, VoteMsg(b, r))
  IN  Then(Remember(s, b), Cast)

-----------------------------------------------------------------------------
(* Blocks. *)

\* The certificate in a block; the proposer has processed it before.
AcceptQC(r, s, b) ==
  LET Process(t) == IF b.proposer = r THEN t ELSE processCertificate(t, b.prev)
  IN  Then(updateHighQC(s, b.prev), Process)

\* Echo the block, store it, and process the certificate that waited for it.
StoreBlock(r, s, b) ==
  LET Store(t) == [t EXCEPT !.bc = AddVertex(@, b, HeightOf(b.prev))]
      Process(t) == IF b \notin t.bufferedQCs THEN t
                    ELSE [processCertificate(t, b) EXCEPT !.bufferedQCs = @ \ {b}]
  IN  Then(Then(Echo(r, s, b, BlockMsg(b)), Store), Process)

\* ProcessBlock without buffers: the state, and the block it has voted for.
HandleBlock(r, s, b) ==
  LET Decide(t) == IF votingRule(t, b)
                   THEN [state |-> Vote(r, t, b), voted |-> {b}]
                   ELSE [state |-> t, voted |-> {}]
      Accept(t) == IF b.height < t.curView \/ b.proposer # Leader(b.height)
                   THEN [state |-> t, voted |-> {}]
                   ELSE Then(StoreBlock(r, t, b), Decide)
  IN  Then(AcceptQC(r, s, b), Accept)

\* ProcessBlock: a block from the future is buffered.  After a vote the block
\* buffered for the next view is processed, and so on; it leaves the buffer
\* even if it still is from the future.
ProcessBlock(r, s, b) ==
  LET Ahead(x, c) == c.height > x.curView + 1
      Buffered(x) == {c \in x.state.bufferedBlocks :
                        \E v \in x.voted : c.height = v.height + 1}
      Follow(x) ==
        LET c == CHOOSE c \in Buffered(x) : TRUE
            y == [x.state EXCEPT !.bufferedBlocks = @ \ {c}]
        IN  IF Buffered(x) = {} \/ x.state.halted THEN x
            ELSE IF Ahead(y, c) THEN [state |-> y, voted |-> {}]
            ELSE HandleBlock(r, y, c)
      last == Cardinality(s.bufferedBlocks)
      after[n \in Nat] ==
        IF n = 0 THEN HandleBlock(r, s, b) ELSE Then(after[n - 1], Follow)
  IN  IF Ahead(s, b)
      THEN [s EXCEPT !.bufferedBlocks =
                       {c \in @ : c.height # b.height} \cup {b}]
      ELSE after[last].state

MakeProposal(r, s, view) == [height |-> view, proposer |-> r, prev |-> s.highQC]

-----------------------------------------------------------------------------
(* Timeouts. *)

\* processTC
processTC(s, tc) == IF tc < s.curView THEN s ELSE AdvanceView(s, tc)

\* The timeout of q for view, with its highest certificate
ProcessRemoteTmo(s, view, highQC, q) ==
  LET Add(t) == AcceptTmo(t, view, q)
      Advance(x) == IF x.isBuilt THEN processTC(x.state, x.tc) ELSE x.state
  IN  Then(Then(processCertificate(s, highQC), Add), Advance)

\* The timer enters the next view at once, and the timeout sent is for it.
ProcessLocalTmo(r, s) ==
  LET view == s.curView + 1
      Announce(t) == Broadcast(r, t, TmoMsg(view, t.highQC))
      Process(t) == ProcessRemoteTmo(t, view, t.highQC, r)
  IN  Then(Then(AdvanceView(s, s.curView), Announce), Process)
=============================================================================
