----------------------------- MODULE Streamlet ------------------------------
(***************************************************************************)
(* protocol/streamlet.go: the handlers of the Streamlet protocol on the    *)
(* state of one replica.                                                   *)
(*                                                                         *)
(* The handlers call one another and go on afterwards.  Here each of them  *)
(* does what it does up to its first call, and returns the calls that are  *)
(* left: x = [state, calls], where calls are those still to be made, first *)
(* one first.  Run makes them.                                             *)
(*                                                                         *)
(* Every entry of notarizedChain of the code holds exactly one block, so   *)
(* it is written as that block.  The maps bufferedBlocks (of blocks) and   *)
(* bufferedNotarizedBlock (of certificates) have one value for a parent.   *)
(***************************************************************************)
EXTENDS ViewProtocol

\* The values of the state of a replica.
State ==
  [curView        : Nat,
   newViewChan    : Seq(Nat),
   timeouts       : SUBSET (Nat \X Replica),
   advancing      : SUBSET Nat,                 \* go pm.AdvanceView, not yet run
   notarizedChain : Seq(Block),
   votes          : SUBSET (Block \X Replica),  \* Quorum.votes
   bufferedBlocks : SUBSET Block,
   bufferedQCs    : SUBSET Block,
   bufferedNotarizedBlock : SUBSET Block,
   echoedBlock    : SUBSET Block,
   bc             : Forest,
   committed      : Seq(Block),                 \* sent to committedBlocks
   halted         : BOOLEAN,                    \* the process has panicked
   out            : [Replica -> Seq(Message)],  \* sent, on the way to each peer
   proposed       : SUBSET Block,               \* history: own proposals
   voted          : Seq(Block)]                 \* history: blocks voted for

NewStreamlet ==
  AdvanceView(
    [curView        |-> NewPacemaker.curView,
     newViewChan    |-> NewPacemaker.newViewChan,
     timeouts       |-> NewPacemaker.timeouts,
     advancing      |-> {},
     notarizedChain |-> <<>>,
     votes          |-> {},
     bufferedBlocks |-> {},
     bufferedQCs    |-> {},
     bufferedNotarizedBlock |-> {},
     echoedBlock    |-> {},
     bc             |-> NewLevelledForest,
     committed      |-> <<>>,
     halted         |-> FALSE,
     out            |-> [q \in Replica |-> <<>>],
     proposed       |-> {},
     voted          |-> <<>>], 0)

\* The certificates a replica knows of
Certificates(s) == Range(s.notarizedChain) \cup s.bufferedQCs \cup s.bufferedNotarizedBlock

-----------------------------------------------------------------------------
Call(to, b) == [to |-> to, block |-> b]

Do(s, calls) == [state |-> s, calls |-> calls]
Return(s) == Do(s, <<>>)
Panics(s) == Return([s EXCEPT !.halted = TRUE])

\* A map from the identifier of a parent holds c instead of what it held.
Put(map, c) == {d \in map : d.prev # c.prev} \cup {c}
Under(map, id) == {c \in map : c.prev = id}

-----------------------------------------------------------------------------
(* Blocks and votes. *)

votingRule(s, b) == b.height <= 2 \/ b.prev = Last(s.notarizedChain)

\* After AddBlock; without a notarized chain the rule reads index -1.
Decide(s, b) ==
  IF b.height > 2 /\ s.notarizedChain = <<>> THEN Panics(s)
  ELSE IF ~votingRule(s, b)
  THEN Return([s EXCEPT !.bufferedBlocks = Put(@, b)])
  ELSE Do(Remember(s, b), <<Call("vote", b), Call("broadcast", b),
                            Call("bufferedQC", b), Call("bufferedBlock", b)>>)

\* Mutant: blocks of view 2 are stored without their parent too.
MutantProcessBlock(r, s, b) ==
  LET Store(t) == [t EXCEPT !.bc = AddVertex(@, b, 0)]
      Add(t) == Decide(t, b)
  IN  IF HasVertex(s.bc, b) \/ b.height < s.curView THEN Return(s)
      ELSE IF ~HasVertex(s.bc, b.prev) /\ b.height > 2
      THEN Return([s EXCEPT !.bufferedBlocks = Put(@, b)])
      ELSE IF b.proposer # Leader(b.height) THEN Return(s)
      ELSE Then(Then(Echo(r, s, b, BlockMsg(b)), Store), Add)

\* Every block claims level 0 for its parent.
ProcessBlock(r, s, b) ==
  LET Store(t) == [t EXCEPT !.bc = AddVertex(@, b, 0)]
      Add(t) == Decide(t, b)
  IN  IF HasVertex(s.bc, b) \/ b.height < s.curView THEN Return(s)
      ELSE IF ~HasVertex(s.bc, b.prev) /\ b.height > 1
      THEN Return([s EXCEPT !.bufferedBlocks = Put(@, b)])
      ELSE IF b.proposer # Leader(b.height) THEN Return(s)
      ELSE Then(Then(Echo(r, s, b, BlockMsg(b)), Store), Add)

\* The vote of q for b, which is sent on if b has not been heard of.
ProcessVote(r, s, b, q) ==
  LET Add(t) == AddVote(t, b, q)
      Certify(x) == Do(x.state, IF x.isBuilt THEN <<Call("certificate", b)>> ELSE <<>>)
  IN  Then(Then(Echo(r, s, b, VoteMsg(b, q)), Add), Certify)

-----------------------------------------------------------------------------
(* Certificates. *)

\* Mutants: the parent is not looked for; a longer chain is needed to look.
MutantUpdateNotarizedChain(s, qc) ==
  [state |-> [s EXCEPT !.notarizedChain = Append(@, qc)], ok |-> TRUE]
MutantLookBack(s, qc) ==
  IF s.notarizedChain = <<>> \/ qc.prev \in Range(s.notarizedChain)
  THEN [state |-> [s EXCEPT !.notarizedChain = Append(@, qc)], ok |-> TRUE]
  ELSE IF Len(s.notarizedChain) < 4
  THEN [state |-> [s EXCEPT !.halted = TRUE], ok |-> FALSE]
  ELSE [state |-> [s EXCEPT !.bufferedNotarizedBlock = Put(@, qc)], ok |-> FALSE]

\* The certified block goes to the end of the chain if its parent is anywhere
\* in it.  Looking for it in a chain shorter than three reads index -1.
updateNotarizedChain(s, qc) ==
  IF s.notarizedChain = <<>> \/ qc.prev \in Range(s.notarizedChain)
  THEN [state |-> [s EXCEPT !.notarizedChain = Append(@, qc)], ok |-> TRUE]
  ELSE IF Len(s.notarizedChain) < 3
  THEN [state |-> [s EXCEPT !.halted = TRUE], ok |-> FALSE]
  ELSE [state |-> [s EXCEPT !.bufferedNotarizedBlock = Put(@, qc)], ok |-> FALSE]

\* The views of the last three entries are consecutive; whether the blocks
\* are a chain is not looked at.
commitRule(chain) ==
  LET n == Len(chain)
  IN  /\ n >= 3
      /\ chain[n - 2].height + 1 = chain[n - 1].height
      /\ chain[n - 1].height + 1 = chain[n].height

\* The second of the three is committed, and what waited for qc goes on.
Commit(s, qc) ==
  LET b == s.notarizedChain[Len(s.notarizedChain) - 1]
      Forget(t) == [t EXCEPT !.echoedBlock = @ \ (Range(t.committed) \ Range(s.committed))]
      Rest(t) == Do(t, <<Call("waitingBlock", qc), Call("waitingQC", qc)>>)
  IN  IF ~CanCommit(s, b) THEN Return(s)
      ELSE Then(Then(CommitBlock(s, b), Forget), Rest)

processCertificate(s, qc) ==
  LET Advance(x) == IF x.ok THEN [x EXCEPT !.state = AdvanceView(@, qc.height)] ELSE x
      Finish(x) == IF x.ok /\ qc.height >= 3 /\ commitRule(x.state.notarizedChain)
                   THEN Commit(x.state, qc) ELSE Return(x.state)
  IN  IF qc.height < s.curView THEN Return(s)
      ELSE IF HasVertex(s.bc, qc)
      THEN Then(Then(updateNotarizedChain(s, qc), Advance), Finish)
      ELSE IF qc.height > 1 THEN Return([s EXCEPT !.bufferedQCs = @ \cup {qc}])
      ELSE Return(s)  \* a certificate of view 1 is lost

-----------------------------------------------------------------------------
(* The calls. *)

\* One call: what it does up to its own first call, and the calls it makes.
\* Entries found in bufferedQCs and bufferedBlocks by ProcessBlock stay there.
Make(r, s, to, b) ==
  LET children == Under(s.bufferedBlocks, b)
      waiting == Under(s.bufferedNotarizedBlock, b)
      CallAll(name, B, then) == Do(s, SetToSeq({Call(name, c) : c \in B}) \o then)
  IN  CASE to = "block"         -> ProcessBlock(r, s, b)
        [] to = "vote"          -> ProcessVote(r, s, b, r)
        [] to = "broadcast"     -> Return(Broadcast(r, s, VoteMsg(b, r)))
        [] to = "certificate"   -> processCertificate(s, b)
        [] to = "bufferedQC"    -> IF b \in s.bufferedQCs
                                   THEN processCertificate(s, b) ELSE Return(s)
        [] to = "bufferedBlock" -> CallAll("block", children, <<>>)
        [] to = "waitingBlock"  -> CallAll("block", children, <<Call("deleteBlock", b)>>)
        [] to = "deleteBlock"   -> Return([s EXCEPT !.bufferedBlocks = @ \ Under(@, b)])
        [] to = "waitingQC"     -> CallAll("certificate", waiting,
                                     SetToSeq({Call("deleteQC", c) : c \in waiting}))
        [] to = "deleteQC"      -> Return([s EXCEPT !.bufferedQCs = @ \ {b}])

\* All calls are made.  A block is processed to its end at most once, and a
\* certificate too, each with fewer than six calls.
Run(r, x) ==
  LET Step(y) == IF y.calls = <<>> \/ y.state.halted THEN y
                 ELSE LET c == Head(y.calls)
                          Push(z) == Do(z.state, z.calls \o Tail(y.calls))
                      IN  Then(Make(r, y.state, c.to, c.block), Push)
      after[n \in Nat] == IF n = 0 THEN x ELSE Then(after[n - 1], Step)
  IN  after[12 * (1 + Cardinality(x.state.bufferedBlocks))].state

\* The handlers as the event loop calls them
HandleBlock(r, s, b) == Run(r, ProcessBlock(r, s, b))
HandleVote(r, s, b, q) == Run(r, ProcessVote(r, s, b, q))

\* forkChoice
forkChoice(s) == IF s.notarizedChain = <<>> THEN Genesis ELSE Last(s.notarizedChain)

MakeProposal(r, s, view) == [height |-> view, proposer |-> r, prev |-> forkChoice(s)]

\* The blocks that leaders make.  None of them has notarized anything without a
\* block of view 1, so that there is nothing for that block to extend.
StreamletTree(B) == IsTree(B) /\ \A b \in B : b.height = 1 => b.prev = Genesis

-----------------------------------------------------------------------------
(* Timeouts. *)

\* The view is advanced by another goroutine, some time later.
processTC(s, tc) == IF tc < s.curView THEN s ELSE [s EXCEPT !.advancing = @ \cup {tc}]

\* The timeout of q for view
ProcessRemoteTmo(s, view, q) ==
  LET Advance(x) == IF x.isBuilt THEN processTC(x.state, x.tc) ELSE x.state
  IN  Then(AcceptTmo(s, view, q), Advance)

\* The timeout is for the current view, which the replica does not leave.
ProcessLocalTmo(r, s) ==
  ProcessRemoteTmo(Broadcast(r, s, TmoMsg(s.curView, Genesis)), s.curView, r)
=============================================================================
