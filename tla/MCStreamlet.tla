---------------------------- MODULE MCStreamlet -----------------------------
(***************************************************************************)
(* One replica that runs Streamlet and leads none of the views, and what   *)
(* may reach it from the others: one block of a view, also one on a block  *)
(* of a later view, from a leader that was late (ProposalTree of           *)
(* ReplicaView); blocks, votes and timeouts arrive in any order and any    *)
(* number of times, as if the peers voted for any block.  Their votes      *)
(* suffice to certify a block without the vote of this replica, so that    *)
(* all buffers come into use, for which whole networks are too large.      *)
(***************************************************************************)
EXTENDS Streamlet

CONSTANTS Self,      \* the replica
          Trees,     \* the sets of blocks that the peers may propose in a run
          MaxSkips,  \* bound: the number of blocks that skip views
          MaxLate,   \* bound: the number of blocks that are late, and their delay
          Ahead,     \* bound: how far ahead of its view messages reach it
          TmoViews   \* bound: the views for which timeouts are sent

ASSUME SelfAssumption ==
  /\ Self \in Replica
  /\ \A view \in 1..MaxHeight : Leader(view) # Self
  /\ MaxSkips \in Nat /\ MaxLate \in Nat /\ Ahead \in Nat
  /\ TmoViews \subseteq Nat
  /\ \A B \in Trees : StreamletTree(B)

VARIABLES s,      \* the state of the replica
          blocks  \* the blocks the peers have proposed or will propose

vars == <<s, blocks>>

Init == s = NewStreamlet /\ blocks \in Trees

-----------------------------------------------------------------------------
\* What the replica sends is not followed any further; a new view means
\* nothing to a replica that does not lead it.
Becomes(t) == s' = [t EXCEPT !.out = s.out, !.newViewChan = s.newViewChan]

\* All peers but one; who of them is who makes no difference.
Most == 1..N - 2

\* HandleVote has dropped the votes for earlier views.
Arriving == {b \in blocks : b.height \in s.curView..s.curView + Ahead}

BlockArrives ==
  \E b \in Arriving : Becomes(HandleBlock(Self, s, b))

\* What comes from q: its vote for a block, or its timeout of a view
Receive(t, q, m) ==
  IF m.type = "vote" THEN HandleVote(Self, t, m.block, q)
                     ELSE ProcessRemoteTmo(t, m.view, q)

\* The peers of Q have sent m, and it arrives from one after the other.
AllArrive(Q, m) ==
  LET after[q \in Nat] ==
        LET Add(t) == IF q \in Q THEN Receive(t, q, m) ELSE t
        IN  IF q = 0 THEN s ELSE Then(after[q - 1], Add)
  IN  Becomes(after[N])

\* Votes of most peers, or of the last one
VotesArrive ==
  \E b \in Arriving, Q \in {Most, {N - 1}} : AllArrive(Q, [type |-> "vote", block |-> b])

TmosArrive ==
  \E view \in TmoViews : AllArrive(Most, [type |-> "tmo", view |-> view])

LocalTmo == s.curView \in TmoViews /\ Becomes(ProcessLocalTmo(Self, s))

AdvanceLater ==
  \E view \in s.advancing :
    Becomes(AdvanceView([s EXCEPT !.advancing = @ \ {view}], view))

Next ==
  /\ ~s.halted
  /\ BlockArrives \/ VotesArrive \/ TmosArrive \/ LocalTmo \/ AdvanceLater
  /\ UNCHANGED blocks

Spec == Init /\ [][Next]_vars

-----------------------------------------------------------------------------
\* The notarized chain is a tree whose views ascend: what is at its end, where
\* proposals and votes go, is the highest block notarized so far, and the
\* ancestors of every block in it were notarized before.
NotarizedTree ==
  LET chain == s.notarizedChain
  IN  \A i \in DOMAIN chain : i > 1 =>
        /\ chain[i].height > chain[i - 1].height
        /\ \E j \in 1..i - 1 : chain[i].prev = chain[j]

\* The replica panics only as long as fewer than three blocks are notarized,
\* when it looks in the notarized chain for a block that is not there; later
\* on nothing panics, and PruneUpToLevel always returns.
PanicsOnlyEarly == s.halted => Len(s.notarizedChain) < 3

\* The replica never commits two blocks of a view, nor a block twice:
\* CommitBlock stops at the level committed before, although the next block to
\* commit may be on another branch.
CommittedOnce ==
  Len(s.committed) = Cardinality({b.height : b \in Range(s.committed)})

-----------------------------------------------------------------------------
Skips(b) == HeightOf(b.prev) + 1 < b.height
IsLate(b) == HeightOf(b.prev) > b.height

\* For TLC: one block of each view, made one after the other in any order of
\* the views, few of which skip views or are late, and none by much
MCTrees ==
  LET BlockOf(v, p) == [height |-> v, proposer |-> Leader(v), prev |-> p]
      Views(B) == {b.height : b \in B}
      made[n \in 0..MaxHeight] ==
        IF n = 0 THEN {{}}
        ELSE UNION {{B \cup {BlockOf(v, p)} : v \in (1..MaxHeight) \ Views(B),
                                              p \in B \cup {Genesis}} : B \in made[n - 1]}
  IN  {B \in made[MaxHeight] :
         /\ \A b \in B : b.height = 1 => b.prev = Genesis
         /\ Cardinality({b \in B : Skips(b)}) <= MaxSkips
         /\ Cardinality({b \in B : IsLate(b)}) <= MaxLate
         /\ \A b \in B : HeightOf(b.prev) <= b.height + MaxLate}

MCBlock == UNION MCTrees
=============================================================================
