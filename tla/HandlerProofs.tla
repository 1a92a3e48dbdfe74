--------------------------- MODULE HandlerProofs ----------------------------
(***************************************************************************)
(* What each handler of one replica keeps true, for both algorithms and    *)
(* every number of replicas and blocks.                                    *)
(*                                                                         *)
(* HandlerInv is what every handler of replica r keeps true of the state s *)
(* of r, given what r may know of the others, a record w:                  *)
(*   nshares, fshares  pairs <<b, v>>: v has sent such a share for b       *)
(*   fast              blocks for which some replica has sent a fast share *)
(*   base              for each height, the fast shares of others handled  *)
(*   height            the height ListenLocalEvent works on                *)
(***************************************************************************)
EXTENDS Replica, TLAPS, FiniteSetTheorems

\* An N-quorum of a bag, as the algorithm counts it
NQuorum(s, b) ==
  IF Algorithm = "icc" THEN superMajority(s.nShares, b) ELSE IsNotarizedBanyan(s, b)

IsFast(m, h) == m.type = "nshare" /\ m.fast /\ m.block.height = h

\* 1 if the log holds a fast share of height h
OwnFast(log, h) == IF \E b \in FastCast(log) : b.height = h THEN 1 ELSE 0

\* sentNSharesNo and sentNShareId tell what has been voted for.
VoteInv(s) ==
  /\ \A b \in Cast(s.sent) : s.sentNSharesNo[b.height] >= 1
  /\ \A h \in Height : s.sentNSharesNo[h] = 1 =>
       /\ s.sentNShareId[h] \in Cast(s.sent)
       /\ \A b \in Cast(s.sent) : b.height = h => b = s.sentNShareId[h]

\* Every finalization share follows the notarization share for its block.
FSharesFollow(log) ==
  \A i \in DOMAIN log : log[i].type = "fshare" =>
    \E j \in 1 .. i - 1 : log[j].type = "nshare" /\ log[j].block = log[i].block

\* A finalization share is for the only vote of its height, and the head has
\* reached that height, so that it stays the only one.
FShareInv(s) ==
  /\ \A b \in FCast(s.sent) :
       /\ b \in Cast(s.sent)
       /\ b.height <= s.headHeight
       /\ \A c \in Cast(s.sent) : c.height = b.height => c = b
  /\ FSharesFollow(s.sent)

\* A fast share is for the only vote of its height: sentNRank has come down
\* to zero and no smaller rank follows.
FastShareInv(s) ==
  /\ Algorithm = "icc" => FastCast(s.sent) = {}
  /\ \A b \in FastCast(s.sent) :
       /\ b.rank = 0
       /\ s.sentNRank[b.height] = 0
       /\ \A c \in Cast(s.sent) : c.height = b.height => c = b
  /\ \A h \in Height : \A i, j \in DOMAIN s.sent :
       IsFast(s.sent[i], h) /\ IsFast(s.sent[j], h) => i = j

\* Votes are for blocks that were sent on, and those have a valid leader.
BlockInv(s) ==
  /\ s.echoedBlock \subseteq BlocksIn(s.sent)
  /\ Cast(s.sent) \subseteq BlocksIn(s.sent)
  /\ \A b \in BlocksIn(s.sent) : IsLeader(b.proposer, b.height, b.rank)

\* What the bags hold was sent ...
BagInv(r, s, w) ==
  /\ \A b \in Block, v \in Replica : <<b, v>> \in s.nShares =>
       <<b, v>> \in w.nshares \/ (v = r /\ b \in Cast(s.sent))
  /\ \A b \in Block, v \in Replica : <<b, v>> \in s.fShares =>
       <<b, v>> \in w.fshares \/ (v = r /\ b \in FCast(s.sent))
  /\ \A h \in Height : s.fastVotes[h] <= w.base[h] + OwnFast(s.sent, h)

\* ... and carries what was notarized and finalized.
QuorumInv(s, w) ==
  /\ \A b \in s.isNotarized : b.height <= s.headHeight /\ NQuorum(s, b)
  /\ \A b \in s.isFinalized :
       \/ superMajority(s.fShares, b)
       \/ /\ Algorithm # "icc"
          /\ s.fastVotes[b.height] >= N - P
          /\ b \in w.fast \cup FastCast(s.sent)

\* The heights waiting for ListenLocalEvent are new to it and increase.
ChanInv(s, w) ==
  /\ w.height <= s.curHeight
  /\ \A i \in DOMAIN s.newHeightChan :
       w.height < s.newHeightChan[i] /\ s.newHeightChan[i] <= s.curHeight
  /\ \A i, j \in DOMAIN s.newHeightChan :
       i < j => s.newHeightChan[i] < s.newHeightChan[j]

HandlerInv(r, s, w) ==
  /\ s \in State({s.ledger})
  /\ w.base \in [Height -> Nat] /\ w.height \in Nat
  /\ VoteInv(s) /\ FShareInv(s) /\ FastShareInv(s) /\ BlockInv(s)
  /\ BagInv(r, s, w) /\ QuorumInv(s, w) /\ ChanInv(s, w)

\* t has sent what s has and perhaps more, but no new block other than b.
Grows(s, t, b) ==
  /\ Len(s.sent) <= Len(t.sent)
  /\ \A i \in 1..Len(s.sent) : t.sent[i] = s.sent[i]
  /\ BlocksIn(t.sent) \subseteq BlocksIn(s.sent) \cup {b}

-----------------------------------------------------------------------------
(* Logs and bags. *)

\* What a log `new' holds that is `log' and m after it.
Sent(log, new, m) ==
  /\ new \in Seq(Message) /\ Len(new) = Len(log) + 1
  /\ \A i \in 1..Len(log) : new[i] = log[i]
  /\ new[Len(log) + 1] = m
  /\ BlocksIn(new) = BlocksIn(log) \cup (IF m.type = "block" THEN {m.block} ELSE {})
  /\ Cast(new) = Cast(log) \cup (IF m.type = "nshare" THEN {m.block} ELSE {})
  /\ FastCast(new) =
       FastCast(log) \cup (IF m.type = "nshare" /\ m.fast THEN {m.block} ELSE {})
  /\ FCast(new) = FCast(log) \cup (IF m.type = "fshare" THEN {m.block} ELSE {})

\* Broadcast adds one message to the log, a block or a share.
LEMMA AppendMessage ==
  ASSUME NEW log \in Seq(Message), NEW m \in Message
  PROVE  Sent(log, Append(log, m), m)
<1> DEFINE new == Append(log, m)
<1>1. /\ new \in Seq(Message) /\ Len(new) = Len(log) + 1
      /\ DOMAIN log = 1..Len(log) /\ DOMAIN new = 1..Len(log) + 1
      /\ \A i \in 1..Len(log) : new[i] = log[i]
      /\ new[Len(log) + 1] = m
  OBVIOUS
<1> HIDE DEF new
<1>2. m.type \in {"block", "nshare", "fshare"} /\ m.fast \in BOOLEAN
  BY DEF Message
<1>3. BlocksIn(new) = BlocksIn(log) \cup (IF m.type = "block" THEN {m.block} ELSE {})
  BY <1>1, <1>2 DEF BlocksIn
<1>4. Cast(new) = Cast(log) \cup (IF m.type = "nshare" THEN {m.block} ELSE {})
  BY <1>1, <1>2 DEF Cast
<1>5. FastCast(new) =
        FastCast(log) \cup (IF m.type = "nshare" /\ m.fast THEN {m.block} ELSE {})
  BY <1>1, <1>2 DEF FastCast
<1>6. FCast(new) = FCast(log) \cup (IF m.type = "fshare" THEN {m.block} ELSE {})
  BY <1>1, <1>2 DEF FCast
<1> QED
  BY <1>1, <1>3, <1>4, <1>5, <1>6 DEF Sent, new

\* A finalization share may be added after the notarization share.
LEMMA FollowStep ==
  ASSUME NEW log \in Seq(Message), NEW new, NEW m, Sent(log, new, m), FSharesFollow(log),
         m.type = "fshare" => m.block \in Cast(log)
  PROVE  FSharesFollow(new)
<1>1. /\ Len(log) \in Nat /\ DOMAIN log = 1..Len(log) /\ DOMAIN new = 1..Len(log) + 1
      /\ \A i \in 1..Len(log) : new[i] = log[i]
      /\ new[Len(log) + 1] = m
  BY DEF Sent
<1> SUFFICES ASSUME NEW i \in DOMAIN new, new[i].type = "fshare"
             PROVE  \E j \in 1 .. i - 1 : new[j].type = "nshare" /\ new[j].block = new[i].block
  BY DEF FSharesFollow
<1>2. CASE i \in 1..Len(log)
  <2>1. PICK j \in 1 .. i - 1 : log[j].type = "nshare" /\ log[j].block = log[i].block
    BY <1>1, <1>2 DEF FSharesFollow
  <2>2. j \in 1..Len(log)
    BY <1>1, <1>2
  <2> QED BY <1>1, <1>2, <2>1, <2>2
<1>3. CASE i = Len(log) + 1
  <2>1. PICK j \in DOMAIN log : log[j].type = "nshare" /\ log[j].block = m.block
    BY <1>1, <1>3 DEF Cast
  <2>2. j \in 1 .. i - 1 /\ new[j] = log[j]
    BY <1>1, <1>3
  <2> QED BY <1>1, <1>3, <2>1, <2>2
<1> QED BY <1>1, <1>2, <1>3

\* The fields of the three kinds of messages.
LEMMA MessageFields ==
  ASSUME NEW b \in Block, NEW fast \in BOOLEAN
  PROVE  /\ BlockMsg(b) \in Message /\ BlockMsg(b).type = "block"
         /\ BlockMsg(b).block = b
         /\ NShareMsg(b, fast) \in Message /\ NShareMsg(b, fast).type = "nshare"
         /\ NShareMsg(b, fast).block = b /\ NShareMsg(b, fast).fast = fast
         /\ FShareMsg(b) \in Message /\ FShareMsg(b).type = "fshare"
         /\ FShareMsg(b).block = b
BY DEF BlockMsg, NShareMsg, FShareMsg, Message

\* The sets read off a log hold blocks, and fast shares are shares.
LEMMA LogTypes ==
  ASSUME NEW log \in Seq(Message)
  PROVE  /\ BlocksIn(log) \subseteq Block
         /\ Cast(log) \subseteq Block
         /\ FastCast(log) \subseteq Cast(log)
         /\ FCast(log) \subseteq Block
<1>1. \A i \in DOMAIN log : log[i] \in Message
  OBVIOUS
<1>2. \A i \in DOMAIN log : log[i].block \in Block
  BY <1>1 DEF Message
<1> QED
  BY <1>2 DEF BlocksIn, Cast, FastCast, FCast

\* A longer log holds at least as much.
LEMMA LogGrows ==
  ASSUME NEW log \in Seq(Message), NEW new \in Seq(Message),
         Len(log) <= Len(new), \A i \in 1..Len(log) : new[i] = log[i]
  PROVE  /\ BlocksIn(log) \subseteq BlocksIn(new)
         /\ Cast(log) \subseteq Cast(new)
         /\ FastCast(log) \subseteq FastCast(new)
         /\ FCast(log) \subseteq FCast(new)
<1>1. /\ DOMAIN log = 1..Len(log) /\ DOMAIN new = 1..Len(new)
      /\ Len(log) \in Nat /\ Len(new) \in Nat
  OBVIOUS
<1>2. \A i \in DOMAIN log : i \in DOMAIN new /\ new[i] = log[i]
  BY <1>1
<1> HIDE <1>1
<1>3. BlocksIn(log) \subseteq BlocksIn(new)
  BY <1>2 DEF BlocksIn
<1>4. Cast(log) \subseteq Cast(new)
  BY <1>2 DEF Cast
<1>5. FastCast(log) \subseteq FastCast(new)
  BY <1>2 DEF FastCast
<1>6. FCast(log) \subseteq FCast(new)
  BY <1>2 DEF FCast
<1> QED BY <1>3, <1>4, <1>5, <1>6

\* Growth of the log is transitive.
LEMMA GrowsTrans ==
  ASSUME NEW s, NEW t, NEW u, NEW b,
         s.sent \in Seq(Message), t.sent \in Seq(Message), u.sent \in Seq(Message),
         Grows(s, t, b), Grows(t, u, b)
  PROVE  Grows(s, u, b)
<1>1. Len(s.sent) \in Nat /\ Len(t.sent) \in Nat /\ Len(u.sent) \in Nat
  OBVIOUS
<1>2. Len(s.sent) <= Len(u.sent) /\ \A i \in 1..Len(s.sent) : u.sent[i] = s.sent[i]
  BY <1>1 DEF Grows
<1>3. BlocksIn(u.sent) \subseteq BlocksIn(s.sent) \cup {b}
  BY DEF Grows
<1> QED BY <1>2, <1>3 DEF Grows

\* Bags only grow, and with them their quorums.
LEMMA VotesGrow ==
  ASSUME NEW bag, NEW more, bag \subseteq more, NEW b
  PROVE  /\ Cardinality(Votes(bag, b)) \in Nat
         /\ Cardinality(Votes(more, b)) \in Nat
         /\ Cardinality(Votes(bag, b)) <= Cardinality(Votes(more, b))
<1>1. IsFiniteSet(Replica)
  BY FS_Interval, ReplicaAssumption DEF Replica
<1>2. Votes(more, b) \in SUBSET Replica /\ Votes(bag, b) \in SUBSET Votes(more, b)
  BY DEF Votes
<1>3. IsFiniteSet(Votes(more, b))
  BY <1>1, <1>2, FS_Subset
<1>4. IsFiniteSet(Votes(bag, b)) /\ Cardinality(Votes(bag, b)) <= Cardinality(Votes(more, b))
  BY <1>2, <1>3, FS_Subset
<1> QED
  BY <1>3, <1>4, FS_CardinalityType


-----------------------------------------------------------------------------
(* The assignments of the handlers, one by one. *)

\* Types that the steps below rely on.
LEMMA StateTypes ==
  ASSUME NEW s, s \in State({s.ledger})
  PROVE  /\ s.sent \in Seq(Message)
         /\ s.nShares \in SUBSET (Block \X Replica)
         /\ s.fShares \in SUBSET (Block \X Replica)
         /\ s.fastVotes \in [Height -> Nat]
         /\ s.headHeight \in Nat
         /\ s.sentNSharesNo \in [Height -> Nat]
         /\ s.sentNRank \in [Height -> Nat]
         /\ s.sentNShareId \in [Height -> Identifier]
         /\ s.isNotarized \in SUBSET Block /\ s.isFinalized \in SUBSET Block
         /\ s.curHeight \in Nat /\ s.newHeightChan \in Seq(Nat)
         /\ \A b \in Block : b.height \in Height /\ b.height \in Nat /\ b.rank \in Nat
BY BlockAssumption, ReplicaAssumption DEF State, Level, Height

\* Shipping touches the ledger only.
LEMMA LedgerStep ==
  ASSUME NEW r \in Replica, NEW s, NEW w, HandlerInv(r, s, w), NEW l, NEW b,
         NEW t, t = [s EXCEPT !.ledger = l]
  PROVE  HandlerInv(r, t, w) /\ Grows(s, t, b)
<1>1. /\ t \in State({t.ledger})
      /\ t.nShares = s.nShares /\ t.fShares = s.fShares /\ t.fastVotes = s.fastVotes
      /\ t.headHeight = s.headHeight /\ t.sentNRank = s.sentNRank
      /\ t.sentNSharesNo = s.sentNSharesNo /\ t.sentNShareId = s.sentNShareId
      /\ t.isNotarized = s.isNotarized /\ t.isFinalized = s.isFinalized
      /\ t.echoedBlock = s.echoedBlock /\ t.curHeight = s.curHeight
      /\ t.newHeightChan = s.newHeightChan /\ t.sent = s.sent
      /\ s.sent \in Seq(Message)
  BY DEF HandlerInv, State
<1>2. VoteInv(t) /\ FShareInv(t) /\ FastShareInv(t) /\ BlockInv(t)
  BY <1>1 DEF HandlerInv, VoteInv, FShareInv, FastShareInv, BlockInv
<1>3. BagInv(r, t, w) /\ QuorumInv(t, w) /\ ChanInv(t, w)
  BY <1>1 DEF HandlerInv, BagInv, QuorumInv, ChanInv, NQuorum, IsNotarizedBanyan
<1>4. Grows(s, t, b)
  BY <1>1 DEF Grows
<1> QED
  BY <1>1, <1>2, <1>3, <1>4 DEF HandlerInv

\* Sending a block: the proposal, or the echo that notes it in echoedBlock.
LEMMA BlockStep ==
  ASSUME NEW r \in Replica, NEW s, NEW w, HandlerInv(r, s, w),
         NEW b \in Block, IsLeader(b.proposer, b.height, b.rank),
         NEW t, t \in State({t.ledger}), t.sent = Append(s.sent, BlockMsg(b)),
         t.echoedBlock \subseteq s.echoedBlock \cup {b},
         t.nShares = s.nShares, t.fShares = s.fShares, t.fastVotes = s.fastVotes,
         t.headHeight = s.headHeight, t.sentNRank = s.sentNRank,
         t.sentNSharesNo = s.sentNSharesNo, t.sentNShareId = s.sentNShareId,
         t.isNotarized = s.isNotarized, t.isFinalized = s.isFinalized,
         t.curHeight = s.curHeight, t.newHeightChan = s.newHeightChan
  PROVE  HandlerInv(r, t, w) /\ Grows(s, t, b) /\ b \in BlocksIn(t.sent)
<1>1. s \in State({s.ledger}) /\ s.sent \in Seq(Message)
  BY StateTypes DEF HandlerInv
<1>2. BlockMsg(b) \in Message /\ BlockMsg(b).type = "block" /\ BlockMsg(b).block = b
  BY TRUE \in BOOLEAN, MessageFields
<1>3. Sent(s.sent, t.sent, BlockMsg(b))
  BY <1>1, <1>2, AppendMessage
<1>4. /\ Len(t.sent) = Len(s.sent) + 1
      /\ \A i \in 1..Len(s.sent) : t.sent[i] = s.sent[i]
      /\ t.sent[Len(s.sent) + 1] = BlockMsg(b)
      /\ BlocksIn(t.sent) = BlocksIn(s.sent) \cup {b}
      /\ Cast(t.sent) = Cast(s.sent) /\ FastCast(t.sent) = FastCast(s.sent)
      /\ FCast(t.sent) = FCast(s.sent)
      /\ DOMAIN t.sent = 1..Len(s.sent) + 1 /\ DOMAIN s.sent = 1..Len(s.sent)
  BY <1>1, <1>2, <1>3 DEF Sent
<1>5. VoteInv(t) /\ FShareInv(t)
  <2>1. FSharesFollow(t.sent)
    BY <1>1, <1>2, <1>3, FollowStep DEF HandlerInv, FShareInv
  <2> QED BY <1>4, <2>1 DEF HandlerInv, VoteInv, FShareInv
<1>6. FastShareInv(t)
  BY <1>2, <1>4 DEF HandlerInv, FastShareInv, IsFast
<1>7. BlockInv(t)
  BY <1>4 DEF HandlerInv, BlockInv
<1>8. BagInv(r, t, w) /\ QuorumInv(t, w) /\ ChanInv(t, w)
  BY <1>4 DEF HandlerInv, BagInv, QuorumInv, ChanInv, NQuorum, IsNotarizedBanyan, OwnFast
<1>9. Grows(s, t, b)
  BY <1>1, <1>4 DEF Grows
<1> QED
  BY <1>4, <1>5, <1>6, <1>7, <1>8, <1>9 DEF HandlerInv

\* t is s after a vote to notarize b, as the algorithm allows it.
VotesFor(s, t, b, fast) ==
  /\ b \in BlocksIn(s.sent) /\ s.headHeight < b.height
  /\ fast \in BOOLEAN
  /\ fast => Algorithm # "icc" /\ b.rank = 0 /\ s.sentNSharesNo[b.height] = 0
  /\ t \in State({t.ledger})
  /\ t.sentNSharesNo = [s.sentNSharesNo EXCEPT ![b.height] = @ + 1]
  /\ t.sentNShareId = [s.sentNShareId EXCEPT ![b.height] = b]
  /\ \/ Algorithm = "icc"
     \/ /\ s.sentNSharesNo[b.height] = 0 \/ s.sentNRank[b.height] > b.rank
        /\ t.sentNRank = [s.sentNRank EXCEPT ![b.height] = b.rank]
  /\ t.sent = Append(s.sent, NShareMsg(b, fast))
  /\ t.nShares = s.nShares /\ t.fShares = s.fShares /\ t.fastVotes = s.fastVotes
  /\ t.headHeight = s.headHeight /\ t.isNotarized = s.isNotarized
  /\ t.isFinalized = s.isFinalized /\ t.echoedBlock = s.echoedBlock
  /\ t.curHeight = s.curHeight /\ t.newHeightChan = s.newHeightChan

\* Voting to notarize b.
LEMMA VoteStep ==
  ASSUME NEW r \in Replica, NEW s, NEW w, HandlerInv(r, s, w),
         NEW b \in Block, NEW fast, NEW t, VotesFor(s, t, b, fast)
  PROVE  /\ HandlerInv(r, t, w) /\ Grows(s, t, b)
         /\ b \in Cast(t.sent)
         /\ fast => /\ b \in FastCast(t.sent)
                    /\ t.fastVotes[b.height] + 1 <=
                         w.base[b.height] + OwnFast(t.sent, b.height)
<1> USE DEF VotesFor
<1> DEFINE h == b.height
           m == NShareMsg(b, fast)
<1>0. /\ m \in Message /\ m.type = "nshare" /\ m.block = b /\ m.fast = fast
      /\ h \in Height /\ h \in Nat /\ b.rank \in Nat
  BY MessageFields, BlockAssumption, ReplicaAssumption DEF Height
<1>1. /\ s.sent \in Seq(Message) /\ t.sent \in Seq(Message)
      /\ s.sentNSharesNo \in [Height -> Nat] /\ s.sentNRank \in [Height -> Nat]
      /\ s.sentNShareId \in [Height -> Identifier] /\ s.fastVotes \in [Height -> Nat]
      /\ s.headHeight \in Nat /\ Len(s.sent) \in Nat
      /\ w.base \in [Height -> Nat]
  <2>1. s \in State({s.ledger}) /\ w.base \in [Height -> Nat]
    BY DEF HandlerInv
  <2>2. t.sent \in Seq(Message)
    BY StateTypes
  <2>3. s.sent \in Seq(Message)
    BY <2>1, StateTypes
  <2>4. Len(s.sent) \in Nat
    BY <2>3
  <2> QED BY <2>1, <2>2, <2>3, <2>4, StateTypes
<1>2. Sent(s.sent, t.sent, m)
  BY <1>0, <1>1, AppendMessage
<1>3. /\ Len(t.sent) = Len(s.sent) + 1
      /\ \A i \in 1..Len(s.sent) : t.sent[i] = s.sent[i]
      /\ t.sent[Len(s.sent) + 1] = m
      /\ BlocksIn(t.sent) = BlocksIn(s.sent)
      /\ Cast(t.sent) = Cast(s.sent) \cup {b}
      /\ FastCast(t.sent) = FastCast(s.sent) \cup (IF fast THEN {b} ELSE {})
      /\ FCast(t.sent) = FCast(s.sent)
      /\ DOMAIN t.sent = 1..Len(s.sent) + 1 /\ DOMAIN s.sent = 1..Len(s.sent)
  BY <1>0, <1>1, <1>2 DEF Sent
<1> HIDE DEF m
<1>4. /\ Cast(s.sent) \subseteq Block /\ FastCast(s.sent) \subseteq Cast(s.sent)
      /\ FCast(s.sent) \subseteq Block
      /\ \A c \in Block : c.height \in Height /\ c.height \in Nat
  BY <1>1, LogTypes, BlockAssumption DEF Height
<1>5. s.sentNSharesNo[h] = 0 => \A c \in Cast(s.sent) : c.height # h
  BY <1>0, <1>1, <1>4 DEF HandlerInv, VoteInv
<1>6. VoteInv(t)
  <2>1. \A c \in Cast(t.sent) : t.sentNSharesNo[c.height] >= 1
    BY <1>0, <1>1, <1>3, <1>4 DEF HandlerInv, VoteInv
  <2>2. ASSUME NEW g \in Height, t.sentNSharesNo[g] = 1
        PROVE  /\ t.sentNShareId[g] \in Cast(t.sent)
               /\ \A c \in Cast(t.sent) : c.height = g => c = t.sentNShareId[g]
    <3>1. CASE g = h
      BY <3>1, <2>2, <1>0, <1>1, <1>3, <1>4, <1>5
    <3>2. CASE g # h
      BY <3>2, <2>2, <1>0, <1>1, <1>3, <1>4 DEF HandlerInv, VoteInv
    <3> QED BY <3>1, <3>2
  <2> QED BY <2>1, <2>2 DEF VoteInv
<1>7. FShareInv(t)
  <2>1. \A c \in FCast(s.sent) : c.height # h
    BY <1>0, <1>1, <1>4 DEF HandlerInv, FShareInv
  <2>2. FSharesFollow(t.sent)
    BY <1>0, <1>1, <1>2, FollowStep DEF HandlerInv, FShareInv
  <2> QED BY <1>3, <2>1, <2>2 DEF HandlerInv, FShareInv
<1>8. \A c \in FastCast(s.sent) : c.height # h
  BY <1>0, <1>1, <1>4, <1>5 DEF HandlerInv, FastShareInv
<1>9. FastShareInv(t)
  <2>1. Algorithm = "icc" => FastCast(t.sent) = {}
    BY <1>3 DEF HandlerInv, FastShareInv
  <2>2. \A c \in FastCast(t.sent) : /\ c.rank = 0
                                    /\ t.sentNRank[c.height] = 0
                                    /\ \A d \in Cast(t.sent) : d.height = c.height => d = c
    <3>1. CASE Algorithm = "icc"
      BY <3>1, <2>1
    <3>2. CASE Algorithm # "icc"
      BY <3>2, <1>0, <1>1, <1>3, <1>4, <1>5, <1>8 DEF HandlerInv, FastShareInv
    <3> QED BY <3>1, <3>2
  <2>3. ASSUME NEW g \in Height, NEW i \in DOMAIN t.sent, NEW j \in DOMAIN t.sent,
               IsFast(t.sent[i], g), IsFast(t.sent[j], g), i < j
        PROVE  FALSE
    <3>1. i \in 1..Len(s.sent) /\ IsFast(s.sent[i], g)
      BY <2>3, <1>1, <1>3
    <3>2. \E c \in FastCast(s.sent) : c.height = g
      BY <3>1, <1>3 DEF IsFast, FastCast
    <3>3. CASE j \in 1..Len(s.sent)
      BY <2>3, <3>1, <3>3, <1>3 DEF HandlerInv, FastShareInv
    <3>4. CASE j = Len(s.sent) + 1
      <4>1. g = h
        BY <2>3, <3>4, <1>0, <1>3 DEF IsFast
      <4> QED BY <4>1, <3>2, <1>8
    <3> QED BY <3>3, <3>4, <1>1, <1>3
  <2>4. \A i, j \in DOMAIN t.sent : i < j \/ j < i \/ i = j
    BY <1>1, <1>3
  <2>5. \A g \in Height : \A i, j \in DOMAIN t.sent :
          IsFast(t.sent[i], g) /\ IsFast(t.sent[j], g) => i = j
    BY <2>3, <2>4
  <2> QED BY <2>1, <2>2, <2>5 DEF FastShareInv
<1>10. BlockInv(t)
  BY <1>1, <1>3 DEF HandlerInv, BlockInv
<1>11. BagInv(r, t, w) /\ QuorumInv(t, w)
  <2>1. \A g \in Height : /\ OwnFast(s.sent, g) \in Nat /\ OwnFast(t.sent, g) \in Nat
                          /\ OwnFast(s.sent, g) <= OwnFast(t.sent, g)
    BY <1>3 DEF OwnFast
  <2>2. \A g \in Height : t.fastVotes[g] <= w.base[g] + OwnFast(t.sent, g)
    <3> TAKE g \in Height
    <3>1. s.fastVotes[g] <= w.base[g] + OwnFast(s.sent, g)
      BY DEF HandlerInv, BagInv
    <3> QED BY <1>1, <2>1, <3>1
  <2>3. BagInv(r, t, w)
    BY <1>3, <2>2 DEF HandlerInv, BagInv
  <2>4. QuorumInv(t, w)
    BY <1>3 DEF HandlerInv, QuorumInv, NQuorum, IsNotarizedBanyan
  <2> QED BY <2>3, <2>4
<1>12. ChanInv(t, w)
  BY DEF HandlerInv, ChanInv
<1>13. Grows(s, t, b)
  BY <1>1, <1>3 DEF Grows
<1>14. fast => t.fastVotes[h] + 1 <= w.base[h] + OwnFast(t.sent, h)
  <2> HAVE fast
  <2>1. OwnFast(s.sent, h) = 0
    BY <1>8 DEF OwnFast
  <2>2. OwnFast(t.sent, h) = 1
    BY <1>3 DEF OwnFast
  <2>3. s.fastVotes[h] <= w.base[h] + OwnFast(s.sent, h)
    BY <1>0 DEF HandlerInv, BagInv
  <2>4. w.base[h] \in Nat /\ s.fastVotes[h] \in Nat /\ t.fastVotes[h] = s.fastVotes[h]
    BY <1>0, <1>1
  <2>5. s.fastVotes[h] <= w.base[h]
    BY <2>1, <2>3, <2>4
  <2>6. t.fastVotes[h] + 1 <= w.base[h] + 1
    BY <2>4, <2>5
  <2> QED BY <2>2, <2>6
<1> QED
  BY <1>3, <1>6, <1>7, <1>9, <1>10, <1>11, <1>12, <1>13, <1>14 DEF HandlerInv

\* t is s with a notarization share of v counted, perhaps as a fast one.
CountsNShare(s, t, v, b, fast) ==
  /\ t \in State({t.ledger})
  /\ t.nShares = s.nShares \cup {<<b, v>>}
  /\ \/ t.fastVotes = s.fastVotes
     \/ fast /\ t.fastVotes = [s.fastVotes EXCEPT ![b.height] = @ + 1]
  /\ t.fShares = s.fShares /\ t.sent = s.sent
  /\ t.headHeight = s.headHeight /\ t.sentNRank = s.sentNRank
  /\ t.sentNSharesNo = s.sentNSharesNo /\ t.sentNShareId = s.sentNShareId
  /\ t.isNotarized = s.isNotarized /\ t.isFinalized = s.isFinalized
  /\ t.echoedBlock = s.echoedBlock /\ t.curHeight = s.curHeight
  /\ t.newHeightChan = s.newHeightChan

\* Counting a notarization share that v has sent.
LEMMA NShareStep ==
  ASSUME NEW r \in Replica, NEW s, NEW w, HandlerInv(r, s, w),
         NEW b \in Block, NEW v \in Replica, NEW fast \in BOOLEAN,
         <<b, v>> \in w.nshares \/ (v = r /\ b \in Cast(s.sent)),
         fast => s.fastVotes[b.height] + 1 <= w.base[b.height] + OwnFast(s.sent, b.height),
         NEW t, CountsNShare(s, t, v, b, fast)
  PROVE  HandlerInv(r, t, w) /\ Grows(s, t, b)
<1> USE DEF CountsNShare
<1>1. s \in State({s.ledger})
  BY DEF HandlerInv
<1>2. /\ s.sent \in Seq(Message) /\ s.fastVotes \in [Height -> Nat] /\ b.height \in Height
      /\ w.base \in [Height -> Nat]
      /\ \A c \in Block : c.height \in Height
  BY <1>1, StateTypes DEF HandlerInv
<1>3. \A g \in Height : /\ s.fastVotes[g] \in Nat
                        /\ [s.fastVotes EXCEPT ![b.height] = @ + 1][g] =
                             IF g = b.height THEN s.fastVotes[g] + 1 ELSE s.fastVotes[g]
  BY <1>2
<1>4. VoteInv(t) /\ FShareInv(t) /\ FastShareInv(t) /\ BlockInv(t) /\ ChanInv(t, w)
  BY DEF HandlerInv, VoteInv, FShareInv, FastShareInv, BlockInv, ChanInv
<1>5. \A g \in Height : /\ s.fastVotes[g] <= t.fastVotes[g]
                        /\ t.fastVotes[g] <= w.base[g] + OwnFast(s.sent, g)
  <2> TAKE g \in Height
  <2>1. s.fastVotes[g] <= w.base[g] + OwnFast(s.sent, g)
    BY DEF HandlerInv, BagInv
  <2>2. CASE t.fastVotes = s.fastVotes
    BY <1>3, <2>1, <2>2
  <2>3. CASE fast /\ t.fastVotes = [s.fastVotes EXCEPT ![b.height] = @ + 1]
    <3>1. CASE g = b.height
      BY <1>3, <2>3, <3>1
    <3>2. CASE g # b.height
      BY <1>3, <2>1, <2>3, <3>2
    <3> QED BY <3>1, <3>2
  <2> QED BY <2>2, <2>3
<1>6. BagInv(r, t, w)
  BY <1>5 DEF HandlerInv, BagInv
<1>7. QuorumInv(t, w)
  <2>1. \A c \in s.isNotarized : NQuorum(s, c) => NQuorum(t, c)
    <3> TAKE c \in s.isNotarized
    <3>1. /\ Cardinality(Votes(s.nShares, c)) \in Nat
          /\ Cardinality(Votes(t.nShares, c)) \in Nat
          /\ Cardinality(Votes(s.nShares, c)) <= Cardinality(Votes(t.nShares, c))
      BY VotesGrow
    <3> QED BY <3>1, ReplicaAssumption DEF NQuorum, superMajority, IsNotarizedBanyan
  <2>2. \A c \in s.isFinalized : /\ s.fastVotes[c.height] \in Nat
                                 /\ t.fastVotes[c.height] \in Nat
                                 /\ s.fastVotes[c.height] <= t.fastVotes[c.height]
    <3>1. s.isFinalized \in SUBSET Block /\ t.fastVotes \in [Height -> Nat]
      BY <1>1, StateTypes
    <3> QED BY <1>2, <1>5, <3>1
  <2>3. \A c \in s.isFinalized : s.fastVotes[c.height] >= N - P => t.fastVotes[c.height] >= N - P
    BY <2>2, ReplicaAssumption
  <2> QED BY <2>1, <2>3 DEF HandlerInv, QuorumInv
<1>8. Grows(s, t, b)
  BY <1>2 DEF Grows
<1> QED
  BY <1>4, <1>6, <1>7, <1>8 DEF HandlerInv

\* Counting a finalization share of v.
LEMMA FBagStep ==
  ASSUME NEW r \in Replica, NEW s, NEW w, HandlerInv(r, s, w),
         NEW b \in Block, NEW v \in Replica,
         <<b, v>> \in w.fshares \/ (v = r /\ b \in FCast(s.sent)),
         NEW t, t = [s EXCEPT !.fShares = s.fShares \cup {<<b, v>>}]
  PROVE  HandlerInv(r, t, w) /\ Grows(s, t, b) /\ t.fastVotes = s.fastVotes
<1>1. s \in State({s.ledger})
  BY DEF HandlerInv
<1>2. s.sent \in Seq(Message) /\ s.fShares \cup {<<b, v>>} \in SUBSET (Block \X Replica)
  BY <1>1, StateTypes
<1>3. /\ t \in State({t.ledger})
      /\ t.fShares = s.fShares \cup {<<b, v>>}
      /\ t.nShares = s.nShares /\ t.fastVotes = s.fastVotes /\ t.sent = s.sent
      /\ t.headHeight = s.headHeight /\ t.sentNRank = s.sentNRank
      /\ t.sentNSharesNo = s.sentNSharesNo /\ t.sentNShareId = s.sentNShareId
      /\ t.isNotarized = s.isNotarized /\ t.isFinalized = s.isFinalized
      /\ t.echoedBlock = s.echoedBlock /\ t.curHeight = s.curHeight
      /\ t.newHeightChan = s.newHeightChan
  BY <1>1, <1>2 DEF State
<1>4. VoteInv(t) /\ FShareInv(t) /\ FastShareInv(t) /\ BlockInv(t) /\ ChanInv(t, w)
  BY <1>3 DEF HandlerInv, VoteInv, FShareInv, FastShareInv, BlockInv, ChanInv
<1>5. BagInv(r, t, w)
  BY <1>3 DEF HandlerInv, BagInv
<1>6. QuorumInv(t, w)
  <2>1. \A c \in s.isFinalized : superMajority(s.fShares, c) => superMajority(t.fShares, c)
    <3> TAKE c \in s.isFinalized
    <3>1. /\ Cardinality(Votes(s.fShares, c)) \in Nat
          /\ Cardinality(Votes(t.fShares, c)) \in Nat
          /\ Cardinality(Votes(s.fShares, c)) <= Cardinality(Votes(t.fShares, c))
      BY <1>3, VotesGrow
    <3> QED BY <3>1, ReplicaAssumption DEF superMajority
  <2> QED BY <1>3, <2>1 DEF HandlerInv, QuorumInv, NQuorum, IsNotarizedBanyan
<1>7. Grows(s, t, b)
  BY <1>2, <1>3 DEF Grows
<1> QED
  BY <1>3, <1>4, <1>5, <1>6, <1>7 DEF HandlerInv

\* Finalizing a block that has a quorum of finalization or of fast shares.
LEMMA FinalStep ==
  ASSUME NEW r \in Replica, NEW s, NEW w, HandlerInv(r, s, w), NEW b \in Block,
         \/ superMajority(s.fShares, b)
         \/ /\ Algorithm # "icc"
            /\ s.fastVotes[b.height] >= N - P
            /\ b \in w.fast \cup FastCast(s.sent),
         NEW t, t = [s EXCEPT !.isFinalized = s.isFinalized \cup {b}]
  PROVE  HandlerInv(r, t, w) /\ Grows(s, t, b) /\ t.fastVotes = s.fastVotes
<1>1. s \in State({s.ledger})
  BY DEF HandlerInv
<1>2. s.sent \in Seq(Message) /\ s.isFinalized \cup {b} \in SUBSET Block
  BY <1>1, StateTypes
<1>3. /\ t \in State({t.ledger})
      /\ t.isFinalized = s.isFinalized \cup {b}
      /\ t.nShares = s.nShares /\ t.fastVotes = s.fastVotes /\ t.sent = s.sent
      /\ t.fShares = s.fShares /\ t.headHeight = s.headHeight /\ t.sentNRank = s.sentNRank
      /\ t.sentNSharesNo = s.sentNSharesNo /\ t.sentNShareId = s.sentNShareId
      /\ t.isNotarized = s.isNotarized /\ t.echoedBlock = s.echoedBlock
      /\ t.curHeight = s.curHeight /\ t.newHeightChan = s.newHeightChan
  BY <1>1, <1>2 DEF State
<1>4. VoteInv(t) /\ FShareInv(t) /\ FastShareInv(t) /\ BlockInv(t) /\ ChanInv(t, w)
  BY <1>3 DEF HandlerInv, VoteInv, FShareInv, FastShareInv, BlockInv, ChanInv
<1>5. BagInv(r, t, w)
  BY <1>3 DEF HandlerInv, BagInv
<1>6. QuorumInv(t, w)
  BY <1>3 DEF HandlerInv, QuorumInv, NQuorum, IsNotarizedBanyan
<1>7. Grows(s, t, b)
  BY <1>2, <1>3 DEF Grows
<1> QED
  BY <1>3, <1>4, <1>5, <1>6, <1>7 DEF HandlerInv

\* A queue of heights with one more height at its end
LEMMA AppendHeight ==
  ASSUME NEW ch \in Seq(Nat), NEW x \in Nat
  PROVE  LET new == Append(ch, x)
         IN  /\ DOMAIN ch = 1..Len(ch) /\ Len(ch) \in Nat
             /\ DOMAIN new = 1..Len(ch) + 1
             /\ \A i \in 1..Len(ch) : new[i] = ch[i] /\ ch[i] \in Nat
             /\ new[Len(ch) + 1] = x
OBVIOUS

\* Noting a notarized block: perhaps a new head and a new height.
LEMMA HeadStep ==
  ASSUME NEW r \in Replica, NEW s, NEW w, HandlerInv(r, s, w),
         NEW b \in Block, NQuorum(s, b),
         NEW t, t \in State({t.ledger}),
         t.isNotarized = s.isNotarized \cup {b},
         s.headHeight <= t.headHeight, b.height <= t.headHeight,
         \/ t.curHeight = s.curHeight /\ t.newHeightChan = s.newHeightChan
         \/ /\ s.curHeight < t.curHeight
            /\ t.newHeightChan = Append(s.newHeightChan, t.curHeight),
         t.nShares = s.nShares, t.fShares = s.fShares, t.fastVotes = s.fastVotes,
         t.sentNSharesNo = s.sentNSharesNo, t.sentNShareId = s.sentNShareId,
         t.sentNRank = s.sentNRank, t.sent = s.sent, t.isFinalized = s.isFinalized,
         t.echoedBlock = s.echoedBlock
  PROVE  HandlerInv(r, t, w) /\ Grows(s, t, b)
<1>1. /\ s \in State({s.ledger}) /\ w.height \in Nat
  BY DEF HandlerInv
<1>2. /\ s.sent \in Seq(Message) /\ s.headHeight \in Nat /\ s.curHeight \in Nat
      /\ s.newHeightChan \in Seq(Nat) /\ s.isNotarized \in SUBSET Block
      /\ \A c \in Block : c.height \in Nat
  BY <1>1, StateTypes
<1>3. t.headHeight \in Nat /\ t.curHeight \in Nat
  BY StateTypes
<1>4. VoteInv(t) /\ FastShareInv(t) /\ BlockInv(t)
  BY DEF HandlerInv, VoteInv, FastShareInv, BlockInv
<1>5. FShareInv(t)
  <2>1. FCast(s.sent) \subseteq Block
    BY <1>2, LogTypes
  <2> QED BY <1>2, <1>3, <2>1 DEF HandlerInv, FShareInv
<1>6. BagInv(r, t, w)
  BY DEF HandlerInv, BagInv
<1>7. QuorumInv(t, w)
  <2>1. \A c \in t.isNotarized : c.height <= t.headHeight
    BY <1>2, <1>3 DEF HandlerInv, QuorumInv
  <2>2. \A c \in t.isNotarized : NQuorum(t, c)
    BY DEF HandlerInv, QuorumInv, NQuorum, IsNotarizedBanyan
  <2> QED BY <2>1, <2>2 DEF HandlerInv, QuorumInv
<1>8. ChanInv(t, w)
  <2>1. CASE t.curHeight = s.curHeight /\ t.newHeightChan = s.newHeightChan
    BY <2>1 DEF HandlerInv, ChanInv
  <2>2. CASE /\ s.curHeight < t.curHeight
             /\ t.newHeightChan = Append(s.newHeightChan, t.curHeight)
    <3> DEFINE ch == s.newHeightChan
               new == t.newHeightChan
    <3>1. /\ DOMAIN ch = 1..Len(ch) /\ DOMAIN new = 1..Len(ch) + 1 /\ Len(ch) \in Nat
          /\ \A i \in 1..Len(ch) : new[i] = ch[i] /\ ch[i] \in Nat
          /\ new[Len(ch) + 1] = t.curHeight
      BY <1>2, <1>3, <2>2, AppendHeight
    <3>2. /\ w.height <= s.curHeight
          /\ \A i \in 1..Len(ch) : w.height < ch[i] /\ ch[i] <= s.curHeight
          /\ \A i, j \in 1..Len(ch) : i < j => ch[i] < ch[j]
      BY <3>1 DEF HandlerInv, ChanInv
    <3> HIDE DEF ch, new
    <3>3. w.height <= t.curHeight
      BY <1>1, <1>2, <1>3, <2>2, <3>2
    <3>4. ASSUME NEW i \in DOMAIN new
          PROVE  w.height < new[i] /\ new[i] <= t.curHeight
      <4>1. CASE i \in 1..Len(ch)
        <5>1. w.height < ch[i] /\ ch[i] <= s.curHeight /\ new[i] = ch[i] /\ ch[i] \in Nat
          BY <3>1, <3>2, <4>1
        <5> QED BY <1>1, <1>2, <1>3, <2>2, <5>1
      <4>2. CASE i = Len(ch) + 1
        <5>1. new[i] = t.curHeight
          BY <3>1, <4>2
        <5> QED BY <1>1, <1>2, <1>3, <2>2, <3>2, <5>1
      <4> QED BY <3>1, <4>1, <4>2
    <3>5. ASSUME NEW i \in DOMAIN new, NEW j \in DOMAIN new, i < j
          PROVE  new[i] < new[j]
      <4>1. i \in 1..Len(ch) /\ new[i] = ch[i] /\ ch[i] \in Nat
        BY <3>1, <3>5
      <4>2. CASE j \in 1..Len(ch)
        BY <3>1, <3>2, <3>5, <4>1, <4>2
      <4>3. CASE j = Len(ch) + 1
        <5>1. new[j] = t.curHeight /\ ch[i] <= s.curHeight
          BY <3>1, <3>2, <4>1, <4>3
        <5> QED BY <1>2, <1>3, <2>2, <4>1, <5>1
      <4> QED BY <3>1, <4>2, <4>3
    <3> QED BY <3>3, <3>4, <3>5 DEF ChanInv, new
  <2> QED BY <2>1, <2>2
<1>9. Grows(s, t, b)
  BY <1>2 DEF Grows
<1> QED
  BY <1>4, <1>5, <1>6, <1>7, <1>8, <1>9 DEF HandlerInv

\* Sending a finalization share for a notarized block.
LEMMA FShareStep ==
  ASSUME NEW r \in Replica, NEW s, NEW w, HandlerInv(r, s, w),
         NEW b \in Block, b \in s.isNotarized,
         s.sentNSharesNo[b.height] = 1, s.sentNShareId[b.height] = b,
         NEW t, t \in State({t.ledger}), t.sent = Append(s.sent, FShareMsg(b)),
         t.nShares = s.nShares, t.fShares = s.fShares, t.fastVotes = s.fastVotes,
         t.headHeight = s.headHeight, t.sentNRank = s.sentNRank,
         t.sentNSharesNo = s.sentNSharesNo, t.sentNShareId = s.sentNShareId,
         t.isNotarized = s.isNotarized, t.isFinalized = s.isFinalized,
         t.echoedBlock = s.echoedBlock, t.curHeight = s.curHeight,
         t.newHeightChan = s.newHeightChan
  PROVE  HandlerInv(r, t, w) /\ Grows(s, t, b) /\ b \in FCast(t.sent)
<1>1. s \in State({s.ledger})
  BY DEF HandlerInv
<1>2. s.sent \in Seq(Message) /\ b.height \in Height
  BY <1>1, StateTypes
<1>3. FShareMsg(b) \in Message /\ FShareMsg(b).type = "fshare" /\ FShareMsg(b).block = b
  BY TRUE \in BOOLEAN, MessageFields
<1>4. Sent(s.sent, t.sent, FShareMsg(b))
  BY <1>2, <1>3, AppendMessage
<1>5. /\ Len(t.sent) = Len(s.sent) + 1
      /\ \A i \in 1..Len(s.sent) : t.sent[i] = s.sent[i]
      /\ t.sent[Len(s.sent) + 1] = FShareMsg(b)
      /\ BlocksIn(t.sent) = BlocksIn(s.sent)
      /\ Cast(t.sent) = Cast(s.sent) /\ FastCast(t.sent) = FastCast(s.sent)
      /\ FCast(t.sent) = FCast(s.sent) \cup {b}
      /\ DOMAIN t.sent = 1..Len(s.sent) + 1 /\ DOMAIN s.sent = 1..Len(s.sent)
  BY <1>2, <1>3, <1>4 DEF Sent
<1>6. VoteInv(t) /\ BlockInv(t)
  BY <1>5 DEF HandlerInv, VoteInv, BlockInv
<1>7. FShareInv(t)
  <2>1. b \in Cast(s.sent) /\ \A c \in Cast(s.sent) : c.height = b.height => c = b
    BY <1>2 DEF HandlerInv, VoteInv
  <2>2. b.height <= s.headHeight
    BY DEF HandlerInv, QuorumInv
  <2>3. FSharesFollow(t.sent)
    BY <1>2, <1>3, <1>4, <2>1, FollowStep DEF HandlerInv, FShareInv
  <2> QED BY <1>5, <2>1, <2>2, <2>3 DEF HandlerInv, FShareInv
<1>8. FastShareInv(t)
  BY <1>3, <1>5 DEF HandlerInv, FastShareInv, IsFast
<1>9. BagInv(r, t, w) /\ QuorumInv(t, w) /\ ChanInv(t, w)
  BY <1>5 DEF HandlerInv, BagInv, QuorumInv, ChanInv, NQuorum,
                    IsNotarizedBanyan, OwnFast
<1>10. Grows(s, t, b)
  BY <1>2, <1>5 DEF Grows
<1> QED
  BY <1>5, <1>6, <1>7, <1>8, <1>9, <1>10 DEF HandlerInv

-----------------------------------------------------------------------------
(* The handlers.  Each lemma says that a handler keeps HandlerInv, whatever *)
(* order of shipping it chooses, and only adds to the log.                  *)

\* Finalizing a block and shipping what can be shipped.
LEMMA FinalizeKeeps ==
  ASSUME NEW r \in Replica, NEW s, NEW w, HandlerInv(r, s, w), NEW b \in Block,
         \/ superMajority(s.fShares, b)
         \/ /\ Algorithm # "icc"
            /\ s.fastVotes[b.height] >= N - P
            /\ b \in w.fast \cup FastCast(s.sent),
         NEW t \in Finalize(s, b)
  PROVE  HandlerInv(r, t, w) /\ Grows(s, t, b) /\ t.fastVotes = s.fastVotes
<1>1. s \in State({s.ledger}) /\ s.sent \in Seq(Message)
  BY StateTypes DEF HandlerInv
<1>2. CASE s.ledger.halted
  <2>1. t = s
    BY <1>2 DEF Finalize
  <2> QED BY <1>1, <2>1 DEF Grows
<1>3. CASE ~s.ledger.halted
  <2>1. PICK l : t = [s EXCEPT !.isFinalized = s.isFinalized \cup {b}, !.ledger = l]
    BY <1>3 DEF Finalize
  <2> DEFINE u == [s EXCEPT !.isFinalized = s.isFinalized \cup {b}]
  <2>2. /\ t = [u EXCEPT !.ledger = l]
        /\ t.fastVotes = s.fastVotes /\ u.sent = s.sent /\ t.sent = s.sent
    BY <1>1, <2>1 DEF State
  <2>3. HandlerInv(r, u, w)
    BY FinalStep
  <2> HIDE DEF u
  <2>4. HandlerInv(r, t, w)
    BY <2>2, <2>3, LedgerStep
  <2>5. Grows(s, t, b)
    BY <1>1, <2>2 DEF Grows
  <2> QED BY <2>2, <2>4, <2>5
<1> QED BY <1>2, <1>3

\* A finalization share of v for b.
LEMMA ProcessFinalizationShareKeeps ==
  ASSUME NEW r \in Replica, NEW s, NEW w, HandlerInv(r, s, w),
         NEW b \in Block, NEW v \in Replica,
         <<b, v>> \in w.fshares \/ (v = r /\ b \in FCast(s.sent)),
         NEW t \in ProcessFinalizationShare(s, v, b)
  PROVE  HandlerInv(r, t, w) /\ Grows(s, t, b) /\ t.fastVotes = s.fastVotes
<1> DEFINE u == [s EXCEPT !.fShares = s.fShares \cup {<<b, v>>}]
<1>1. s \in State({s.ledger}) /\ s.sent \in Seq(Message)
  BY StateTypes DEF HandlerInv
<1>2. /\ HandlerInv(r, u, w) /\ Grows(s, u, b) /\ u.fastVotes = s.fastVotes
  BY FBagStep
<1>3. u.sent \in Seq(Message)
  BY <1>2, StateTypes DEF HandlerInv
<1>4. t = s \/ t = u \/ (superMajority(u.fShares, b) /\ t \in Finalize(u, b))
  BY DEF ProcessFinalizationShare
<1> HIDE DEF u
<1>5. CASE t = s
  BY <1>1, <1>5 DEF Grows
<1>6. CASE t = u
  BY <1>2, <1>6
<1>7. CASE superMajority(u.fShares, b) /\ t \in Finalize(u, b)
  <2>1. HandlerInv(r, t, w) /\ Grows(u, t, b) /\ t.fastVotes = u.fastVotes
    BY <1>2, <1>7, FinalizeKeeps
  <2>2. t.sent \in Seq(Message)
    BY <2>1, StateTypes DEF HandlerInv
  <2> QED BY <1>1, <1>2, <1>3, <2>1, <2>2, GrowsTrans
<1> QED BY <1>4, <1>5, <1>6, <1>7

\* The finalization share that r sends for a notarized block.
LEMMA SendFShareKeeps ==
  ASSUME NEW r \in Replica, NEW s, NEW w, HandlerInv(r, s, w),
         NEW b \in Block, b \in s.isNotarized, NEW t \in SendFShare(r, s, b)
  PROVE  HandlerInv(r, t, w) /\ Grows(s, t, b) /\ t.fastVotes = s.fastVotes
<1> DEFINE u == [s EXCEPT !.sentFShare = s.sentFShare \cup {b.height},
                          !.sent = Append(s.sent, FShareMsg(b))]
<1>1. s \in State({s.ledger}) /\ s.sent \in Seq(Message)
  BY StateTypes DEF HandlerInv
<1>2. CASE t = s
  BY <1>1, <1>2 DEF Grows
<1>3. CASE t # s
  <2>1. /\ s.sentNSharesNo[b.height] = 1 /\ s.sentNShareId[b.height] = b
        /\ t \in ProcessFinalizationShare(
                   Broadcast([s EXCEPT !.sentFShare = @ \cup {b.height}], FShareMsg(b)), r, b)
    BY <1>3 DEF SendFShare
  <2>2. Broadcast([s EXCEPT !.sentFShare = @ \cup {b.height}], FShareMsg(b)) = u
    BY <1>1 DEF State, Broadcast
  <2> HIDE DEF u
  <2>3. HandlerInv(r, u, w) /\ Grows(s, u, b) /\ b \in FCast(u.sent) /\ u.fastVotes = s.fastVotes
    <3>1. /\ u \in State({u.ledger}) /\ u.sent = Append(s.sent, FShareMsg(b))
          /\ u.nShares = s.nShares /\ u.fShares = s.fShares /\ u.fastVotes = s.fastVotes
          /\ u.headHeight = s.headHeight /\ u.sentNRank = s.sentNRank
          /\ u.sentNSharesNo = s.sentNSharesNo /\ u.sentNShareId = s.sentNShareId
          /\ u.isNotarized = s.isNotarized /\ u.isFinalized = s.isFinalized
          /\ u.echoedBlock = s.echoedBlock /\ u.curHeight = s.curHeight
          /\ u.newHeightChan = s.newHeightChan
      <4>1. s.sentFShare \cup {b.height} \in SUBSET Height
        BY <1>1, StateTypes DEF State
      <4>2. Append(s.sent, FShareMsg(b)) \in Seq(Message)
        BY <1>1 DEF FShareMsg, Message
      <4> QED BY <1>1, <4>1, <4>2 DEF State, u
    <3>2. s.sentNSharesNo[b.height] = 1 /\ s.sentNShareId[b.height] = b
      BY <2>1
    <3> QED BY <3>1, <3>2, FShareStep
  <2>4. t \in ProcessFinalizationShare(u, r, b)
    BY <2>1, <2>2
  <2>5. HandlerInv(r, t, w) /\ Grows(u, t, b) /\ t.fastVotes = u.fastVotes
    <3>1. <<b, r>> \in w.fshares \/ (r = r /\ b \in FCast(u.sent))
      BY <2>3
    <3>2. HandlerInv(r, u, w)
      BY <2>3
    <3> QED BY <2>4, <3>1, <3>2, ProcessFinalizationShareKeeps, SMTT(30)
  <2>6. t.sent \in Seq(Message) /\ u.sent \in Seq(Message)
    BY <2>3, <2>5, StateTypes DEF HandlerInv
  <2> QED BY <1>1, <2>3, <2>5, <2>6, GrowsTrans
<1> QED BY <1>2, <1>3

\* Notarizing a block that has a quorum.
LEMMA NotarizeKeeps ==
  ASSUME NEW r \in Replica, NEW s, NEW w, HandlerInv(r, s, w),
         NEW b \in Block, NQuorum(s, b), NEW t \in Notarize(r, s, b)
  PROVE  HandlerInv(r, t, w) /\ Grows(s, t, b) /\ t.fastVotes = s.fastVotes
<1> DEFINE x == [s EXCEPT !.isNotarized = @ \cup {b}]
           y == [x EXCEPT !.headHeight = b.height, !.headId = b]
           u == IF x.headHeight < b.height THEN HeightIncreased(y, b.height + 1) ELSE x
<1>1. s \in State({s.ledger}) /\ s.sent \in Seq(Message)
  BY StateTypes DEF HandlerInv
<1>2. /\ s.headHeight \in Nat /\ s.curHeight \in Nat /\ s.newHeightChan \in Seq(Nat)
      /\ b.height \in Nat /\ b.height \in Level /\ b \in Identifier
      /\ s.isNotarized \cup {b} \in SUBSET Block
  BY <1>1, StateTypes, BlockAssumption DEF Level, Identifier
<1>3. /\ u \in State({u.ledger})
      /\ u.isNotarized = s.isNotarized \cup {b}
      /\ s.headHeight <= u.headHeight /\ b.height <= u.headHeight
      /\ \/ u.curHeight = s.curHeight /\ u.newHeightChan = s.newHeightChan
         \/ /\ s.curHeight < u.curHeight
            /\ u.newHeightChan = Append(s.newHeightChan, u.curHeight)
      /\ u.nShares = s.nShares /\ u.fShares = s.fShares /\ u.fastVotes = s.fastVotes
      /\ u.sentNSharesNo = s.sentNSharesNo /\ u.sentNShareId = s.sentNShareId
      /\ u.sentNRank = s.sentNRank /\ u.sent = s.sent /\ u.isFinalized = s.isFinalized
      /\ u.echoedBlock = s.echoedBlock
  <2>2. /\ x.headHeight = s.headHeight /\ y.newHeightChan = s.newHeightChan
        /\ y.curHeight = s.curHeight /\ s.headHeight \in Level /\ s.headId \in Identifier
    BY <1>1 DEF State
  <2>3. CASE ~(s.headHeight < b.height)
    <3>1. u = [s EXCEPT !.isNotarized = s.isNotarized \cup {b},
                        !.headHeight = s.headHeight, !.headId = s.headId,
                        !.curHeight = s.curHeight, !.newHeightChan = s.newHeightChan]
      BY <1>1, <2>2, <2>3 DEF State
    <3> HIDE DEF u
    <3>2. /\ u \in State({u.ledger})
          /\ u.headHeight = s.headHeight /\ u.curHeight = s.curHeight
          /\ u.newHeightChan = s.newHeightChan
          /\ u.isNotarized = s.isNotarized \cup {b}
          /\ u.nShares = s.nShares /\ u.fShares = s.fShares /\ u.fastVotes = s.fastVotes
          /\ u.sentNSharesNo = s.sentNSharesNo /\ u.sentNShareId = s.sentNShareId
          /\ u.sentNRank = s.sentNRank /\ u.sent = s.sent /\ u.isFinalized = s.isFinalized
          /\ u.echoedBlock = s.echoedBlock
      BY <1>1, <1>2, <2>2, <3>1 DEF State
    <3> QED BY <1>2, <3>2, <2>3
  <2>4. CASE s.headHeight < b.height /\ b.height + 1 <= s.curHeight
    <3>1. u = y
      BY <2>2, <2>4 DEF HeightIncreased
    <3>2. u = [s EXCEPT !.isNotarized = s.isNotarized \cup {b},
                        !.headHeight = b.height, !.headId = b,
                        !.curHeight = s.curHeight, !.newHeightChan = s.newHeightChan]
      BY <1>1, <3>1 DEF State
    <3> HIDE DEF u
    <3>3. /\ u \in State({u.ledger})
          /\ u.headHeight = b.height /\ u.curHeight = s.curHeight
          /\ u.newHeightChan = s.newHeightChan
          /\ u.isNotarized = s.isNotarized \cup {b}
          /\ u.nShares = s.nShares /\ u.fShares = s.fShares /\ u.fastVotes = s.fastVotes
          /\ u.sentNSharesNo = s.sentNSharesNo /\ u.sentNShareId = s.sentNShareId
          /\ u.sentNRank = s.sentNRank /\ u.sent = s.sent /\ u.isFinalized = s.isFinalized
          /\ u.echoedBlock = s.echoedBlock
      BY <1>1, <1>2, <3>2 DEF State
    <3> QED BY <1>2, <3>3, <2>4
  <2>5. CASE s.headHeight < b.height /\ ~(b.height + 1 <= s.curHeight)
    <3>1. u = [y EXCEPT !.curHeight = b.height + 1,
                        !.newHeightChan = Append(@, b.height + 1)]
      BY <2>2, <2>5 DEF HeightIncreased
    <3>2. Append(s.newHeightChan, b.height + 1) \in Seq(Nat) /\ b.height + 1 \in Nat
      BY <1>2
    <3>3. u = [s EXCEPT !.isNotarized = s.isNotarized \cup {b},
                        !.headHeight = b.height, !.headId = b,
                        !.curHeight = b.height + 1,
                        !.newHeightChan = Append(s.newHeightChan, b.height + 1)]
      BY <1>1, <2>2, <3>1 DEF State
    <3> HIDE DEF u
    <3>4. /\ u \in State({u.ledger})
          /\ u.headHeight = b.height /\ u.curHeight = b.height + 1
          /\ u.newHeightChan = Append(s.newHeightChan, b.height + 1)
          /\ u.isNotarized = s.isNotarized \cup {b}
          /\ u.nShares = s.nShares /\ u.fShares = s.fShares /\ u.fastVotes = s.fastVotes
          /\ u.sentNSharesNo = s.sentNSharesNo /\ u.sentNShareId = s.sentNShareId
          /\ u.sentNRank = s.sentNRank /\ u.sent = s.sent /\ u.isFinalized = s.isFinalized
          /\ u.echoedBlock = s.echoedBlock
      BY <1>1, <1>2, <3>2, <3>3 DEF State
    <3> QED BY <1>2, <3>4, <2>5
  <2> QED BY <2>3, <2>4, <2>5
<1>4. t \in SendFShare(r, u, b)
  BY DEF Notarize
<1> HIDE DEF u
<1>5. HandlerInv(r, u, w) /\ Grows(s, u, b)
  BY <1>3, HeadStep
<1>6. HandlerInv(r, t, w) /\ Grows(u, t, b) /\ t.fastVotes = u.fastVotes
  BY <1>3, <1>4, <1>5, SendFShareKeeps
<1>7. t.sent \in Seq(Message) /\ u.sent \in Seq(Message)
  BY <1>5, <1>6, StateTypes DEF HandlerInv
<1> QED BY <1>1, <1>3, <1>5, <1>6, <1>7, GrowsTrans

\* A notarization share of v for b, in Banyan.
LEMMA BanyanProcessNotarizationShareKeeps ==
  ASSUME NEW r \in Replica, NEW s, NEW w, HandlerInv(r, s, w), Algorithm # "icc",
         NEW b \in Block, NEW v \in Replica, NEW fast \in BOOLEAN,
         <<b, v>> \in w.nshares \/ (v = r /\ b \in Cast(s.sent)),
         fast => b \in w.fast \cup FastCast(s.sent),
         fast => s.fastVotes[b.height] + 1 <= w.base[b.height] + OwnFast(s.sent, b.height),
         NEW t \in BanyanProcessNotarizationShare(r, s, v, b, fast)
  PROVE  HandlerInv(r, t, w) /\ Grows(s, t, b)
<1> DEFINE a == AddNShareBanyan(s, v, b, fast)
           u == IF b \notin s.isNotarized /\ IsNotarizedBanyan(a, b)
                THEN Notarize(r, a, b) ELSE {a}
<1>1. s \in State({s.ledger}) /\ s.sent \in Seq(Message)
  BY StateTypes DEF HandlerInv
<1>2. HandlerInv(r, a, w) /\ Grows(s, a, b) /\ a.sent = s.sent
  <2>1. /\ s.nShares \cup {<<b, v>>} \in SUBSET (Block \X Replica)
        /\ [s.fastVotes EXCEPT ![b.height] = @ + 1] \in [Height -> Nat]
        /\ s.fastVotes \in [Height -> Nat]
    BY <1>1, StateTypes
  <2>2. CASE fast
    <3>1. a = [s EXCEPT !.nShares = s.nShares \cup {<<b, v>>},
                        !.fastVotes = [s.fastVotes EXCEPT ![b.height] = @ + 1]]
      BY <1>1, <2>2 DEF AddNShareBanyan, State
    <3> HIDE DEF a
    <3>2. CountsNShare(s, a, v, b, fast)
      BY <1>1, <2>1, <2>2, <3>1 DEF State, CountsNShare
    <3>3. a.sent = s.sent
      BY <3>2 DEF CountsNShare
    <3> QED BY <3>2, <3>3, NShareStep
  <2>3. CASE ~fast
    <3>1. a = [s EXCEPT !.nShares = s.nShares \cup {<<b, v>>}, !.fastVotes = s.fastVotes]
      <4>1. [s.fastVotes EXCEPT ![b.height] = @] = s.fastVotes
        BY <2>1
      <4>2. a = [s EXCEPT !.nShares = s.nShares \cup {<<b, v>>},
                          !.fastVotes = [s.fastVotes EXCEPT ![b.height] = @]]
        BY <1>1, <2>3 DEF AddNShareBanyan, State
      <4> QED BY <4>1, <4>2
    <3> HIDE DEF a
    <3>2. CountsNShare(s, a, v, b, fast)
      BY <1>1, <2>1, <3>1 DEF State, CountsNShare
    <3>3. a.sent = s.sent
      BY <3>2 DEF CountsNShare
    <3> QED BY <3>2, <3>3, NShareStep
  <2> QED BY <2>2, <2>3
<1>3. t = s \/ t \in u \/ \E x \in u : IsFastFinalized(a, b, fast) /\ t \in Finalize(x, b)
  BY DEF BanyanProcessNotarizationShare
<1> HIDE DEF a
<1>4. a.sent \in Seq(Message)
  BY <1>1, <1>2
<1>5. ASSUME NEW x \in u
      PROVE  HandlerInv(r, x, w) /\ Grows(s, x, b) /\ x.fastVotes = a.fastVotes
  <2>1. CASE x = a
    BY <1>2, <2>1
  <2>2. CASE NQuorum(a, b) /\ x \in Notarize(r, a, b)
    <3>1. HandlerInv(r, x, w) /\ Grows(a, x, b) /\ x.fastVotes = a.fastVotes
      BY <1>2, <2>2, NotarizeKeeps
    <3>2. x.sent \in Seq(Message)
      BY <3>1, StateTypes DEF HandlerInv
    <3> QED BY <1>1, <1>2, <1>4, <3>1, <3>2, GrowsTrans
  <2> QED BY <1>5, <2>1, <2>2 DEF NQuorum
<1> HIDE DEF u
<1>6. CASE t = s
  BY <1>1, <1>6 DEF Grows
<1>7. CASE t \in u
  BY <1>5, <1>7
<1>8. CASE \E x \in u : IsFastFinalized(a, b, fast) /\ t \in Finalize(x, b)
  <2>1. PICK x \in u : IsFastFinalized(a, b, fast) /\ t \in Finalize(x, b)
    BY <1>8
  <2>2. HandlerInv(r, x, w) /\ Grows(s, x, b) /\ x.fastVotes = a.fastVotes
    BY <1>5
  <2>3. x.sent \in Seq(Message)
    BY <2>2, StateTypes DEF HandlerInv
  <2>4. x.fastVotes[b.height] >= N - P
    BY <2>1, <2>2 DEF IsFastFinalized
  <2>5. b \in w.fast \cup FastCast(x.sent)
    <3>1. FastCast(s.sent) \subseteq FastCast(x.sent)
      BY <1>1, <2>2, <2>3, LogGrows DEF Grows
    <3> QED BY <2>1, <3>1 DEF IsFastFinalized
  <2>6. HandlerInv(r, t, w) /\ Grows(x, t, b)
    BY <2>1, <2>2, <2>4, <2>5, FinalizeKeeps
  <2>7. t.sent \in Seq(Message)
    BY <2>6, StateTypes DEF HandlerInv
  <2> QED BY <1>1, <2>2, <2>3, <2>6, <2>7, GrowsTrans
<1> QED BY <1>3, <1>6, <1>7, <1>8

\* A notarization share of v for b, in ICC.
LEMMA IccProcessNotarizationShareKeeps ==
  ASSUME NEW r \in Replica, NEW s, NEW w, HandlerInv(r, s, w), Algorithm = "icc",
         NEW b \in Block, NEW v \in Replica,
         <<b, v>> \in w.nshares \/ (v = r /\ b \in Cast(s.sent)),
         NEW t \in IccProcessNotarizationShare(r, s, v, b)
  PROVE  HandlerInv(r, t, w) /\ Grows(s, t, b)
<1> DEFINE a == [s EXCEPT !.nShares = @ \cup {<<b, v>>}]
<1>1. s \in State({s.ledger}) /\ s.sent \in Seq(Message)
  BY StateTypes DEF HandlerInv
<1>2. HandlerInv(r, a, w) /\ Grows(s, a, b) /\ a.sent = s.sent
  <2>1. s.nShares \cup {<<b, v>>} \in SUBSET (Block \X Replica)
    BY <1>1, StateTypes
  <2>2. /\ a \in State({a.ledger}) /\ a.fastVotes = s.fastVotes
        /\ a.nShares = s.nShares \cup {<<b, v>>} /\ a.sent = s.sent
        /\ a.fShares = s.fShares /\ a.headHeight = s.headHeight /\ a.sentNRank = s.sentNRank
        /\ a.sentNSharesNo = s.sentNSharesNo /\ a.sentNShareId = s.sentNShareId
        /\ a.isNotarized = s.isNotarized /\ a.isFinalized = s.isFinalized
        /\ a.echoedBlock = s.echoedBlock /\ a.curHeight = s.curHeight
        /\ a.newHeightChan = s.newHeightChan
    BY <1>1, <2>1 DEF State
  <2> HIDE DEF a
  <2>3. CountsNShare(s, a, v, b, FALSE)
    BY <2>2 DEF CountsNShare
  <2> QED BY <2>2, <2>3, FALSE \in BOOLEAN, NShareStep
<1>3. t = s \/ t = a \/ (superMajority(a.nShares, b) /\ t \in Notarize(r, a, b))
  BY DEF IccProcessNotarizationShare
<1> HIDE DEF a
<1>4. CASE t = s
  BY <1>1, <1>4 DEF Grows
<1>5. CASE t = a
  BY <1>2, <1>5
<1>6. CASE superMajority(a.nShares, b) /\ t \in Notarize(r, a, b)
  <2>1. NQuorum(a, b)
    BY <1>6 DEF NQuorum
  <2>2. HandlerInv(r, t, w) /\ Grows(a, t, b)
    BY <1>2, <1>6, <2>1, NotarizeKeeps
  <2>3. t.sent \in Seq(Message) /\ a.sent \in Seq(Message)
    BY <1>1, <1>2, <2>2, StateTypes DEF HandlerInv
  <2> QED BY <1>1, <1>2, <2>2, <2>3, GrowsTrans
<1> QED BY <1>3, <1>4, <1>5, <1>6

\* The notarization share that r itself sends, in Banyan.
LEMMA BanyanSendNShareKeeps ==
  ASSUME NEW r \in Replica, NEW s, NEW w, HandlerInv(r, s, w), Algorithm # "icc",
         NEW b \in Block, s.headHeight < b.height => b \in BlocksIn(s.sent),
         NEW t \in BanyanSendNShare(r, s, b)
  PROVE  HandlerInv(r, t, w) /\ Grows(s, t, b)
<1> DEFINE h == b.height
           fast == b.rank = 0 /\ s.sentNSharesNo[h] = 0
           u == Broadcast([s EXCEPT !.sentNSharesNo[h] = @ + 1,
                                    !.sentNRank[h]     = b.rank,
                                    !.sentNShareId[h]  = b], NShareMsg(b, fast))
<1>1. s \in State({s.ledger}) /\ s.sent \in Seq(Message)
  BY StateTypes DEF HandlerInv
<1>2. CASE t = s
  BY <1>1, <1>2 DEF Grows
<1>3. CASE t # s
  <2>1. /\ s.headHeight < h
        /\ s.sentNSharesNo[h] = 0 \/ s.sentNRank[h] > b.rank
        /\ t \in BanyanProcessNotarizationShare(r, u, r, b, fast)
    BY <1>3 DEF BanyanSendNShare
  <2>2. fast \in BOOLEAN /\ (fast => b.rank = 0 /\ s.sentNSharesNo[h] = 0)
    OBVIOUS
  <2> HIDE DEF fast
  <2>3. /\ s.sentNSharesNo \in [Height -> Nat] /\ s.sentNRank \in [Height -> Nat]
        /\ s.sentNShareId \in [Height -> Identifier]
        /\ h \in Height /\ b.rank \in Nat /\ b \in Identifier
    BY <1>1, StateTypes DEF Identifier
  <2>4. /\ [s.sentNSharesNo EXCEPT ![h] = @ + 1] \in [Height -> Nat]
        /\ [s.sentNRank EXCEPT ![h] = b.rank] \in [Height -> Nat]
        /\ [s.sentNShareId EXCEPT ![h] = b] \in [Height -> Identifier]
    BY <2>3
  <2>5. Append(s.sent, NShareMsg(b, fast)) \in Seq(Message)
    BY <1>1, <2>2 DEF NShareMsg, Message
  <2>6. u = [s EXCEPT !.sentNSharesNo = [s.sentNSharesNo EXCEPT ![h] = @ + 1],
                      !.sentNRank     = [s.sentNRank EXCEPT ![h] = b.rank],
                      !.sentNShareId  = [s.sentNShareId EXCEPT ![h] = b],
                      !.sent          = Append(s.sent, NShareMsg(b, fast))]
    BY <1>1 DEF State, Broadcast
  <2> HIDE DEF u
  <2>7. /\ u \in State({u.ledger})
        /\ u.sentNSharesNo = [s.sentNSharesNo EXCEPT ![h] = @ + 1]
        /\ u.sentNRank = [s.sentNRank EXCEPT ![h] = b.rank]
        /\ u.sentNShareId = [s.sentNShareId EXCEPT ![h] = b]
        /\ u.sent = Append(s.sent, NShareMsg(b, fast))
        /\ u.nShares = s.nShares /\ u.fShares = s.fShares /\ u.fastVotes = s.fastVotes
        /\ u.headHeight = s.headHeight /\ u.isNotarized = s.isNotarized
        /\ u.isFinalized = s.isFinalized /\ u.echoedBlock = s.echoedBlock
        /\ u.curHeight = s.curHeight /\ u.newHeightChan = s.newHeightChan
    BY <1>1, <2>4, <2>5, <2>6 DEF State
  <2>8. /\ HandlerInv(r, u, w) /\ Grows(s, u, b) /\ b \in Cast(u.sent)
        /\ fast => /\ b \in FastCast(u.sent)
                   /\ u.fastVotes[h] + 1 <= w.base[h] + OwnFast(u.sent, h)
    <3>1. fast => Algorithm # "icc" /\ b.rank = 0 /\ s.sentNSharesNo[b.height] = 0
      BY <2>2
    <3>2. \/ Algorithm = "icc"
          \/ /\ s.sentNSharesNo[b.height] = 0 \/ s.sentNRank[b.height] > b.rank
             /\ u.sentNRank = [s.sentNRank EXCEPT ![b.height] = b.rank]
      BY <2>1, <2>7
    <3>3. b \in BlocksIn(s.sent) /\ s.headHeight < b.height /\ fast \in BOOLEAN
      BY <2>1, <2>2
    <3>4. VotesFor(s, u, b, fast)
      BY <2>7, <3>1, <3>2, <3>3 DEF VotesFor
    <3> QED BY <3>4, VoteStep
  <2>9. HandlerInv(r, t, w) /\ Grows(u, t, b)
    <3>1. <<b, r>> \in w.nshares \/ (r = r /\ b \in Cast(u.sent))
      BY <2>8
    <3>2. /\ fast => b \in w.fast \cup FastCast(u.sent)
          /\ fast => u.fastVotes[h] + 1 <= w.base[h] + OwnFast(u.sent, h)
      BY <2>8
    <3>3. HandlerInv(r, u, w) /\ t \in BanyanProcessNotarizationShare(r, u, r, b, fast)
      BY <2>1, <2>8
    <3> QED BY <2>2, <3>1, <3>2, <3>3, BanyanProcessNotarizationShareKeeps
  <2>10. t.sent \in Seq(Message) /\ u.sent \in Seq(Message)
    BY <2>8, <2>9, StateTypes DEF HandlerInv
  <2> QED BY <1>1, <2>8, <2>9, <2>10, GrowsTrans
<1> QED BY <1>2, <1>3

\* The notarization share that r itself sends, in ICC.
LEMMA IccSendNShareKeeps ==
  ASSUME NEW r \in Replica, NEW s, NEW w, HandlerInv(r, s, w), Algorithm = "icc",
         NEW b \in Block, s.headHeight < b.height => b \in BlocksIn(s.sent),
         NEW t \in IccSendNShare(r, s, b)
  PROVE  HandlerInv(r, t, w) /\ Grows(s, t, b)
<1> DEFINE h == b.height
           u == Broadcast([s EXCEPT !.sentNSharesNo[h] = @ + 1, !.sentNShareId[h] = b],
                          NShareMsg(b, FALSE))
<1>1. s \in State({s.ledger}) /\ s.sent \in Seq(Message)
  BY StateTypes DEF HandlerInv
<1>2. CASE t = s
  BY <1>1, <1>2 DEF Grows
<1>3. CASE t # s
  <2>1. s.headHeight < h /\ t \in IccProcessNotarizationShare(r, u, r, b)
    BY <1>3 DEF IccSendNShare
  <2>2. /\ s.sentNSharesNo \in [Height -> Nat]
        /\ s.sentNShareId \in [Height -> Identifier]
        /\ h \in Height /\ b \in Identifier
    BY <1>1, StateTypes DEF Identifier
  <2>3. /\ [s.sentNSharesNo EXCEPT ![h] = @ + 1] \in [Height -> Nat]
        /\ [s.sentNShareId EXCEPT ![h] = b] \in [Height -> Identifier]
    BY <2>2
  <2>4. Append(s.sent, NShareMsg(b, FALSE)) \in Seq(Message)
    BY <1>1 DEF NShareMsg, Message
  <2>5. u = [s EXCEPT !.sentNSharesNo = [s.sentNSharesNo EXCEPT ![h] = @ + 1],
                      !.sentNShareId  = [s.sentNShareId EXCEPT ![h] = b],
                      !.sent          = Append(s.sent, NShareMsg(b, FALSE))]
    BY <1>1 DEF State, Broadcast
  <2> HIDE DEF u
  <2>6. VotesFor(s, u, b, FALSE)
    BY <1>1, <2>1, <2>3, <2>4, <2>5 DEF State, VotesFor
  <2>7. HandlerInv(r, u, w) /\ Grows(s, u, b) /\ b \in Cast(u.sent)
    BY <2>6, VoteStep
  <2>8. HandlerInv(r, t, w) /\ Grows(u, t, b)
    <3>1. <<b, r>> \in w.nshares \/ (r = r /\ b \in Cast(u.sent))
      BY <2>7
    <3>2. HandlerInv(r, u, w) /\ t \in IccProcessNotarizationShare(r, u, r, b)
      BY <2>1, <2>7
    <3> QED BY <3>1, <3>2, IccProcessNotarizationShareKeeps
  <2>9. t.sent \in Seq(Message) /\ u.sent \in Seq(Message)
    BY <2>7, <2>8, StateTypes DEF HandlerInv
  <2> QED BY <1>1, <2>7, <2>8, <2>9, GrowsTrans
<1> QED BY <1>2, <1>3

\* Echoing and storing a block: afterwards a block above the head is in the log.
LEMMA StoreBlockKeeps ==
  ASSUME NEW r \in Replica, NEW s, NEW w, HandlerInv(r, s, w),
         NEW b \in Block, IsLeader(b.proposer, b.height, b.rank),
         NEW t \in StoreBlock(s, b)
  PROVE  /\ HandlerInv(r, t, w) /\ Grows(s, t, b)
         /\ t.headHeight < b.height => b \in BlocksIn(t.sent)
<1> DEFINE e == IF b \notin s.echoedBlock /\ b.height > s.headHeight
                THEN Broadcast([s EXCEPT !.echoedBlock = @ \cup {b}], BlockMsg(b))
                ELSE s
<1>1. s \in State({s.ledger}) /\ s.sent \in Seq(Message)
  BY StateTypes DEF HandlerInv
<1>2. /\ HandlerInv(r, e, w) /\ Grows(s, e, b)
      /\ e.headHeight < b.height => b \in BlocksIn(e.sent)
  <2>1. CASE b \notin s.echoedBlock /\ b.height > s.headHeight
    <3>1. /\ s.echoedBlock \cup {b} \in SUBSET Block
          /\ Append(s.sent, BlockMsg(b)) \in Seq(Message)
      BY <1>1 DEF State, BlockMsg, Message
    <3>2. e = [s EXCEPT !.echoedBlock = s.echoedBlock \cup {b},
                        !.sent = Append(s.sent, BlockMsg(b))]
      BY <1>1, <2>1 DEF State, Broadcast
    <3> HIDE DEF e
    <3>3. /\ e \in State({e.ledger}) /\ e.sent = Append(s.sent, BlockMsg(b))
          /\ e.echoedBlock \subseteq s.echoedBlock \cup {b}
          /\ e.nShares = s.nShares /\ e.fShares = s.fShares /\ e.fastVotes = s.fastVotes
          /\ e.headHeight = s.headHeight /\ e.sentNRank = s.sentNRank
          /\ e.sentNSharesNo = s.sentNSharesNo /\ e.sentNShareId = s.sentNShareId
          /\ e.isNotarized = s.isNotarized /\ e.isFinalized = s.isFinalized
          /\ e.curHeight = s.curHeight /\ e.newHeightChan = s.newHeightChan
      BY <1>1, <3>1, <3>2 DEF State
    <3> QED BY <3>3, BlockStep
  <2>2. CASE ~(b \notin s.echoedBlock /\ b.height > s.headHeight)
    <3>1. e = s
      BY <2>2
    <3>2. Grows(s, s, b)
      BY <1>1 DEF Grows
    <3>3. s.headHeight < b.height => b \in BlocksIn(s.sent)
      <4>1. s.echoedBlock \subseteq BlocksIn(s.sent)
        BY DEF HandlerInv, BlockInv
      <4>2. s.headHeight \in Nat /\ b.height \in Nat
        BY <1>1, StateTypes
      <4> QED BY <2>2, <4>1, <4>2
    <3> QED BY <3>1, <3>2, <3>3
  <2> QED BY <2>1, <2>2
<1>3. PICK x : t = [e EXCEPT !.ledger = x]
  BY DEF StoreBlock
<1> HIDE DEF e
<1>4. HandlerInv(r, t, w) /\ Grows(e, t, b)
  BY <1>2, <1>3, LedgerStep
<1>5. e \in State({e.ledger}) /\ e.sent \in Seq(Message) /\ t.sent \in Seq(Message)
  BY <1>2, <1>4, StateTypes DEF HandlerInv
<1>6. t.headHeight = e.headHeight /\ t.sent = e.sent
  BY <1>3, <1>5 DEF State
<1> QED BY <1>1, <1>2, <1>4, <1>5, <1>6, GrowsTrans

\* The whole of ProcessBlock, in both algorithms.
LEMMA ProcessBlockKeeps ==
  ASSUME NEW r \in Replica, NEW s, NEW w, HandlerInv(r, s, w),
         NEW b \in Block, NEW t \in ProcessBlock(r, s, b)
  PROVE  HandlerInv(r, t, w) /\ Grows(s, t, b)
<1>1. s \in State({s.ledger}) /\ s.sent \in Seq(Message)
  BY StateTypes DEF HandlerInv
<1>2. CASE ~Accepts(s, b)
  <2>1. t = s
    BY <1>2 DEF ProcessBlock, IccProcessBlock, BanyanProcessBlock
  <2> QED BY <1>1, <2>1 DEF Grows
<1>3. CASE Accepts(s, b)
  <2>1. PICK x \in StoreBlock(s, b) :
          \E y : /\ \/ Algorithm = "icc" /\ y \in IccSendNShare(r, x, b)
                    \/ Algorithm # "icc" /\ y \in BanyanSendNShare(r, x, b)
                 /\ t \in (IF b \in y.isNotarized THEN SendFShare(r, y, b) ELSE {y})
    <3>1. CASE Algorithm = "icc"
      BY <1>3, <3>1 DEF ProcessBlock, IccProcessBlock
    <3>2. CASE Algorithm # "icc"
      BY <1>3, <3>2 DEF ProcessBlock, BanyanProcessBlock
    <3> QED BY <3>1, <3>2
  <2>2. PICK y : /\ \/ Algorithm = "icc" /\ y \in IccSendNShare(r, x, b)
                    \/ Algorithm # "icc" /\ y \in BanyanSendNShare(r, x, b)
                 /\ t \in (IF b \in y.isNotarized THEN SendFShare(r, y, b) ELSE {y})
    BY <2>1
  <2>3. /\ HandlerInv(r, x, w) /\ Grows(s, x, b)
        /\ x.headHeight < b.height => b \in BlocksIn(x.sent)
    BY <1>3, StoreBlockKeeps DEF Accepts
  <2>4. HandlerInv(r, y, w) /\ Grows(x, y, b)
    BY <2>2, <2>3, IccSendNShareKeeps, BanyanSendNShareKeeps
  <2>5. x.sent \in Seq(Message) /\ y.sent \in Seq(Message)
    BY <2>3, <2>4, StateTypes DEF HandlerInv
  <2>6. HandlerInv(r, t, w) /\ Grows(y, t, b)
    <3>1. CASE b \in y.isNotarized
      BY <2>2, <2>4, <3>1, SendFShareKeeps
    <3>2. CASE b \notin y.isNotarized
      BY <2>2, <2>4, <2>5, <3>2 DEF Grows
    <3> QED BY <3>1, <3>2
  <2>7. t.sent \in Seq(Message)
    BY <2>6, StateTypes DEF HandlerInv
  <2>8. Grows(s, y, b)
    BY <1>1, <2>3, <2>4, <2>5, GrowsTrans
  <2> QED BY <1>1, <2>5, <2>6, <2>7, <2>8, GrowsTrans
<1> QED BY <1>2, <1>3
=============================================================================
