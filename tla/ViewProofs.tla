----------------------------- MODULE ViewProofs -----------------------------
(***************************************************************************)
(* The replicas of replica_view.go, for HotStuff and Streamlet and every   *)
(* value of the constants: a leader proposes once in a view, the proposals *)
(* are a tree, behind every certificate there is a super majority of       *)
(* votes, and HotStuff always comes back from pruning.                     *)
(***************************************************************************)
EXTENDS ReplicaView, ForestProofs, SequenceTheorems

-----------------------------------------------------------------------------
(* The inductive invariant.                                                *)
(*                                                                         *)
(* It is about the state s of a replica r in a world w: w.voted[q] is what *)
(* another replica q has voted for, and w.made what has been proposed.     *)

\* What q has voted for
VotesOf(r, s, w, q) == IF q = r THEN Range(s.voted) ELSE w.voted[q]

\* What has been proposed
MadeOf(s, w) == s.proposed \cup w.made

\* id is Genesis, or there is a super majority of votes for it.
Backed(r, s, w, id) ==
  \/ id = Genesis
  \/ /\ id \in Block
     /\ 3 * Cardinality({q \in Replica : id \in VotesOf(r, s, w, q)}) > 2 * N

\* b has been proposed, with a certificate behind which there is a super majority.
Offered(r, s, w, b) == b \in MadeOf(s, w) /\ Backed(r, s, w, b.prev)

\* What a message says is true.
Sound(r, s, w, m) ==
  /\ m.type = "block" => Offered(r, s, w, m.block)
  /\ m.type = "vote" => m.block \in VotesOf(r, s, w, m.voter)
  /\ m.type = "tmo" => Backed(r, s, w, m.highQC)

Finite(s) ==
  /\ IsFiniteSet(s.bc.full) /\ IsFiniteSet(s.bufferedBlocks)
  /\ s \in SL!State => IsFiniteSet(s.bufferedNotarizedBlock)

\* Views are announced in ascending order, and a replica proposes only in views
\* that were announced.
PaceInv(r, s) ==
  /\ \A i \in DOMAIN s.newViewChan : s.newViewChan[i] <= s.curView
  /\ \A i, j \in DOMAIN s.newViewChan : i < j => s.newViewChan[i] < s.newViewChan[j]
  /\ \A b \in s.proposed :
       /\ b.proposer = r /\ b.height <= s.curView
       /\ \A i \in DOMAIN s.newViewChan : b.height < s.newViewChan[i]
  /\ \A b, c \in s.proposed : b.height = c.height => b = c

\* Votes that were counted were cast, and certificates are backed by votes: those
\* in messages and buffers, those in the blocks that were voted for, and those that
\* led to the blocks that were committed.
TrustInv(r, s, w) ==
  /\ \A x \in s.votes : x[1] \in VotesOf(r, s, w, x[2])
  /\ \A q \in Replica : \A b \in VotesOf(r, s, w, q) : Offered(r, s, w, b)
  /\ \A b \in Range(s.committed) : Backed(r, s, w, b)
  /\ \A b \in s.bufferedBlocks \cup s.proposed : Offered(r, s, w, b)
  /\ \A q \in Replica : \A i \in DOMAIN s.out[q] : Sound(r, s, w, s.out[q][i])
  /\ s \in HS!State => \A c \in s.bufferedQCs \cup {s.highQC} : Backed(r, s, w, c)
  /\ s \in SL!State => \A c \in SL!Certificates(s) : Backed(r, s, w, c)

\* b is the first of three blocks of consecutive views, all backed by votes.
ThreeChain(r, s, w, b) ==
  \E x, y \in Block :
    /\ x.prev = b /\ x.height = b.height + 1
    /\ y.prev = x /\ y.height = b.height + 2
    /\ Backed(r, s, w, b) /\ Backed(r, s, w, x) /\ Backed(r, s, w, y)

\* HotStuff has committed a block of the lowest level, which begins such a chain.
LastCommit(r, s, w) ==
  \E b \in Range(s.committed) : b.height = s.bc.lowest /\ ThreeChain(r, s, w, b)

CommitInv(r, s, w) == s \in HS!State /\ s.bc.lowest > 0 => LastCommit(r, s, w)

\* A Streamlet replica that has stored or notarized a block knows that view 1 has one.
Begun(s, w) ==
  s.bc.full # {} \/ s.notarizedChain # <<>> => \E b \in MadeOf(s, w) : b.height = 1

\* Blocks that were proposed are stored at the level of their view, and HotStuff has
\* always come back from pruning them.
Stored(s, w) ==
  /\ StoreOf(s.bc, MadeOf(s, w))
  /\ s \in HS!State => ~s.halted
  /\ s \in SL!State => Begun(s, w)

\* What has been proposed is a tree, and a replica knows its own proposals.
MadeInv(r, s, w) ==
  /\ IsTree(MadeOf(s, w))
  /\ \A b \in w.made : b.proposer = r => b \in s.proposed
  /\ s \in SL!State => \A b \in MadeOf(s, w) : b.height = 1 => b.prev = Genesis

Good(r, s, w) ==
  /\ s \in HS!State \cup SL!State /\ Finite(s)
  /\ PaceInv(r, s) /\ TrustInv(r, s, w) /\ CommitInv(r, s, w)
  /\ Stored(s, w) /\ MadeInv(r, s, w)

\* What the replicas with the states S have voted for and proposed
WorldOf(S) == [voted |-> [q \in Replica |-> Range(S[q].voted)],
               made  |-> UNION {S[q].proposed : q \in Replica}]

World == WorldOf(rs)

IndInv ==
  /\ algorithm \in Algorithms /\ started \subseteq Replica /\ DOMAIN rs = Replica
  /\ \A r \in Replica :
       /\ rs[r] \in IF UsesHotStuff THEN HS!State ELSE SL!State
       /\ Good(r, rs[r], World)


-----------------------------------------------------------------------------
(* Names and types. *)

\* HotStuff and Streamlet mean by their names what ReplicaView means by them.
LEMMA Names ==
  /\ HS!Identifier = Identifier /\ SL!Identifier = Identifier
  /\ HS!Replica = Replica /\ SL!Replica = Replica
  /\ HS!View = View /\ SL!View = View
  /\ HS!Message = Message /\ SL!Message = Message
  /\ HS!Forest = Forest /\ SL!Forest = Forest
BY DEF HS!Identifier, SL!Identifier, Identifier, HS!Replica, SL!Replica, Replica,
       HS!View, SL!View, View, HS!Message, SL!Message, Message,
       HS!Forest, SL!Forest, Forest, HS!Level, SL!Level, Level

\* The fields that the states of both protocols have
LEMMA CommonFields ==
  ASSUME NEW s \in HS!State \cup SL!State
  PROVE  /\ s.curView \in Nat /\ s.newViewChan \in Seq(Nat)
         /\ s.timeouts \in SUBSET (Nat \X Replica)
         /\ s.votes \in SUBSET (Block \X Replica)
         /\ s.bufferedBlocks \in SUBSET Block /\ s.echoedBlock \in SUBSET Block
         /\ s.bc \in Forest /\ s.committed \in Seq(Block) /\ s.halted \in BOOLEAN
         /\ s.out \in [Replica -> Seq(Message)]
         /\ s.proposed \in SUBSET Block /\ s.voted \in Seq(Block)
<1>1. CASE s \in HS!State
  BY <1>1, Names DEF HS!State
<1>2. CASE s \in SL!State
  BY <1>2, Names DEF SL!State
<1> QED
  BY <1>1, <1>2

\* What a block is
LEMMA BlockFields ==
  ASSUME NEW b \in Block
  PROVE  /\ b.height \in Nat /\ b.height \in 1..MaxHeight /\ b.height \in View /\ b.height \in Level
         /\ b # Genesis /\ b \in Identifier /\ b.prev \in Identifier
         /\ HeightOf(b) = b.height
BY BlockAssumption DEF View, Level, Identifier, HeightOf

\* The height of a block or of Genesis is a view.
LEMMA HeightType ==
  ASSUME NEW b \in Identifier
  PROVE  HeightOf(b) \in Nat /\ HeightOf(b) \in View /\ HeightOf(b) \in Level
BY BlockAssumption DEF View, Level, Identifier, HeightOf

\* What is backed is an identifier.
LEMMA BackedType ==
  ASSUME NEW r, NEW s, NEW w, NEW id, Backed(r, s, w, id)
  PROVE  id \in Identifier
BY DEF Backed, Identifier

-----------------------------------------------------------------------------
(* What a handler may do to the state. *)

\* The pacemaker stays in its view, or enters a later one.
Paced(s, t) ==
  \/ t.curView = s.curView /\ t.newViewChan = s.newViewChan
  \/ /\ t.curView > s.curView
     /\ t.newViewChan = Append(s.newViewChan, t.curView)

Alike(s, t) ==
  /\ s \in HS!State \cup SL!State
  /\ s \in HS!State <=> t \in HS!State
  /\ s \in SL!State <=> t \in SL!State

\* t has the same messages, certificates, votes and buffered blocks as s, and new
\* ones that are backed.
Change(r, s, w, t) ==
  /\ Alike(s, t) /\ Finite(t) /\ Stored(t, w)
  /\ t.proposed = s.proposed /\ Paced(s, t)
  /\ Range(s.voted) \subseteq Range(t.voted)
  /\ \A b \in Range(t.voted) : b \in Range(s.voted) \/ Offered(r, t, w, b)
  /\ \A b \in Range(t.committed) : b \in Range(s.committed) \/ Backed(r, t, w, b)
  /\ \/ Range(s.committed) \subseteq Range(t.committed) /\ t.bc.lowest = s.bc.lowest
     \/ t \in HS!State => LastCommit(r, t, w)
  /\ \A x \in t.votes : x \in s.votes \/ x[1] \in VotesOf(r, t, w, x[2])
  /\ \A b \in t.bufferedBlocks : b \in s.bufferedBlocks \/ Offered(r, t, w, b)
  /\ \A q \in Replica : \A i \in DOMAIN t.out[q] :
       \/ \E j \in DOMAIN s.out[q] : t.out[q][i] = s.out[q][j]
       \/ Sound(r, t, w, t.out[q][i])
  /\ s \in HS!State => \A c \in t.bufferedQCs \cup {t.highQC} :
       c \in s.bufferedQCs \cup {s.highQC} \/ Backed(r, t, w, c)
  /\ s \in SL!State => \A c \in SL!Certificates(t) :
       c \in SL!Certificates(s) \/ Backed(r, t, w, c)

\* What a handler guarantees
Keeps(r, s, w, t) ==
  /\ Good(r, t, w) /\ Alike(s, t)
  /\ Range(s.voted) \subseteq Range(t.voted) /\ s.proposed \subseteq t.proposed

\* More votes back everything that fewer back.
LEMMA BackedMore ==
  ASSUME NEW r \in Replica, NEW s, NEW w, NEW t, NEW x,
         \A q \in Replica : VotesOf(r, s, w, q) \subseteq VotesOf(r, t, x, q)
  PROVE  \A id : Backed(r, s, w, id) => Backed(r, t, x, id)
<1> SUFFICES ASSUME NEW id, Backed(r, s, w, id)
             PROVE  Backed(r, t, x, id)
  OBVIOUS
<1> DEFINE A == {q \in Replica : id \in VotesOf(r, s, w, q)}
           B == {q \in Replica : id \in VotesOf(r, t, x, q)}
<1>1. IsFiniteSet(Replica)
  BY NAssumption, FS_Interval DEF Replica
<1>2. A \subseteq B /\ B \subseteq Replica
  OBVIOUS
<1> HIDE DEF A, B
<1>3. IsFiniteSet(B) /\ IsFiniteSet(A)
  BY <1>1, <1>2, FS_Subset
<1>4. Cardinality(A) <= Cardinality(B) /\ Cardinality(A) \in Nat /\ Cardinality(B) \in Nat
  BY <1>2, <1>3, FS_Subset, FS_CardinalityType
<1>5. 3 * Cardinality(A) > 2 * N => 3 * Cardinality(B) > 2 * N
  BY <1>4, NAssumption
<1> QED
  BY <1>5 DEF Backed, A, B

\* And what is offered and said, when no proposal is lost.
LEMMA OfferedMore ==
  ASSUME NEW r \in Replica, NEW s, NEW w, NEW t, NEW x,
         \A q \in Replica : VotesOf(r, s, w, q) \subseteq VotesOf(r, t, x, q),
         MadeOf(s, w) \subseteq MadeOf(t, x)
  PROVE  /\ \A b : Offered(r, s, w, b) => Offered(r, t, x, b)
         /\ \A m \in Message : Sound(r, s, w, m) => Sound(r, t, x, m)
<1>1. \A id : Backed(r, s, w, id) => Backed(r, t, x, id)
  BY BackedMore
<1>2. \A b : Offered(r, s, w, b) => Offered(r, t, x, b)
  BY <1>1 DEF Offered
<1>3. ASSUME NEW m \in Message, Sound(r, s, w, m)
      PROVE  Sound(r, t, x, m)
  <2>1. m.type = "vote" => m.voter \in Replica
    BY DEF Message
  <2> QED
    BY <1>1, <1>2, <1>3, <2>1 DEF Sound
<1> QED
  BY <1>2, <1>3

\* What b needs is there with more votes too.
LEMMA ChainMore ==
  ASSUME NEW r \in Replica, NEW s, NEW w, NEW t, NEW x,
         \A q \in Replica : VotesOf(r, s, w, q) \subseteq VotesOf(r, t, x, q)
  PROVE  \A b : ThreeChain(r, s, w, b) => ThreeChain(r, t, x, b)
BY BackedMore DEF ThreeChain

\* A state that has changed in the way described is good again.
LEMMA GoodChange ==
  ASSUME NEW r \in Replica, NEW s, NEW w, Good(r, s, w), NEW t, Change(r, s, w, t)
  PROVE  Keeps(r, s, w, t)
<1>1. s \in HS!State \cup SL!State /\ t \in HS!State \cup SL!State
  BY DEF Change, Alike
<1>2. /\ s.votes \in SUBSET (Block \X Replica) /\ s.out \in [Replica -> Seq(Message)]
      /\ t.votes \in SUBSET (Block \X Replica) /\ t.out \in [Replica -> Seq(Message)]
      /\ s.curView \in Nat /\ t.curView \in Nat /\ s.newViewChan \in Seq(Nat)
      /\ s.proposed \in SUBSET Block
  BY <1>1, CommonFields
<1>3. \A q \in Replica : VotesOf(r, s, w, q) \subseteq VotesOf(r, t, w, q)
  BY DEF Change, VotesOf
<1>8. t.proposed = s.proposed /\ MadeOf(s, w) = MadeOf(t, w)
  BY DEF Change, MadeOf
<1>4. /\ \A id : Backed(r, s, w, id) => Backed(r, t, w, id)
      /\ \A b : Offered(r, s, w, b) => Offered(r, t, w, b)
      /\ \A m \in Message : Sound(r, s, w, m) => Sound(r, t, w, m)
  BY <1>3, <1>8, BackedMore, OfferedMore
<1>9. MadeInv(r, t, w)
  BY <1>8 DEF Good, MadeInv, Change, Alike
<1>5. PaceInv(r, t)
  <2>1. t.proposed = s.proposed
    BY DEF Change
  <2>2. CASE t.curView = s.curView /\ t.newViewChan = s.newViewChan
    BY <2>1, <2>2 DEF Good, PaceInv
  <2>3. CASE t.curView > s.curView /\ t.newViewChan = Append(s.newViewChan, t.curView)
    <3> DEFINE n == Len(s.newViewChan)
    <3>1. /\ n \in Nat /\ DOMAIN t.newViewChan = 1 .. n + 1 /\ DOMAIN s.newViewChan = 1..n
          /\ t.newViewChan[n + 1] = t.curView
          /\ \A i \in 1..n : t.newViewChan[i] = s.newViewChan[i] /\ s.newViewChan[i] \in Nat
      BY SMTT(30), <1>2, <2>3
    <3> HIDE DEF n
    <3>2. \A i \in 1..n : s.newViewChan[i] <= s.curView
      BY <3>1 DEF Good, PaceInv
    <3>3. \A i, j \in 1..n : i < j => s.newViewChan[i] < s.newViewChan[j]
      BY <3>1 DEF Good, PaceInv
    <3>4. \A i \in 1 .. n + 1 : t.newViewChan[i] <= t.curView
      BY SMTT(30), <1>2, <2>3, <3>1, <3>2
    <3>5. ASSUME NEW i \in 1 .. n + 1, NEW j \in 1 .. n + 1, i < j
          PROVE  t.newViewChan[i] < t.newViewChan[j]
      <4>1. i \in 1..n /\ t.newViewChan[i] = s.newViewChan[i] /\ s.newViewChan[i] \in Nat
        BY <3>1, <3>5
      <4>2. CASE j = n + 1
        BY <1>2, <2>3, <3>1, <3>2, <4>1, <4>2
      <4>3. CASE j # n + 1
        <5>1. j \in 1..n /\ t.newViewChan[j] = s.newViewChan[j]
          BY <3>1, <4>3
        <5> QED
          BY <3>3, <3>5, <4>1, <5>1
      <4> QED
        BY <4>2, <4>3
    <3>6. \A b \in s.proposed :
            /\ b.proposer = r /\ b.height <= s.curView /\ b.height \in Nat
            /\ \A i \in 1..n : b.height < s.newViewChan[i]
      BY <1>2, <3>1, BlockFields DEF Good, PaceInv
    <3>7. \A b \in s.proposed :
            /\ b.proposer = r /\ b.height <= t.curView
            /\ \A i \in 1 .. n + 1 : b.height < t.newViewChan[i]
      BY SMTT(30), <1>2, <2>3, <3>1, <3>6
    <3>8. \A b, c \in s.proposed : b.height = c.height => b = c
      BY DEF Good, PaceInv
    <3> QED
      BY <2>1, <3>1, <3>4, <3>5, <3>7, <3>8 DEF PaceInv
  <2> QED
    BY <2>2, <2>3 DEF Change, Paced
<1>6. TrustInv(r, t, w)
  <2>1. \A x \in t.votes : x[1] \in VotesOf(r, t, w, x[2])
    <3> SUFFICES ASSUME NEW x \in t.votes PROVE x[1] \in VotesOf(r, t, w, x[2])
      OBVIOUS
    <3>1. x[2] \in Replica
      BY <1>2
    <3> QED
      BY <1>3, <3>1 DEF Change, Good, TrustInv
  <2>2. \A b \in t.bufferedBlocks \cup t.proposed : Offered(r, t, w, b)
    BY <1>4, <1>8 DEF Change, Good, TrustInv
  <2>3. \A q \in Replica : \A i \in DOMAIN t.out[q] : Sound(r, t, w, t.out[q][i])
    <3> SUFFICES ASSUME NEW q \in Replica, NEW i \in DOMAIN t.out[q]
                 PROVE  Sound(r, t, w, t.out[q][i])
      OBVIOUS
    <3>1. t.out[q] \in Seq(Message)
      BY <1>2
    <3>2. t.out[q][i] \in Message
      BY <3>1
    <3> QED
      BY <1>4, <3>2 DEF Change, Good, TrustInv
  <2>4. t \in HS!State => \A c \in t.bufferedQCs \cup {t.highQC} : Backed(r, t, w, c)
    BY <1>4 DEF Change, Alike, Good, TrustInv
  <2>5. t \in SL!State => \A c \in SL!Certificates(t) : Backed(r, t, w, c)
    BY <1>4 DEF Change, Alike, Good, TrustInv
  <2>6. \A q \in Replica : \A b \in VotesOf(r, t, w, q) : Offered(r, t, w, b)
    BY <1>4 DEF Change, Good, TrustInv, VotesOf
  <2>7. \A b \in Range(t.committed) : Backed(r, t, w, b)
    BY <1>4 DEF Change, Good, TrustInv
  <2> QED
    BY <2>1, <2>2, <2>3, <2>4, <2>5, <2>6, <2>7 DEF TrustInv
<1>7. CommitInv(r, t, w)
  <2>1. CASE Range(s.committed) \subseteq Range(t.committed) /\ t.bc.lowest = s.bc.lowest
    <3>1. \A b : ThreeChain(r, s, w, b) => ThreeChain(r, t, w, b)
      BY <1>3, ChainMore
    <3> QED
      BY <2>1, <3>1 DEF Change, Alike, Good, CommitInv, LastCommit
  <2>2. CASE t \in HS!State => LastCommit(r, t, w)
    BY <2>2 DEF CommitInv
  <2> QED
    BY <2>1, <2>2 DEF Change
<1> QED
  BY <1>1, <1>5, <1>6, <1>7, <1>8, <1>9 DEF Good, Keeps, Change


\* A handler that does nothing keeps everything.
LEMMA KeepsSame ==
  ASSUME NEW r, NEW s, NEW w, Good(r, s, w)
  PROVE  Keeps(r, s, w, s)
BY DEF Keeps, Good, Alike

\* Of two handlers that follow one another each may rely on the one before.
LEMMA KeepsThen ==
  ASSUME NEW r, NEW s, NEW w, NEW t, NEW u, Keeps(r, s, w, t), Keeps(r, t, w, u)
  PROVE  Keeps(r, s, w, u)
BY DEF Keeps, Alike

\* What was backed stays so.
LEMMA KeepsBacked ==
  ASSUME NEW r \in Replica, NEW s, NEW w, NEW t, Keeps(r, s, w, t),
         NEW id, Backed(r, s, w, id)
  PROVE  Backed(r, t, w, id)
<1>1. \A q \in Replica : VotesOf(r, s, w, q) \subseteq VotesOf(r, t, w, q)
  BY DEF Keeps, VotesOf
<1> QED
  BY <1>1, BackedMore

\* What was offered stays so.
LEMMA KeepsOffered ==
  ASSUME NEW r \in Replica, NEW s, NEW w, NEW t, Keeps(r, s, w, t)
  PROVE  /\ \A b : Offered(r, s, w, b) => Offered(r, t, w, b)
         /\ \A m \in Message : Sound(r, s, w, m) => Sound(r, t, w, m)
<1>1. /\ \A q \in Replica : VotesOf(r, s, w, q) \subseteq VotesOf(r, t, w, q)
      /\ MadeOf(s, w) \subseteq MadeOf(t, w)
  BY DEF Keeps, VotesOf, MadeOf
<1> QED
  BY <1>1, OfferedMore

\* What q has voted for stays so.
LEMMA KeepsVotes ==
  ASSUME NEW r \in Replica, NEW s, NEW w, NEW t, Keeps(r, s, w, t), NEW q
  PROVE  VotesOf(r, s, w, q) \subseteq VotesOf(r, t, w, q)
BY DEF Keeps, VotesOf

-----------------------------------------------------------------------------
(* What both protocols do. *)

\* The states of the two protocols have different fields.
LEMMA StatesDiffer == \A s : ~(s \in HS!State /\ s \in SL!State)
<1> SUFFICES ASSUME NEW s, s \in HS!State, s \in SL!State PROVE FALSE
  OBVIOUS
<1>1. "highQC" \in DOMAIN s
  BY DEF HS!State
<1>2. "highQC" \notin DOMAIN s
  BY DEF SL!State
<1> QED
  BY <1>1, <1>2

\* What the invariants say of HotStuff states is unchanged,
HSame(s, t) ==
  /\ s \in HS!State /\ t \in HS!State
  /\ t.curView = s.curView /\ t.newViewChan = s.newViewChan /\ t.votes = s.votes
  /\ t.bufferedBlocks = s.bufferedBlocks /\ t.bc = s.bc /\ t.out = s.out
  /\ t.proposed = s.proposed /\ t.voted = s.voted /\ t.committed = s.committed
  /\ t.bufferedQCs = s.bufferedQCs /\ t.highQC = s.highQC /\ t.halted = s.halted

\* and of Streamlet states too.
SSame(s, t) ==
  /\ s \in SL!State /\ t \in SL!State
  /\ t.curView = s.curView /\ t.newViewChan = s.newViewChan /\ t.votes = s.votes
  /\ t.bufferedBlocks = s.bufferedBlocks /\ t.bc = s.bc /\ t.out = s.out
  /\ t.proposed = s.proposed /\ t.voted = s.voted /\ t.committed = s.committed
  /\ t.bufferedQCs = s.bufferedQCs /\ t.notarizedChain = s.notarizedChain
  /\ t.bufferedNotarizedBlock = s.bufferedNotarizedBlock

\* The store and what has been notarized are unchanged, and so is what is said of them.
LEMMA StoredSame ==
  ASSUME NEW s, NEW w, Stored(s, w), NEW t, Alike(s, t), t.bc = s.bc, t.proposed = s.proposed,
         s \in HS!State => t.halted = s.halted,
         s \in SL!State => t.notarizedChain = s.notarizedChain \/ s.bc.full # {}
  PROVE  Stored(t, w)
BY DEF Stored, Begun, MadeOf, Alike

\* It stays true when more is proposed.
LEMMA StoredMore ==
  ASSUME NEW s, NEW w, Stored(s, w), NEW t, NEW x, Alike(s, t), t.bc = s.bc,
         MadeOf(s, w) \subseteq MadeOf(t, x),
         s \in HS!State => t.halted = s.halted,
         s \in SL!State => t.notarizedChain = s.notarizedChain
  PROVE  Stored(t, x)
<1>1. StoreOf(t.bc, MadeOf(t, x))
  BY DEF Stored, StoreOf
<1>2. t \in SL!State => Begun(t, x)
  BY DEF Stored, Begun, Alike
<1> QED
  BY <1>1, <1>2 DEF Stored, Alike

\* Then it is a good state.
LEMMA KeepsIfSame ==
  ASSUME NEW r \in Replica, NEW s, NEW w, Good(r, s, w), NEW t,
         s \in HS!State => HSame(s, t), s \in SL!State => SSame(s, t)
  PROVE  Keeps(r, s, w, t)
<1>1. CASE s \in HS!State
  <2>1. HSame(s, t) /\ s \notin SL!State /\ t \notin SL!State
    BY <1>1, StatesDiffer DEF HSame
  <2>2. Stored(t, w)
    BY <1>1, <2>1, StoredSame DEF HSame, Good, Alike
  <2> QED
    BY <1>1, <2>1, <2>2, GoodChange DEF HSame, Change, Alike, Finite, Good, Paced
<1>2. CASE s \in SL!State
  <2>1. SSame(s, t) /\ s \notin HS!State /\ t \notin HS!State
    BY <1>2, StatesDiffer DEF SSame
  <2>2. SL!Certificates(t) = SL!Certificates(s)
    BY <2>1 DEF SL!Certificates, SSame
  <2>3. Stored(t, w)
    BY <1>2, <2>1, StoredSame DEF SSame, Good, Alike
  <2> QED
    BY <1>2, <2>1, <2>2, <2>3, GoodChange DEF SSame, Change, Alike, Finite, Good, Paced
<1> QED
  BY <1>1, <1>2 DEF Good

\* Fields that no invariant is about
LEMMA SetOther ==
  ASSUME NEW r \in Replica, NEW s, NEW w, Good(r, s, w), NEW t,
         \/ \E x \in SUBSET (Nat \X Replica) : t = [s EXCEPT !.timeouts = x]
         \/ \E x \in SUBSET Block : t = [s EXCEPT !.echoedBlock = x]
         \/ \E x \in BOOLEAN : s \in SL!State /\ t = [s EXCEPT !.halted = x]
         \/ \E x \in View : s \in HS!State /\ t = [s EXCEPT !.preferredView = x]
         \/ \E x \in SUBSET Nat : s \in SL!State /\ t = [s EXCEPT !.advancing = x]
  PROVE  Keeps(r, s, w, t)
<1> USE Names
<1>1. CASE \E x \in SUBSET (Nat \X Replica) : t = [s EXCEPT !.timeouts = x]
  <2>1. s \in HS!State => HSame(s, t)
    BY <1>1 DEF HS!State, HSame
  <2>2. s \in SL!State => SSame(s, t)
    BY <1>1 DEF SL!State, SSame
  <2> QED
    BY <2>1, <2>2, KeepsIfSame
<1>2. CASE \E x \in SUBSET Block : t = [s EXCEPT !.echoedBlock = x]
  <2>1. s \in HS!State => HSame(s, t)
    BY <1>2 DEF HS!State, HSame
  <2>2. s \in SL!State => SSame(s, t)
    BY <1>2 DEF SL!State, SSame
  <2> QED
    BY <2>1, <2>2, KeepsIfSame
<1>3. CASE \E x \in BOOLEAN : s \in SL!State /\ t = [s EXCEPT !.halted = x]
  <2>1. SSame(s, t)
    BY ZenonT(40), <1>3 DEF SL!State, SSame
  <2> QED
    BY <2>1, KeepsIfSame, StatesDiffer DEF SSame
<1>4. CASE \E x \in View : s \in HS!State /\ t = [s EXCEPT !.preferredView = x]
  <2>1. HSame(s, t)
    BY ZenonT(40), <1>4 DEF HS!State, HSame
  <2> QED
    BY <2>1, KeepsIfSame, StatesDiffer DEF HSame
<1>5. CASE \E x \in SUBSET Nat : s \in SL!State /\ t = [s EXCEPT !.advancing = x]
  <2>1. SSame(s, t)
    BY ZenonT(40), <1>5 DEF SL!State, SSame
  <2> QED
    BY <2>1, KeepsIfSame, StatesDiffer DEF SSame
<1> QED
  BY <1>1, <1>2, <1>3, <1>4, <1>5


\* The certificates and the proposals are unchanged.
OwnSame(s, t) ==
  /\ Alike(s, t) /\ t.proposed = s.proposed
  /\ s \in HS!State => /\ t.highQC = s.highQC /\ t.bufferedQCs = s.bufferedQCs
                       /\ t.halted = s.halted
  /\ s \in SL!State => /\ t.notarizedChain = s.notarizedChain
                       /\ t.bufferedQCs = s.bufferedQCs
                       /\ t.bufferedNotarizedBlock = s.bufferedNotarizedBlock

\* Then the certificates are those of s.
LEMMA OwnSameCertificates ==
  ASSUME NEW s, NEW t, OwnSame(s, t)
  PROVE  /\ s \in SL!State => SL!Certificates(t) = SL!Certificates(s)
         /\ Finite(s) /\ t.bc = s.bc /\ t.bufferedBlocks = s.bufferedBlocks => Finite(t)
         /\ Finite(s) /\ IsFiniteSet(t.bc.full) /\ IsFiniteSet(t.bufferedBlocks) => Finite(t)
BY DEF OwnSame, Alike, Finite, SL!Certificates

\* And the store is, if it has not changed.
LEMMA OwnSameStored ==
  ASSUME NEW r, NEW s, NEW w, Good(r, s, w), NEW t, OwnSame(s, t), t.bc = s.bc
  PROVE  Stored(t, w) /\ MadeOf(t, w) = MadeOf(s, w)
BY StoredSame DEF OwnSame, Good, MadeOf

\* Votes that were cast are counted, or votes forgotten.
LEMMA SetVotes ==
  ASSUME NEW r \in Replica, NEW s, NEW w, Good(r, s, w), NEW v \in SUBSET (Block \X Replica),
         \A x \in v : x \in s.votes \/ x[1] \in VotesOf(r, s, w, x[2]),
         NEW t, t = [s EXCEPT !.votes = v]
  PROVE  Keeps(r, s, w, t)
<1>1. /\ OwnSame(s, t) /\ t.votes = v
      /\ t.curView = s.curView /\ t.newViewChan = s.newViewChan /\ t.bc = s.bc
      /\ t.bufferedBlocks = s.bufferedBlocks /\ t.out = s.out /\ t.voted = s.voted
      /\ t.committed = s.committed
  <2>1. CASE s \in HS!State
    BY <2>1, Names, StatesDiffer DEF HS!State, OwnSame, Alike
  <2>2. CASE s \in SL!State
    <3>1. /\ t \in SL!State /\ t.proposed = s.proposed
          /\ t.notarizedChain = s.notarizedChain /\ t.bufferedQCs = s.bufferedQCs
          /\ t.bufferedNotarizedBlock = s.bufferedNotarizedBlock
          /\ t.votes = v
          /\ t.curView = s.curView /\ t.newViewChan = s.newViewChan /\ t.bc = s.bc
          /\ t.bufferedBlocks = s.bufferedBlocks /\ t.out = s.out /\ t.voted = s.voted
          /\ t.committed = s.committed
      BY <2>2, Names DEF SL!State
    <3> QED
      BY <2>2, <3>1, StatesDiffer DEF OwnSame, Alike
  <2> QED
    BY <2>1, <2>2 DEF Good
<1> QED
  <2>1. Stored(t, w)
    BY <1>1, OwnSameStored
  <2> QED
    BY ZenonT(40), <1>1, <2>1, OwnSameCertificates, GoodChange
       DEF Change, Good, OwnSame, Paced, VotesOf

\* The replica votes.
LEMMA SetVoted ==
  ASSUME NEW r \in Replica, NEW s, NEW w, Good(r, s, w), NEW v \in Seq(Block),
         Range(s.voted) \subseteq Range(v),
         \A b \in Range(v) : b \in Range(s.voted) \/ Offered(r, s, w, b),
         NEW t, t = [s EXCEPT !.voted = v]
  PROVE  Keeps(r, s, w, t) /\ t.voted = v
<1>1. /\ OwnSame(s, t) /\ t.votes = s.votes
      /\ t.curView = s.curView /\ t.newViewChan = s.newViewChan /\ t.bc = s.bc
      /\ t.bufferedBlocks = s.bufferedBlocks /\ t.out = s.out /\ t.voted = v
      /\ t.committed = s.committed
  <2>1. CASE s \in HS!State
    BY <2>1, Names, StatesDiffer DEF HS!State, OwnSame, Alike
  <2>2. CASE s \in SL!State
    <3>1. /\ t \in SL!State /\ t.proposed = s.proposed
          /\ t.notarizedChain = s.notarizedChain /\ t.bufferedQCs = s.bufferedQCs
          /\ t.bufferedNotarizedBlock = s.bufferedNotarizedBlock
          /\ t.votes = s.votes
          /\ t.curView = s.curView /\ t.newViewChan = s.newViewChan /\ t.bc = s.bc
          /\ t.bufferedBlocks = s.bufferedBlocks /\ t.out = s.out /\ t.voted = v
          /\ t.committed = s.committed
      BY <2>2, Names DEF SL!State
    <3> QED
      BY <2>2, <3>1, StatesDiffer DEF OwnSame, Alike
  <2> QED
    BY <2>1, <2>2 DEF Good
<1>2. \A q \in Replica : VotesOf(r, s, w, q) \subseteq VotesOf(r, t, w, q)
  BY <1>1 DEF VotesOf
<1>3. Stored(t, w) /\ MadeOf(t, w) = MadeOf(s, w)
  BY <1>1, OwnSameStored
<1>4. \A b : Offered(r, s, w, b) => Offered(r, t, w, b)
  BY <1>2, <1>3, OfferedMore
<1> QED
  BY <1>1, <1>3, <1>4, OwnSameCertificates, GoodChange DEF Change, Good, OwnSame, Paced

\* Sound messages are sent.
LEMMA SetOut ==
  ASSUME NEW r \in Replica, NEW s, NEW w, Good(r, s, w), NEW o \in [Replica -> Seq(Message)],
         \A q \in Replica : \A i \in DOMAIN o[q] :
           \/ \E j \in DOMAIN s.out[q] : o[q][i] = s.out[q][j]
           \/ Sound(r, s, w, o[q][i]),
         NEW t, t = [s EXCEPT !.out = o]
  PROVE  Keeps(r, s, w, t)
<1>1. /\ OwnSame(s, t) /\ t.votes = s.votes
      /\ t.curView = s.curView /\ t.newViewChan = s.newViewChan /\ t.bc = s.bc
      /\ t.bufferedBlocks = s.bufferedBlocks /\ t.out = o /\ t.voted = s.voted
      /\ t.committed = s.committed
  <2>1. CASE s \in HS!State
    BY <2>1, Names, StatesDiffer DEF HS!State, OwnSame, Alike
  <2>2. CASE s \in SL!State
    <3>1. /\ t \in SL!State /\ t.proposed = s.proposed
          /\ t.notarizedChain = s.notarizedChain /\ t.bufferedQCs = s.bufferedQCs
          /\ t.bufferedNotarizedBlock = s.bufferedNotarizedBlock
          /\ t.votes = s.votes
          /\ t.curView = s.curView /\ t.newViewChan = s.newViewChan /\ t.bc = s.bc
          /\ t.bufferedBlocks = s.bufferedBlocks /\ t.out = o /\ t.voted = s.voted
          /\ t.committed = s.committed
      BY <2>2, Names DEF SL!State
    <3> QED
      BY <2>2, <3>1, StatesDiffer DEF OwnSame, Alike
  <2> QED
    BY <2>1, <2>2 DEF Good
<1>5. Stored(t, w) /\ MadeOf(t, w) = MadeOf(s, w)
  BY <1>1, OwnSameStored
<1>6. \A q \in Replica : VotesOf(r, s, w, q) \subseteq VotesOf(r, t, w, q)
  BY <1>1 DEF VotesOf
<1>2. \A m \in Message : Sound(r, s, w, m) => Sound(r, t, w, m)
  BY <1>5, <1>6, OfferedMore
<1>3. \A q \in Replica : \A i \in DOMAIN o[q] : o[q][i] \in Message
  <2> SUFFICES ASSUME NEW q \in Replica, NEW i \in DOMAIN o[q] PROVE o[q][i] \in Message
    OBVIOUS
  <2>1. o[q] \in Seq(Message)
    OBVIOUS
  <2> QED
    BY <2>1
<1>4. \A q \in Replica : \A i \in DOMAIN t.out[q] :
        \/ \E j \in DOMAIN s.out[q] : t.out[q][i] = s.out[q][j]
        \/ Sound(r, t, w, t.out[q][i])
  BY <1>1, <1>2, <1>3
<1> QED
  BY <1>1, <1>4, <1>5, OwnSameCertificates, GoodChange DEF Change, Good, OwnSame, Paced

\* A view is entered.
LEMMA SetView ==
  ASSUME NEW r \in Replica, NEW s, NEW w, Good(r, s, w), NEW v \in Nat, v > s.curView,
         NEW t, t = [s EXCEPT !.curView = v, !.newViewChan = Append(@, v)]
  PROVE  Keeps(r, s, w, t)
<1>1. Append(s.newViewChan, v) \in Seq(Nat)
  BY CommonFields DEF Good
<1>2. /\ OwnSame(s, t) /\ t.votes = s.votes
      /\ t.curView = v /\ t.newViewChan = Append(s.newViewChan, v) /\ t.bc = s.bc
      /\ t.bufferedBlocks = s.bufferedBlocks /\ t.out = s.out /\ t.voted = s.voted
      /\ t.committed = s.committed
  <2>1. CASE s \in HS!State
    BY <1>1, <2>1, Names, StatesDiffer DEF HS!State, OwnSame, Alike
  <2>2. CASE s \in SL!State
    <3>1. /\ t \in SL!State /\ t.proposed = s.proposed
          /\ t.notarizedChain = s.notarizedChain /\ t.bufferedQCs = s.bufferedQCs
          /\ t.bufferedNotarizedBlock = s.bufferedNotarizedBlock
          /\ t.votes = s.votes
          /\ t.curView = v /\ t.newViewChan = Append(s.newViewChan, v) /\ t.bc = s.bc
          /\ t.bufferedBlocks = s.bufferedBlocks /\ t.out = s.out /\ t.voted = s.voted
          /\ t.committed = s.committed
      BY <1>1, <2>2, Names DEF SL!State
    <3> QED
      BY <2>2, <3>1, StatesDiffer DEF OwnSame, Alike
  <2> QED
    BY <2>1, <2>2 DEF Good
<1>3. Stored(t, w)
  BY <1>2, OwnSameStored
<1>4. /\ s \in SL!State => SL!Certificates(t) = SL!Certificates(s)
      /\ Finite(t)
  BY <1>2, OwnSameCertificates DEF Good
<1>6. Paced(s, t)
  BY <1>2 DEF Paced
<1>5. Change(r, s, w, t)
  BY <1>2, <1>3, <1>4, <1>6 DEF Change, Good, OwnSame
<1> QED
  BY <1>5, GoodChange

\* The store of blocks changes, and blocks are committed.
LEMMA SetStore ==
  ASSUME NEW r \in Replica, NEW s, NEW w, Good(r, s, w), NEW f, StoreOf(f, MadeOf(s, w)),
         s \in SL!State /\ f.full # {} => \E b \in MadeOf(s, w) : b.height = 1,
         NEW c \in Seq(Block), \A b \in Range(c) : b \in Range(s.committed) \/ Backed(r, s, w, b),
         \/ Range(s.committed) \subseteq Range(c) /\ f.lowest = s.bc.lowest
         \/ s \in HS!State => \E b \in Range(c) : b.height = f.lowest /\ ThreeChain(r, s, w, b),
         NEW t, t = [s EXCEPT !.committed = c, !.bc = f]
  PROVE  Keeps(r, s, w, t) /\ t.bc = f
<1>1. /\ OwnSame(s, t) /\ t.votes = s.votes
      /\ t.curView = s.curView /\ t.newViewChan = s.newViewChan /\ t.bc = f
      /\ t.bufferedBlocks = s.bufferedBlocks /\ t.out = s.out /\ t.voted = s.voted
      /\ t.committed = c
  <2> f \in Forest
    BY DEF StoreOf
  <2>1. CASE s \in HS!State
    BY <2>1, Names, StatesDiffer DEF HS!State, OwnSame, Alike
  <2>2. CASE s \in SL!State
    <3>1. /\ t \in SL!State /\ t.proposed = s.proposed
          /\ t.notarizedChain = s.notarizedChain /\ t.bufferedQCs = s.bufferedQCs
          /\ t.bufferedNotarizedBlock = s.bufferedNotarizedBlock
          /\ t.votes = s.votes
          /\ t.curView = s.curView /\ t.newViewChan = s.newViewChan /\ t.bc = f
          /\ t.bufferedBlocks = s.bufferedBlocks /\ t.out = s.out /\ t.voted = s.voted
          /\ t.committed = c
      BY <2>2, Names DEF SL!State
    <3> QED
      BY <2>2, <3>1, StatesDiffer DEF OwnSame, Alike
  <2> QED
    BY <2>1, <2>2 DEF Good
<1>2. Finite(t)
  <2>1. IsFiniteSet(f.full)
    BY DEF StoreOf
  <2> QED
    BY <1>1, <2>1, OwnSameCertificates DEF Good, Finite
<1>6. Stored(t, w)
  <2>1. Stored(s, w) /\ MadeOf(t, w) = MadeOf(s, w)
    BY <1>1 DEF Good, OwnSame, MadeOf
  <2> QED
    BY <1>1, <2>1 DEF Stored, Begun, OwnSame, Alike
<1>3. \A q \in Replica : VotesOf(r, s, w, q) \subseteq VotesOf(r, t, w, q)
  BY <1>1 DEF VotesOf
<1>4. /\ \A id : Backed(r, s, w, id) => Backed(r, t, w, id)
      /\ \A b : ThreeChain(r, s, w, b) => ThreeChain(r, t, w, b)
  BY <1>3, BackedMore, ChainMore
<1>5. \/ Range(s.committed) \subseteq Range(t.committed) /\ t.bc.lowest = s.bc.lowest
      \/ t \in HS!State => LastCommit(r, t, w)
  BY <1>1, <1>4 DEF LastCommit, OwnSame, Alike
<1> QED
  BY <1>1, <1>2, <1>4, <1>5, <1>6, OwnSameCertificates, GoodChange
     DEF Change, Good, OwnSame, Paced

\* Blocks are buffered, or taken from the buffer.
LEMMA SetBuffered ==
  ASSUME NEW r \in Replica, NEW s, NEW w, Good(r, s, w), NEW B \in SUBSET Block, IsFiniteSet(B),
         \A b \in B : b \in s.bufferedBlocks \/ Offered(r, s, w, b),
         NEW t, t = [s EXCEPT !.bufferedBlocks = B]
  PROVE  Keeps(r, s, w, t)
<1>1. /\ OwnSame(s, t) /\ t.votes = s.votes
      /\ t.curView = s.curView /\ t.newViewChan = s.newViewChan /\ t.bc = s.bc
      /\ t.bufferedBlocks = B /\ t.out = s.out /\ t.voted = s.voted
      /\ t.committed = s.committed
  <2>1. CASE s \in HS!State
    BY <2>1, Names, StatesDiffer DEF HS!State, OwnSame, Alike
  <2>2. CASE s \in SL!State
    <3>1. /\ t \in SL!State /\ t.proposed = s.proposed
          /\ t.notarizedChain = s.notarizedChain /\ t.bufferedQCs = s.bufferedQCs
          /\ t.bufferedNotarizedBlock = s.bufferedNotarizedBlock
          /\ t.votes = s.votes
          /\ t.curView = s.curView /\ t.newViewChan = s.newViewChan /\ t.bc = s.bc
          /\ t.bufferedBlocks = B /\ t.out = s.out /\ t.voted = s.voted
          /\ t.committed = s.committed
      BY <2>2, Names DEF SL!State
    <3> QED
      BY <2>2, <3>1, StatesDiffer DEF OwnSame, Alike
  <2> QED
    BY <2>1, <2>2 DEF Good
<1>4. Stored(t, w) /\ MadeOf(t, w) = MadeOf(s, w)
  BY <1>1, OwnSameStored
<1>5. \A q \in Replica : VotesOf(r, s, w, q) \subseteq VotesOf(r, t, w, q)
  BY <1>1 DEF VotesOf
<1>2. \A b : Offered(r, s, w, b) => Offered(r, t, w, b)
  BY <1>4, <1>5, OfferedMore
<1>3. Finite(t)
  BY <1>1, OwnSameCertificates DEF Good, Finite
<1> QED
  BY <1>1, <1>2, <1>3, <1>4, OwnSameCertificates, GoodChange DEF Change, Good, OwnSame, Paced


-----------------------------------------------------------------------------
(* The operations that both protocols use. *)

\* The number of elements does not depend on who counts.
LEMMA SameCardinality == \A S : HS!Cardinality(S) = Cardinality(S) /\ SL!Cardinality(S) = Cardinality(S)
BY DEF HS!Cardinality, SL!Cardinality, Cardinality

\* They are the same ones.
LEMMA SameOperations ==
  /\ \A id : HS!HeightOf(id) = HeightOf(id) /\ SL!HeightOf(id) = HeightOf(id)
  /\ \A v : HS!Leader(v) = Leader(v) /\ SL!Leader(v) = Leader(v)
  /\ \A f, id : HS!HasVertex(f, id) = HasVertex(f, id) /\ SL!HasVertex(f, id) = HasVertex(f, id)
  /\ \A f, id : HS!HasParent(f, id) = HasParent(f, id)
  /\ \A b : HS!BlockMsg(b) = BlockMsg(b) /\ SL!BlockMsg(b) = BlockMsg(b)
  /\ \A b, q : HS!VoteMsg(b, q) = VoteMsg(b, q) /\ SL!VoteMsg(b, q) = VoteMsg(b, q)
  /\ \A v, c : HS!TmoMsg(v, c) = TmoMsg(v, c) /\ SL!TmoMsg(v, c) = TmoMsg(v, c)
  /\ \A s, v : HS!AdvanceView(s, v) = AdvanceView(s, v) /\ SL!AdvanceView(s, v) = AdvanceView(s, v)
  /\ \A s, q, m : HS!Send(s, q, m) = Send(s, q, m)
  /\ \A r, s, m : HS!Broadcast(r, s, m) = Broadcast(r, s, m) /\ SL!Broadcast(r, s, m) = Broadcast(r, s, m)
  /\ \A r, s, b, m : HS!Echo(r, s, b, m) = Echo(r, s, b, m) /\ SL!Echo(r, s, b, m) = Echo(r, s, b, m)
  /\ \A s, b : HS!Remember(s, b) = Remember(s, b) /\ SL!Remember(s, b) = Remember(s, b)
<1> USE DEF HS!HeightOf, SL!HeightOf, HeightOf, HS!Leader, SL!Leader, Leader, HS!HasVertex,
     SL!HasVertex, HasVertex, HS!HasParent, HasParent, HS!BlockMsg, SL!BlockMsg, BlockMsg,
     HS!VoteMsg, SL!VoteMsg, VoteMsg, HS!TmoMsg, SL!TmoMsg, TmoMsg, HS!AdvanceView,
     SL!AdvanceView, AdvanceView, HS!Send, Send, HS!Broadcast, SL!Broadcast, Broadcast,
     HS!Replica, SL!Replica, Replica, HS!Echo, SL!Echo, Echo, HS!Remember, SL!Remember, Remember,
     HS!Range, SL!Range, Range
<1> QED
  OBVIOUS

\* Voting, committing and timeouts too.
LEMMA SameCounting ==
  /\ \A s, b, q : HS!AddVote(s, b, q) = AddVote(s, b, q) /\ SL!AddVote(s, b, q) = AddVote(s, b, q)
  /\ \A s, v, q : HS!AcceptTmo(s, v, q) = AcceptTmo(s, v, q) /\ SL!AcceptTmo(s, v, q) = AcceptTmo(s, v, q)
<1>1. \A S : HS!superMajority(S) = superMajority(S) /\ SL!superMajority(S) = superMajority(S)
  BY SameCardinality DEF HS!superMajority, SL!superMajority, superMajority
<1>2. \A s, b : HS!Votes(s, b) = Votes(s, b) /\ SL!Votes(s, b) = Votes(s, b)
  BY Names DEF HS!Votes, SL!Votes, Votes
<1>3. \A s, v : HS!Timeouts(s, v) = Timeouts(s, v) /\ SL!Timeouts(s, v) = Timeouts(s, v)
  BY Names DEF HS!Timeouts, SL!Timeouts, Timeouts
<1>4. \A s, b, q : HS!AddVote(s, b, q) = AddVote(s, b, q) /\ SL!AddVote(s, b, q) = AddVote(s, b, q)
  BY <1>1, <1>2 DEF HS!AddVote, SL!AddVote, AddVote
<1>5. \A s, v, q : HS!AddTmo(s, v, q) = AddTmo(s, v, q) /\ SL!AddTmo(s, v, q) = AddTmo(s, v, q)
  BY <1>1, <1>3 DEF HS!AddTmo, SL!AddTmo, AddTmo, HS!NoTC, SL!NoTC, NoTC
<1> QED
  BY <1>4, <1>5 DEF HS!AcceptTmo, SL!AcceptTmo, AcceptTmo, HS!NoTC, SL!NoTC, NoTC

\* And the store of blocks
LEMMA SameStore ==
  /\ \A f, b, l : HS!AddVertex(f, b, l) = AddVertex(f, b, l) /\ SL!AddVertex(f, b, l) = AddVertex(f, b, l)
  /\ \A s, b : HS!CanCommit(s, b) = CanCommit(s, b) /\ SL!CanCommit(s, b) = CanCommit(s, b)
  /\ \A f, b : /\ HS!CommittedBlocks(f, b) = CommittedBlocks(f, b)
               /\ SL!CommittedBlocks(f, b) = CommittedBlocks(f, b)
  /\ \A f, l : /\ HS!PruneUpToLevel(f, l) = PruneUpToLevel(f, l)
               /\ SL!PruneUpToLevel(f, l) = PruneUpToLevel(f, l)
  /\ \A f, l : /\ HS!PruneReturns(f, l) = PruneReturns(f, l)
               /\ SL!PruneReturns(f, l) = PruneReturns(f, l)
<1>1. \A f, L : HS!ContainersAt(f, L) = ContainersAt(f, L) /\ SL!ContainersAt(f, L) = ContainersAt(f, L)
  BY DEF HS!ContainersAt, SL!ContainersAt, ContainersAt, HS!Range, SL!Range, Range
<1>2. HS!Level = Level /\ SL!Level = Level
  BY DEF HS!Level, SL!Level, Level
<1>3. \A f, id, l :
        /\ HS!getOrCreateVertexContainer(f, id, l) = getOrCreateVertexContainer(f, id, l)
        /\ SL!getOrCreateVertexContainer(f, id, l) = getOrCreateVertexContainer(f, id, l)
  BY <1>1, <1>2 DEF HS!getOrCreateVertexContainer, SL!getOrCreateVertexContainer,
     getOrCreateVertexContainer
<1>4. \A f, id : HS!ContainerLevel(f, id) = ContainerLevel(f, id)
                 /\ SL!ContainerLevel(f, id) = ContainerLevel(f, id)
  BY <1>2 DEF HS!ContainerLevel, SL!ContainerLevel, ContainerLevel, HS!Range, SL!Range, Range
<1>5. \A f, b, l : /\ HS!registerWithParent(f, b, l) = registerWithParent(f, b, l)
                   /\ SL!registerWithParent(f, b, l) = registerWithParent(f, b, l)
  BY <1>3, <1>4 DEF HS!registerWithParent, SL!registerWithParent, registerWithParent
<1>6. \A f, b, l : HS!AddVertex(f, b, l) = AddVertex(f, b, l) /\ SL!AddVertex(f, b, l) = AddVertex(f, b, l)
  BY <1>3, <1>5, SameOperations DEF HS!AddVertex, SL!AddVertex, AddVertex
<1>7. \A s, b : HS!CanCommit(s, b) = CanCommit(s, b) /\ SL!CanCommit(s, b) = CanCommit(s, b)
  BY SameOperations DEF HS!CanCommit, SL!CanCommit, CanCommit
<1>8. \A b : HS!Ancestors(b) = Ancestors(b) /\ SL!Ancestors(b) = Ancestors(b)
  BY DEF HS!Ancestors, SL!Ancestors, Ancestors, HS!Parent, SL!Parent, Parent
<1>9. \A f, b : /\ HS!CommittedBlocks(f, b) = CommittedBlocks(f, b)
                /\ SL!CommittedBlocks(f, b) = CommittedBlocks(f, b)
  <2> SUFFICES ASSUME NEW f, NEW b
               PROVE  /\ HS!CommittedBlocks(f, b) = CommittedBlocks(f, b)
                      /\ SL!CommittedBlocks(f, b) = CommittedBlocks(f, b)
    OBVIOUS
  <2> DEFINE a == Ancestors(b)
             T == {k \in 1 .. Cardinality(f.full) :
                     \A i \in 0 .. k - 1 : HasVertex(f, a[i]) /\ a[i].height > f.lowest}
  <2>1. CommittedBlocks(f, b) = [i \in 1 .. Cardinality(T) |-> a[i - 1]]
    BY DEF CommittedBlocks
  <2>2. HS!CommittedBlocks(f, b) = [i \in 1 .. Cardinality(T) |-> a[i - 1]]
    BY <1>8, SameOperations, SameCardinality DEF HS!CommittedBlocks
  <2>3. SL!CommittedBlocks(f, b) = [i \in 1 .. Cardinality(T) |-> a[i - 1]]
    BY <1>8, SameOperations, SameCardinality DEF SL!CommittedBlocks
  <2> QED
    BY <2>1, <2>2, <2>3
<1>10. \A f, l : /\ HS!PruneUpToLevel(f, l) = PruneUpToLevel(f, l)
                 /\ SL!PruneUpToLevel(f, l) = PruneUpToLevel(f, l)
  BY <1>1, <1>2 DEF HS!PruneUpToLevel, SL!PruneUpToLevel, PruneUpToLevel
<1>11. \A f, l : /\ HS!PruneReturns(f, l) = PruneReturns(f, l)
                 /\ SL!PruneReturns(f, l) = PruneReturns(f, l)
  BY DEF HS!PruneReturns, SL!PruneReturns, PruneReturns, HS!PruneStep, SL!PruneStep, PruneStep,
     HS!Panic, SL!Panic, Panic, HS!Over, SL!Over, Over, HS!HasVertex, SL!HasVertex, HasVertex
<1> QED
  BY <1>6, <1>7, <1>9, <1>10, <1>11


-----------------------------------------------------------------------------
(* What they keep. *)

\* AdvanceView enters a later view, or none.
LEMMA AdvanceKeeps ==
  ASSUME NEW r \in Replica, NEW s, NEW w, Good(r, s, w), NEW v \in Nat
  PROVE  Keeps(r, s, w, AdvanceView(s, v))
<1>1. s.curView \in Nat
  BY CommonFields DEF Good
<1>2. CASE v < s.curView
  BY <1>2, KeepsSame DEF AdvanceView
<1>3. CASE ~(v < s.curView)
  <2>1. v + 1 \in Nat /\ v + 1 > s.curView
    BY <1>1, <1>3
  <2>2. AdvanceView(s, v) = [s EXCEPT !.curView = v + 1, !.newViewChan = Append(@, v + 1)]
    BY <1>3 DEF AdvanceView
  <2> QED
    BY <2>1, <2>2, SetView
<1> QED
  BY <1>2, <1>3

\* What m asks for is there.
LEMMA SendKeeps ==
  ASSUME NEW r \in Replica, NEW s, NEW w, Good(r, s, w), NEW m \in Message, Sound(r, s, w, m)
  PROVE  /\ \A q \in Replica : Keeps(r, s, w, Send(s, q, m))
         /\ Keeps(r, s, w, Broadcast(r, s, m))
<1>1. s.out \in [Replica -> Seq(Message)]
  BY CommonFields DEF Good
<1>2. ASSUME NEW q \in Replica, NEW o, o = Append(s.out[q], m)
      PROVE  /\ o \in Seq(Message)
             /\ \A i \in DOMAIN o : \/ \E j \in DOMAIN s.out[q] : o[i] = s.out[q][j]
                                    \/ o[i] = m
  <2>1. s.out[q] \in Seq(Message)
    BY <1>1
  <2> QED
    BY <1>2, <2>1
<1>3. ASSUME NEW q \in Replica PROVE Keeps(r, s, w, Send(s, q, m))
  <2> DEFINE o == [s.out EXCEPT ![q] = Append(s.out[q], m)]
  <2>1. o \in [Replica -> Seq(Message)]
    BY <1>1, <1>2
  <2>2. \A p \in Replica : \A i \in DOMAIN o[p] :
           \/ \E j \in DOMAIN s.out[p] : o[p][i] = s.out[p][j]
           \/ Sound(r, s, w, o[p][i])
    <3> TAKE p \in Replica
    <3>1. CASE p = q
      BY <1>1, <1>2, <3>1
    <3>2. CASE p # q
      BY <1>1, <3>2
    <3> QED
      BY <3>1, <3>2
  <2>3. Send(s, q, m) = [s EXCEPT !.out = o]
    <3>1. CASE s \in HS!State
      BY <3>1 DEF Send, HS!State
    <3>2. CASE s \in SL!State
      BY <3>2 DEF Send, SL!State
    <3> QED
      BY <3>1, <3>2 DEF Good
  <2> HIDE DEF o
  <2> QED
    BY <2>1, <2>2, <2>3, SetOut
<1>4. Keeps(r, s, w, Broadcast(r, s, m))
  <2> DEFINE o == [q \in Replica |-> IF q = r THEN s.out[q] ELSE Append(s.out[q], m)]
  <2>1. o \in [Replica -> Seq(Message)]
    BY <1>1, <1>2
  <2>2. \A p \in Replica : \A i \in DOMAIN o[p] :
           \/ \E j \in DOMAIN s.out[p] : o[p][i] = s.out[p][j]
           \/ Sound(r, s, w, o[p][i])
    <3> TAKE p \in Replica
    <3>1. CASE p = r
      BY <1>1, <3>1
    <3>2. CASE p # r
      BY <1>1, <1>2, <3>2
    <3> QED
      BY <3>1, <3>2
  <2>3. Broadcast(r, s, m) = [s EXCEPT !.out = o]
    <3>1. CASE s \in HS!State
      BY <3>1 DEF Broadcast, HS!State
    <3>2. CASE s \in SL!State
      BY <3>2 DEF Broadcast, SL!State
    <3> QED
      BY <3>1, <3>2 DEF Good
  <2> HIDE DEF o
  <2> QED
    BY <2>1, <2>2, <2>3, SetOut
<1> QED
  BY <1>3, <1>4

\* What is echoed is sound.
LEMMA EchoKeeps ==
  ASSUME NEW r \in Replica, NEW s, NEW w, Good(r, s, w), NEW b \in Block,
         NEW m \in Message, Sound(r, s, w, m)
  PROVE  Keeps(r, s, w, Echo(r, s, b, m))
<1>1. CASE b \in s.echoedBlock
  BY <1>1, KeepsSame DEF Echo
<1>2. CASE b \notin s.echoedBlock
  <2> DEFINE t == [s EXCEPT !.echoedBlock = @ \cup {b}]
  <2>1. s.echoedBlock \cup {b} \in SUBSET Block
    BY CommonFields DEF Good
  <2>2. Keeps(r, s, w, t)
    BY <2>1, SetOther
  <2>3. Sound(r, t, w, m)
    BY <2>2, KeepsOffered
  <2>4. Echo(r, s, b, m) = Broadcast(r, t, m)
    BY <1>2 DEF Echo
  <2> HIDE DEF t
  <2>5. Keeps(r, t, w, Broadcast(r, t, m))
    BY <2>2, <2>3, SendKeeps DEF Keeps
  <2> QED
    BY <2>2, <2>4, <2>5, KeepsThen
<1> QED
  BY <1>1, <1>2

\* The history of votes grows.
LEMMA RememberKeeps ==
  ASSUME NEW r \in Replica, NEW s, NEW w, Good(r, s, w), NEW b \in Block,
         Offered(r, s, w, b)
  PROVE  Keeps(r, s, w, Remember(s, b)) /\ b \in Range(Remember(s, b).voted)
<1> DEFINE v == IF b \in Range(s.voted) THEN s.voted ELSE Append(s.voted, b)
<1>1. s.voted \in Seq(Block)
  BY CommonFields DEF Good
<1>2. /\ v \in Seq(Block) /\ Range(s.voted) \subseteq Range(v) /\ b \in Range(v)
      /\ \A c \in Range(v) : c \in Range(s.voted) \/ c = b
  <2>1. CASE b \in Range(s.voted)
    BY <1>1, <2>1
  <2>2. CASE b \notin Range(s.voted)
    <3>1. Range(Append(s.voted, b)) = Range(s.voted) \cup {b}
      <4> DEFINE z == Append(s.voted, b)
                 n == Len(s.voted)
      <4>1. /\ n \in Nat /\ DOMAIN s.voted = 1..n /\ DOMAIN z = 1 .. n + 1
            /\ \A i \in 1..n : z[i] = s.voted[i]
            /\ z[n + 1] = b
        BY <1>1
      <4> HIDE DEF z, n
      <4>2. Range(s.voted) = {s.voted[i] : i \in 1..n} /\ Range(z) = {z[i] : i \in 1 .. n + 1}
        BY <4>1 DEF Range
      <4>3. \A i \in 1 .. n + 1 : i \in 1..n \/ i = n + 1
        BY <4>1
      <4>4. 1..n \subseteq 1 .. n + 1 /\ n + 1 \in 1 .. n + 1
        BY <4>1
      <4> QED
        BY <4>1, <4>2, <4>3, <4>4 DEF z
    <3> QED
      BY <1>1, <2>2, <3>1
  <2> QED
    BY <2>1, <2>2
<1>3. Remember(s, b) = [s EXCEPT !.voted = v]
  <2>1. CASE s \in HS!State
    BY <2>1 DEF Remember, HS!State
  <2>2. CASE s \in SL!State
    BY <2>2 DEF Remember, SL!State
  <2> QED
    BY <2>1, <2>2 DEF Good
<1> HIDE DEF v
<1> QED
  BY <1>2, <1>3, SetVoted


\* A super majority is more than two thirds, and so is everything larger.
LEMMA SuperMajority ==
  ASSUME NEW S \in SUBSET Replica, NEW T \in SUBSET Replica, S \subseteq T, superMajority(S)
  PROVE  3 * Cardinality(T) > 2 * N
<1>1. IsFiniteSet(T) /\ IsFiniteSet(S)
  <2>1. IsFiniteSet(Replica)
    BY NAssumption, FS_Interval DEF Replica
  <2> QED
    BY <2>1, FS_Subset
<1>2. Cardinality(S) <= Cardinality(T) /\ Cardinality(S) \in Nat /\ Cardinality(T) \in Nat
  BY <1>1, FS_Subset, FS_CardinalityType
<1> QED
  BY <1>2, NAssumption DEF superMajority

\* A vote that was cast is counted, and a certificate that is built is backed.
LEMMA AddVoteKeeps ==
  ASSUME NEW r \in Replica, NEW s, NEW w, Good(r, s, w), NEW b \in Block, NEW q \in Replica,
         b \in VotesOf(r, s, w, q), NEW x, x = AddVote(s, b, q)
  PROVE  Keeps(r, s, w, x.state) /\ (x.isBuilt => Backed(r, x.state, w, b))
<1> DEFINE v == s.votes \cup {<<b, q>>}
           t == [s EXCEPT !.votes = v]
<1>1. CASE superMajority(Votes(s, b))
  <2>1. x = [state |-> s, isBuilt |-> FALSE]
    BY <1>1 DEF AddVote
  <2> QED
    BY <2>1, KeepsSame
<1>2. CASE ~superMajority(Votes(s, b))
  <2>1. v \in SUBSET (Block \X Replica)
    BY CommonFields DEF Good
  <2>2. Keeps(r, s, w, t)
    <3>1. \A y \in v : y \in s.votes \/ y[1] \in VotesOf(r, s, w, y[2])
      OBVIOUS
    <3> HIDE DEF v
    <3> QED
      BY <2>1, <3>1, SetVotes
  <2>3. x = [state |-> t, isBuilt |-> superMajority(Votes(t, b))]
    BY <1>2 DEF AddVote
  <2> HIDE DEF t
  <2>4. ASSUME superMajority(Votes(t, b)) PROVE Backed(r, t, w, b)
    <3>1. \A p \in Replica : <<b, p>> \in t.votes => b \in VotesOf(r, t, w, p)
      BY <2>2 DEF Keeps, Good, TrustInv
    <3>2. Votes(t, b) \subseteq {p \in Replica : b \in VotesOf(r, t, w, p)}
      BY <3>1 DEF Votes
    <3>3. Votes(t, b) \in SUBSET Replica
      BY DEF Votes
    <3> QED
      BY <2>4, <3>2, <3>3, SuperMajority DEF Backed
  <2> QED
    BY <2>2, <2>3, <2>4
<1> QED
  BY <1>1, <1>2

\* A timeout is counted.
LEMMA AcceptTmoKeeps ==
  ASSUME NEW r \in Replica, NEW s, NEW w, Good(r, s, w), NEW v \in Nat, NEW q \in Replica,
         NEW x, x = AcceptTmo(s, v, q)
  PROVE  Keeps(r, s, w, x.state) /\ x.tc \in Nat
<1> DEFINE T == s.timeouts \cup {<<v, q>>}
           t == [s EXCEPT !.timeouts = T]
<1>1. T \in SUBSET (Nat \X Replica)
  BY CommonFields DEF Good
<1> HIDE DEF T
<1>2. Keeps(r, s, w, t) /\ Keeps(r, s, w, s)
  BY <1>1, SetOther, KeepsSame
<1>3. /\ x.state = s \/ x.state = t
      /\ x.tc = v \/ x.tc = 0
  BY DEF AcceptTmo, AddTmo, NoTC, T
<1> QED
  BY <1>2, <1>3

\* A block is stored.
LEMMA StoreKeeps ==
  ASSUME NEW r \in Replica, NEW s, NEW w, Good(r, s, w), NEW b \in Block, NEW l \in Level,
         Offered(r, s, w, b), l = HeightOf(b.prev) \/ HasVertex(s.bc, b.prev),
         s \in SL!State => HasVertex(s.bc, b.prev) \/ b.height = 1,
         NEW t, t = [s EXCEPT !.bc = AddVertex(@, b, l)]
  PROVE  Keeps(r, s, w, t)
<1> DEFINE f == AddVertex(s.bc, b, l)
           c == s.committed
           M == MadeOf(s, w)
<1>1. /\ c \in Seq(Block) /\ b \in M /\ IsTree(M) /\ StoreOf(s.bc, M)
      /\ s \in SL!State => Begun(s, w)
  BY CommonFields DEF Good, Stored, MadeInv, Offered
<1>2. /\ StoreOf(f, M) /\ f.lowest = s.bc.lowest
      /\ s \in SL!State /\ f.full # {} => \E d \in M : d.height = 1
  <2>1. CASE HasVertex(s.bc, b)
    <3>1. f = s.bc
      BY <2>1 DEF AddVertex
    <3> QED
      BY <1>1, <3>1 DEF Begun
  <2>2. CASE ~HasVertex(s.bc, b)
    <3>1. StoreOf(f, M) /\ f.lowest = s.bc.lowest
      <4> HIDE DEF M
      <4> QED
        BY <1>1, <2>2, StoreAdds
    <3>2. s \in SL!State => \E d \in M : d.height = 1
      BY <1>1 DEF Begun, HasVertex
    <3> QED
      BY <3>1, <3>2
  <2> QED
    BY <2>1, <2>2
<1>3. t = [s EXCEPT !.committed = c, !.bc = f]
  <2>1. CASE s \in HS!State
    BY <2>1 DEF HS!State
  <2>2. CASE s \in SL!State
    BY <2>2 DEF SL!State
  <2> QED
    BY <2>1, <2>2 DEF Good
<1> HIDE DEF f
<1> QED
  BY <1>1, <1>2, <1>3, SetStore

\* A block that is backed was offered, since those who voted for it have seen its
\* certificate: its parent is backed too.
LEMMA ParentBacked ==
  ASSUME NEW r \in Replica, NEW s, NEW w, Good(r, s, w), NEW b \in Block, Backed(r, s, w, b)
  PROVE  Offered(r, s, w, b) /\ Backed(r, s, w, b.prev)
<1> DEFINE Q == {q \in Replica : b \in VotesOf(r, s, w, q)}
<1>1. 3 * Cardinality(Q) > 2 * N
  BY BlockFields DEF Backed
<1>2. Q # {}
  <2> SUFFICES ASSUME Q = {} PROVE FALSE
    OBVIOUS
  <2> HIDE DEF Q
  <2>1. Cardinality(Q) = 0
    BY FS_EmptySet
  <2> QED
    BY <1>1, <2>1, NAssumption
<1>3. Offered(r, s, w, b)
  BY <1>2 DEF Good, TrustInv
<1> QED
  BY <1>3 DEF Offered

\* What is committed with a block that is backed is backed.
LEMMA CommittedBacked ==
  ASSUME NEW r \in Replica, NEW s, NEW w, Good(r, s, w), NEW b \in Block,
         Backed(r, s, w, b), NEW D, D = CommittedBlocks(s.bc, b)
  PROVE  /\ D \in Seq(Block)
         /\ \A c \in Range(D) : Backed(r, s, w, c)
         /\ HasVertex(s.bc, b) /\ b.height > s.bc.lowest => b \in Range(D)
<1> DEFINE a == Ancestors(b)
<1>1. IsFiniteSet(s.bc.full) /\ s.bc.full \subseteq Block
  BY CommonFields DEF Good, Finite, Forest
<1>2. PICK n \in Nat :
        /\ D = [i \in 1..n |-> a[i - 1]]
        /\ \A i \in 0 .. n - 1 : a[i] \in s.bc.full
        /\ b \in s.bc.full /\ b.height > s.bc.lowest => n > 0
  BY <1>1, CommittedAre
<1>3. a[0] = b /\ \A i \in Nat : a[i + 1] = Parent(a[i])
  BY AncestorsAre
<1> HIDE DEF a
<1> DEFINE S == {i \in Nat : i < n => Backed(r, s, w, a[i])}
<1>4. Nat \subseteq S
  <2>1. 0 \in S
    BY <1>3
  <2>2. ASSUME NEW i \in Nat, i \in S PROVE i + 1 \in S
    <3> SUFFICES ASSUME i + 1 < n PROVE Backed(r, s, w, a[i + 1])
      OBVIOUS
    <3>1. i \in 0 .. n - 1 /\ i < n
      OBVIOUS
    <3>2. a[i] \in Block /\ Backed(r, s, w, a[i])
      BY <1>1, <1>2, <2>2, <3>1
    <3>3. a[i + 1] = a[i].prev
      BY <1>3, <3>2, BlockFields DEF Parent
    <3> QED
      BY <3>2, <3>3, ParentBacked
  <2> HIDE DEF S
  <2> QED
    BY <2>1, <2>2, SetInduction
<1>5. \A i \in 1..n : i - 1 \in 0 .. n - 1 /\ i - 1 \in Nat /\ i - 1 < n
  BY <1>2
<1>6. \A i \in 1..n : D[i] \in Block /\ Backed(r, s, w, D[i])
  BY <1>1, <1>2, <1>4, <1>5
<1>7. D \in Seq(Block) /\ DOMAIN D = 1..n
  BY <1>2, <1>6
<1>8. n > 0 => D[1] = b /\ 1 \in 1..n
  BY <1>2, <1>3
<1> QED
  BY <1>2, <1>6, <1>7, <1>8 DEF Range, HasVertex

\* What is in a sequence that goes on with another one
LEMMA RangeConcat ==
  ASSUME NEW C \in Seq(Block), NEW D \in Seq(Block)
  PROVE  C \o D \in Seq(Block) /\ Range(C \o D) = Range(C) \cup Range(D)
<1> DEFINE E == C \o D
           m == Len(C)
           n == Len(D)
<1>1. /\ m \in Nat /\ n \in Nat /\ DOMAIN C = 1..m /\ DOMAIN D = 1..n
      /\ E \in Seq(Block) /\ DOMAIN E = 1 .. m + n
      /\ \A i \in 1 .. m + n : E[i] = IF i <= m THEN C[i] ELSE D[i - m]
  OBVIOUS
<1> HIDE DEF E, m, n
<1>2. Range(C) \cup Range(D) \subseteq Range(E)
  <2>1. \A i \in 1..m : i \in 1 .. m + n /\ E[i] = C[i]
    BY <1>1
  <2>2. \A i \in 1..n : i + m \in 1 .. m + n /\ E[i + m] = D[i]
    BY <1>1
  <2>3. \A i \in 1..m : C[i] \in Range(E)
    BY <1>1, <2>1 DEF Range
  <2>4. \A i \in 1..n : D[i] \in Range(E)
    BY <1>1, <2>2 DEF Range
  <2> QED
    BY <1>1, <2>3, <2>4 DEF Range
<1>3. Range(E) \subseteq Range(C) \cup Range(D)
  <2>1. \A i \in 1 .. m + n : \/ i \in 1..m /\ E[i] = C[i]
                              \/ i - m \in 1..n /\ E[i] = D[i - m]
    BY <1>1
  <2> QED
    BY <1>1, <2>1 DEF Range
<1> QED
  BY <1>1, <1>2, <1>3 DEF E

\* A block is committed with its ancestors: votes are forgotten, and levels pruned.
LEMMA CommitKeeps ==
  ASSUME NEW r \in Replica, NEW s, NEW w, Good(r, s, w), NEW b \in Block, NEW t,
         Backed(r, s, w, b), s \in HS!State => ThreeChain(r, s, w, b),
         \/ t = s
         \/ CanCommit(s, b) /\ ~PruneReturns(s.bc, b.height)
         \/ /\ CanCommit(s, b)
            /\ t = [s EXCEPT !.votes = {v \in s.votes : v[1] \notin Range(CommittedBlocks(s.bc, b))},
                             !.committed = @ \o CommittedBlocks(s.bc, b),
                             !.bc = PruneUpToLevel(@, b.height)]
  PROVE  Keeps(r, s, w, t)
<1>1. CASE t = s
  BY <1>1, KeepsSame
<1>4. /\ IsTree(MadeOf(s, w)) /\ StoreOf(s.bc, MadeOf(s, w)) /\ b \in MadeOf(s, w)
      /\ s \in SL!State => Begun(s, w)
  BY ParentBacked DEF Good, MadeInv, Stored, Offered
<1>2. CASE CanCommit(s, b) /\ ~PruneReturns(s.bc, b.height)
  BY <1>2, <1>4, PruneComesBack DEF CanCommit, HasVertex
<1>3. CASE /\ CanCommit(s, b)
           /\ t = [s EXCEPT !.votes = {v \in s.votes : v[1] \notin Range(CommittedBlocks(s.bc, b))},
                            !.committed = @ \o CommittedBlocks(s.bc, b),
                            !.bc = PruneUpToLevel(@, b.height)]
  <2> DEFINE V == {v \in s.votes : v[1] \notin Range(CommittedBlocks(s.bc, b))}
             D == CommittedBlocks(s.bc, b)
             C == s.committed \o D
             F == PruneUpToLevel(s.bc, b.height)
             u == [s EXCEPT !.votes = V]
  <2>1. s.bc \in Forest /\ IsFiniteSet(s.bc.full) /\ s.committed \in Seq(Block)
        /\ s.votes \in SUBSET (Block \X Replica) /\ s.bc.full \subseteq Block
    BY CommonFields DEF Good, Finite, Forest
  <2>2. /\ D \in Seq(Block)
        /\ \A c \in Range(D) : Backed(r, s, w, c)
        /\ b.height > s.bc.lowest => b \in Range(D)
    BY <1>3, <2>1, CommittedBacked DEF CanCommit, HasVertex
  <2> HIDE DEF D
  <2>11. C \in Seq(Block) /\ Range(C) = Range(s.committed) \cup Range(D)
    BY <2>1, <2>2, RangeConcat
  <2>3. /\ StoreOf(F, MadeOf(s, w))
        /\ s \in SL!State /\ F.full # {} => \E d \in MadeOf(s, w) : d.height = 1
    <3>1. StoreOf(F, MadeOf(s, w))
      BY <1>4, StorePrunes
    <3>2. F.full \subseteq s.bc.full
      BY DEF PruneUpToLevel
    <3> HIDE DEF F
    <3> QED
      BY <1>4, <3>1, <3>2 DEF Begun
  <2>4. V \in SUBSET (Block \X Replica) /\ V \subseteq s.votes
    BY <2>1
  <2>5. t = [s EXCEPT !.votes = V, !.committed = C, !.bc = F]
    BY <1>3 DEF D
  <2>12. \/ Range(s.committed) \subseteq Range(C) /\ F.lowest = s.bc.lowest
         \/ s \in HS!State => \E c \in Range(C) : c.height = F.lowest /\ ThreeChain(r, s, w, c)
    <3>1. F.lowest = b.height
      BY DEF PruneUpToLevel
    <3>2. b.height \in Nat /\ s.bc.lowest \in Nat /\ b.height >= s.bc.lowest
      BY <1>3, <2>1, BlockFields DEF CanCommit, Forest, Level
    <3>3. CASE b.height = s.bc.lowest
      BY <2>11, <3>1, <3>3
    <3>4. CASE b.height > s.bc.lowest
      BY <2>2, <2>11, <3>1, <3>4
    <3> QED
      BY <3>2, <3>3, <3>4
  <2> HIDE DEF V, C, F
  <2>6. Keeps(r, s, w, u)
    BY <2>4, SetVotes
  <2>7. t = [u EXCEPT !.committed = C, !.bc = F]
    <3>1. CASE s \in HS!State
      BY <2>5, <3>1 DEF HS!State
    <3>2. CASE s \in SL!State
      BY <2>5, <3>2 DEF SL!State
    <3> QED
      BY <3>1, <3>2 DEF Good
  <2> HIDE DEF u
  <2>8. Good(r, u, w) /\ (u \in HS!State <=> s \in HS!State)
    BY <2>6 DEF Keeps, Alike
  <2>13. /\ u.committed = s.committed /\ u.bc = s.bc /\ u.voted = s.voted
         /\ MadeOf(u, w) = MadeOf(s, w) /\ (u \in SL!State <=> s \in SL!State)
    <3> USE <2>6 DEF Keeps, Alike, MadeOf
    <3>1. CASE s \in HS!State
      BY <3>1 DEF HS!State, u
    <3>2. CASE s \in SL!State
      BY <3>2 DEF SL!State, u
    <3> QED
      BY <3>1, <3>2 DEF Good
  <2>14. \A q \in Replica : VotesOf(r, s, w, q) \subseteq VotesOf(r, u, w, q)
    BY <2>13 DEF VotesOf
  <2>15. /\ \A id : Backed(r, s, w, id) => Backed(r, u, w, id)
         /\ \A c : ThreeChain(r, s, w, c) => ThreeChain(r, u, w, c)
    BY <2>14, BackedMore, ChainMore
  <2>16. \A c \in Range(C) : c \in Range(u.committed) \/ Backed(r, u, w, c)
    BY <2>2, <2>11, <2>13, <2>15
  <2>17. \/ Range(u.committed) \subseteq Range(C) /\ F.lowest = u.bc.lowest
         \/ u \in HS!State => \E c \in Range(C) : c.height = F.lowest /\ ThreeChain(r, u, w, c)
    BY <2>8, <2>12, <2>13, <2>15
  <2>18. /\ StoreOf(F, MadeOf(u, w))
         /\ u \in SL!State /\ F.full # {} => \E d \in MadeOf(u, w) : d.height = 1
    BY <2>3, <2>13
  <2>9. Keeps(r, u, w, t)
    BY <2>7, <2>8, <2>11, <2>16, <2>17, <2>18, SetStore
  <2> QED
    BY <2>6, <2>9, KeepsThen
<1> QED
  BY <1>1, <1>2, <1>3


-----------------------------------------------------------------------------
(* HotStuff. *)

\* CommitBlock of HotStuff
LEMMA HSCommitKeeps ==
  ASSUME NEW r \in Replica, NEW s, NEW w, Good(r, s, w), NEW b \in Block,
         ThreeChain(r, s, w, b)
  PROVE  Keeps(r, s, w, HS!CommitBlock(s, b))
<1>1. \A S : HS!Range(S) = Range(S)
  BY DEF HS!Range, Range
<1> QED
  BY <1>1, SameStore, CommitKeeps DEF HS!CommitBlock, ThreeChain

\* The highest certificate is replaced by one that is backed, or certificates are
\* buffered and taken from the buffer.
LEMMA SetQCs ==
  ASSUME NEW r \in Replica, NEW s \in HS!State, NEW w, Good(r, s, w), NEW t,
         \/ \E c \in Identifier : Backed(r, s, w, c) /\ t = [s EXCEPT !.highQC = c]
         \/ \E Q \in SUBSET Identifier :
              /\ \A c \in Q : c \in s.bufferedQCs \/ Backed(r, s, w, c)
              /\ t = [s EXCEPT !.bufferedQCs = Q]
  PROVE  Keeps(r, s, w, t)
<1>1. /\ t \in HS!State /\ t.proposed = s.proposed /\ t.votes = s.votes
      /\ t.curView = s.curView /\ t.newViewChan = s.newViewChan /\ t.bc = s.bc
      /\ t.bufferedBlocks = s.bufferedBlocks /\ t.out = s.out /\ t.voted = s.voted
      /\ t.committed = s.committed /\ t.halted = s.halted
      /\ \A c \in t.bufferedQCs \cup {t.highQC} :
           c \in s.bufferedQCs \cup {s.highQC} \/ Backed(r, s, w, c)
  <2>1. CASE \E c \in Identifier : Backed(r, s, w, c) /\ t = [s EXCEPT !.highQC = c]
    BY ZenonT(40), <2>1, Names DEF HS!State
  <2>2. CASE \E Q \in SUBSET Identifier :
               /\ \A c \in Q : c \in s.bufferedQCs \/ Backed(r, s, w, c)
               /\ t = [s EXCEPT !.bufferedQCs = Q]
    BY ZenonT(40), <2>2, Names DEF HS!State
  <2> QED
    BY <2>1, <2>2
<1>2. \A id : Backed(r, s, w, id) => Backed(r, t, w, id)
  BY <1>1, BackedMore DEF VotesOf
<1>3. s \notin SL!State /\ t \notin SL!State
  BY <1>1, StatesDiffer
<1>5. Stored(t, w)
  BY <1>1, <1>3, StoredSame DEF Good, Alike
<1>4. Change(r, s, w, t)
  BY <1>1, <1>2, <1>3, <1>5 DEF Change, Alike, Finite, Paced, Good
<1> QED
  BY <1>4, GoodChange

\* updateHighQC
LEMMA HighQCKeeps ==
  ASSUME NEW r \in Replica, NEW s \in HS!State, NEW w, Good(r, s, w), NEW c, Backed(r, s, w, c)
  PROVE  Keeps(r, s, w, HS!updateHighQC(s, c))
BY BackedType, SetQCs, KeepsSame DEF HS!updateHighQC

\* A certificate that is backed is processed.
LEMMA HSCertificateKeeps ==
  ASSUME NEW r \in Replica, NEW s \in HS!State, NEW w, Good(r, s, w), NEW c, Backed(r, s, w, c)
  PROVE  Keeps(r, s, w, HS!processCertificate(s, c))
<1> DEFINE view == HeightOf(c)
           a == HS!updatePreferredView(s, c)
           b == AdvanceView(a, view)
           d == HS!updateHighQC(b, c)
           e == IF HS!commitRule(d.bc, c) THEN HS!CommitBlock(d, c.prev.prev) ELSE d
<1>1. c \in Identifier /\ view \in Nat
  BY BackedType, HeightType
<1>2. CASE view < s.curView
  BY <1>2, KeepsSame, SameOperations DEF HS!processCertificate
<1>3. CASE ~(view < s.curView) /\ view > 2 /\ ~HasParent(s.bc, c)
  <2> DEFINE Q == s.bufferedQCs \cup {c}
  <2>1. HS!processCertificate(s, c) = [s EXCEPT !.bufferedQCs = Q]
    BY <1>3, SameOperations DEF HS!processCertificate
  <2>2. Q \in SUBSET Identifier /\ \A x \in Q : x \in s.bufferedQCs \/ Backed(r, s, w, x)
    BY <1>1, Names DEF HS!State
  <2> HIDE DEF Q
  <2> QED
    BY <2>1, <2>2, SetQCs
<1>4. CASE ~(view < s.curView) /\ (view > 2 => HasParent(s.bc, c))
  <2>1. Keeps(r, s, w, a)
    <3>1. CASE view > 2 /\ c.prev.height > s.preferredView
      <4>1. c.prev \in Block
        BY <1>4, <3>1, CommonFields DEF HasParent, HasVertex, Forest
      <4>2. a = [s EXCEPT !.preferredView = c.prev.height]
        BY <3>1, SameOperations DEF HS!updatePreferredView
      <4> HIDE DEF a
      <4> QED
        BY <4>1, <4>2, BlockFields, SetOther
    <3>2. CASE ~(view > 2 /\ c.prev.height > s.preferredView)
      <4>1. a = s
        BY <3>2, SameOperations DEF HS!updatePreferredView
      <4> QED
        BY <4>1, KeepsSame
    <3> QED
      BY <3>1, <3>2
  <2> HIDE DEF a
  <2>2. Good(r, a, w)
    BY <2>1 DEF Keeps
  <2>3. Keeps(r, a, w, b)
    BY <1>1, <2>2, AdvanceKeeps
  <2>4. Keeps(r, s, w, b)
    BY <2>1, <2>3, KeepsThen
  <2> HIDE DEF b
  <2>5. Good(r, b, w) /\ b \in HS!State
    BY <2>4 DEF Keeps, Alike
  <2>6. Backed(r, b, w, c)
    BY <2>4, KeepsBacked
  <2>7. Keeps(r, b, w, d)
    BY <2>5, <2>6, HighQCKeeps
  <2>8. Keeps(r, s, w, d)
    BY <2>4, <2>7, KeepsThen
  <2> HIDE DEF d
  <2>9. Good(r, d, w) /\ d \in HS!State
    BY <2>8 DEF Keeps, Alike
  <2>10. Keeps(r, d, w, e)
    <3>1. CASE HS!commitRule(d.bc, c)
      <4>1. /\ c \in Block /\ c.prev \in Block /\ c.prev.prev \in Block
            /\ c.prev.height = c.prev.prev.height + 1 /\ c.height = c.prev.prev.height + 2
        <5>1. /\ c \in Block /\ c.prev \in Block /\ c.prev.prev \in Block
              /\ c.prev.prev.height + 1 = c.prev.height /\ c.prev.height + 1 = c.height
          BY <2>9, <3>1, CommonFields, SameOperations
             DEF HS!commitRule, HasParent, HasVertex, Forest
        <5>2. c.prev.prev.height \in Nat
          BY <5>1, BlockFields
        <5> QED
          BY <5>1, <5>2
      <4>2. Backed(r, d, w, c)
        BY <2>6, <2>7, KeepsBacked
      <4>3. Backed(r, d, w, c.prev)
        BY <2>9, <4>1, <4>2, ParentBacked
      <4>4. Backed(r, d, w, c.prev.prev)
        BY <2>9, <4>1, <4>3, ParentBacked
      <4>5. ThreeChain(r, d, w, c.prev.prev)
        BY <4>1, <4>2, <4>3, <4>4 DEF ThreeChain
      <4> QED
        BY <2>9, <3>1, <4>1, <4>5, HSCommitKeeps
    <3>2. CASE ~HS!commitRule(d.bc, c)
      BY <2>9, <3>2, KeepsSame
    <3> QED
      BY <3>1, <3>2
  <2>11. HS!processCertificate(s, c) = e
    BY <1>4, SameOperations DEF HS!processCertificate, HS!Then, a, b, d
  <2> HIDE DEF e
  <2> QED
    BY <2>8, <2>10, <2>11, KeepsThen
<1> QED
  BY <1>2, <1>3, <1>4


\* A vote that was cast is handled.
LEMMA HSVoteKeeps ==
  ASSUME NEW r \in Replica, NEW s \in HS!State, NEW w, Good(r, s, w), NEW b \in Block,
         NEW q \in Replica, b \in VotesOf(r, s, w, q)
  PROVE  Keeps(r, s, w, HS!ProcessVote(s, b, q))
<1> DEFINE x == AddVote(s, b, q)
           Q == x.state.bufferedQCs \cup {b}
           y == IF ~x.isBuilt THEN x.state
                ELSE IF ~HasVertex(s.bc, b) THEN [x.state EXCEPT !.bufferedQCs = Q]
                ELSE HS!processCertificate(x.state, b)
<1>1. Keeps(r, s, w, x.state) /\ (x.isBuilt => Backed(r, x.state, w, b))
  BY AddVoteKeeps
<1>2. HS!ProcessVote(s, b, q) = y
  BY SameCounting, SameOperations DEF HS!ProcessVote, HS!Then
<1> HIDE DEF x
<1>3. Good(r, x.state, w) /\ x.state \in HS!State
  BY <1>1 DEF Keeps, Alike
<1>4. CASE ~x.isBuilt
  BY <1>1, <1>2, <1>4
<1>5. CASE x.isBuilt /\ ~HasVertex(s.bc, b)
  <2>1. Q \in SUBSET Identifier /\ \A c \in Q : c \in x.state.bufferedQCs \/ Backed(r, x.state, w, c)
    BY <1>1, <1>3, <1>5, Names DEF HS!State, Identifier
  <2>2. y = [x.state EXCEPT !.bufferedQCs = Q]
    BY <1>5
  <2> HIDE DEF y, Q
  <2>3. Keeps(r, x.state, w, y)
    BY <1>3, <2>1, <2>2, SetQCs
  <2> QED
    BY <1>1, <1>2, <2>3, KeepsThen
<1>6. CASE x.isBuilt /\ HasVertex(s.bc, b)
  <2>1. y = HS!processCertificate(x.state, b)
    BY <1>6
  <2> HIDE DEF y
  <2>2. Keeps(r, x.state, w, y)
    BY <1>1, <1>3, <1>6, <2>1, HSCertificateKeeps
  <2> QED
    BY <1>1, <1>2, <2>2, KeepsThen
<1> QED
  BY <1>4, <1>5, <1>6

\* The leader of a view is a replica.
LEMMA LeaderType ==
  ASSUME NEW v \in Nat, v > 0
  PROVE  Leader(v) \in Replica
<1>1. (v - 1) % N \in 0 .. N - 1
  BY NAssumption
<1> QED
  BY <1>1, NAssumption DEF Leader, Replica

\* The replica votes.
LEMMA HSCastKeeps ==
  ASSUME NEW r \in Replica, NEW s \in HS!State, NEW w, Good(r, s, w), NEW b \in Block,
         Offered(r, s, w, b)
  PROVE  Keeps(r, s, w, HS!Vote(r, s, b))
<1> DEFINE t == Remember(s, b)
           l == Leader(b.height + 1)
           u == IF l = r THEN HS!ProcessVote(t, b, r) ELSE Send(t, l, VoteMsg(b, r))
<1>1. Keeps(r, s, w, t) /\ b \in Range(t.voted)
  BY RememberKeeps
<1>2. HS!Vote(r, s, b) = u
  BY SameOperations DEF HS!Vote, HS!Then
<1>3. l \in Replica
  BY BlockFields, LeaderType
<1> HIDE DEF t, l
<1>4. Good(r, t, w) /\ t \in HS!State /\ b \in VotesOf(r, t, w, r)
  BY <1>1 DEF Keeps, Alike, VotesOf
<1>5. VoteMsg(b, r) \in Message /\ Sound(r, t, w, VoteMsg(b, r))
  BY <1>4 DEF VoteMsg, Message, Sound
<1>6. Keeps(r, t, w, u)
  <2>1. CASE l = r
    BY <1>4, <2>1, HSVoteKeeps
  <2>2. CASE l # r
    BY <1>3, <1>4, <1>5, <2>2, SendKeeps
  <2> QED
    BY <2>1, <2>2
<1> HIDE DEF u
<1> QED
  BY <1>1, <1>2, <1>6, KeepsThen

\* The certificate in a block is processed.
LEMMA AcceptQCKeeps ==
  ASSUME NEW r \in Replica, NEW s \in HS!State, NEW w, Good(r, s, w), NEW b \in Block,
         Backed(r, s, w, b.prev)
  PROVE  Keeps(r, s, w, HS!AcceptQC(r, s, b))
<1> DEFINE t == HS!updateHighQC(s, b.prev)
           u == IF b.proposer = r THEN t ELSE HS!processCertificate(t, b.prev)
<1>1. Keeps(r, s, w, t)
  BY HighQCKeeps
<1>2. HS!AcceptQC(r, s, b) = u
  BY DEF HS!AcceptQC, HS!Then
<1> HIDE DEF t
<1>3. Good(r, t, w) /\ t \in HS!State /\ Backed(r, t, w, b.prev)
  BY <1>1, KeepsBacked DEF Keeps, Alike
<1>4. Keeps(r, t, w, u)
  BY <1>3, KeepsSame, HSCertificateKeeps
<1> HIDE DEF u
<1> QED
  BY <1>1, <1>2, <1>4, KeepsThen

\* The block is stored, and the certificate that waited for it is processed.
LEMMA HSStoreKeeps ==
  ASSUME NEW r \in Replica, NEW s \in HS!State, NEW w, Good(r, s, w), NEW b \in Block,
         Offered(r, s, w, b)
  PROVE  Keeps(r, s, w, HS!StoreBlock(r, s, b))
<1> DEFINE t == Echo(r, s, b, BlockMsg(b))
           u == [t EXCEPT !.bc = AddVertex(@, b, HeightOf(b.prev))]
           p == HS!processCertificate(u, b)
           Q == p.bufferedQCs \ {b}
           v == IF b \notin u.bufferedQCs THEN u ELSE [p EXCEPT !.bufferedQCs = Q]
<1>1. BlockMsg(b) \in Message /\ Sound(r, s, w, BlockMsg(b))
  BY DEF BlockMsg, Message, Sound
<1>2. Keeps(r, s, w, t)
  BY <1>1, EchoKeeps
<1>3. HS!StoreBlock(r, s, b) = v
  <2>1. HS!Echo(r, s, b, HS!BlockMsg(b)) = t
    BY SameOperations
  <2>2. [t EXCEPT !.bc = HS!AddVertex(@, b, HS!HeightOf(b.prev))] = u
    BY SameOperations, SameStore
  <2> HIDE DEF t, u
  <2> QED
    BY <2>1, <2>2 DEF HS!StoreBlock, HS!Then
<1> HIDE DEF t
<1>4. Good(r, t, w)
  BY <1>2 DEF Keeps
<1>9. Offered(r, t, w, b) /\ t \notin SL!State
  BY <1>2, KeepsOffered, StatesDiffer DEF Keeps, Alike
<1>5. Keeps(r, t, w, u)
  BY <1>4, <1>9, BlockFields, HeightType, StoreKeeps
<1>6. Keeps(r, s, w, u)
  BY <1>2, <1>5, KeepsThen
<1> HIDE DEF u
<1>7. Good(r, u, w) /\ u \in HS!State
  BY <1>6 DEF Keeps, Alike
<1>8. Keeps(r, u, w, v)
  <2>1. CASE b \notin u.bufferedQCs
    BY <1>7, <2>1, KeepsSame
  <2>2. CASE b \in u.bufferedQCs
    <3>1. Backed(r, u, w, b)
      BY <1>7, <2>2 DEF Good, TrustInv
    <3>2. Keeps(r, u, w, p)
      BY <1>7, <3>1, HSCertificateKeeps
    <3>3. v = [p EXCEPT !.bufferedQCs = Q]
      BY <2>2
    <3> HIDE DEF p, v
    <3>4. Good(r, p, w) /\ p \in HS!State
      BY <1>7, <3>2 DEF Keeps, Alike
    <3>5. Q \in SUBSET Identifier /\ \A c \in Q : c \in p.bufferedQCs
      BY <3>4, Names DEF HS!State
    <3> HIDE DEF Q
    <3>6. Keeps(r, p, w, v)
      BY <3>3, <3>4, <3>5, SetQCs
    <3> QED
      BY <3>2, <3>6, KeepsThen
  <2> QED
    BY <2>1, <2>2
<1> HIDE DEF v
<1> QED
  BY <1>3, <1>6, <1>8, KeepsThen


\* What HandleBlock and the iteration over the buffered blocks may return
Outcome(r, s, w) ==
  {x \in [state : HS!State, voted : SUBSET Block] : Keeps(r, s, w, x.state)}

\* A block whose certificate is backed is handled.
LEMMA HSHandleKeeps ==
  ASSUME NEW r \in Replica, NEW s \in HS!State, NEW w, Good(r, s, w), NEW b \in Block,
         Offered(r, s, w, b)
  PROVE  HS!HandleBlock(r, s, b) \in Outcome(r, s, w)
<1> DEFINE t == HS!AcceptQC(r, s, b)
           u == HS!StoreBlock(r, t, b)
           d == IF HS!votingRule(u, b) THEN [state |-> HS!Vote(r, u, b), voted |-> {b}]
                                       ELSE [state |-> u, voted |-> {}]
           x == IF b.height < t.curView \/ b.proposer # HS!Leader(b.height)
                THEN [state |-> t, voted |-> {}] ELSE d
<1>1. Keeps(r, s, w, t)
  BY AcceptQCKeeps DEF Offered
<1>2. HS!HandleBlock(r, s, b) = x
  BY DEF HS!HandleBlock, HS!Then
<1> HIDE DEF t
<1>3. Good(r, t, w) /\ t \in HS!State /\ Offered(r, t, w, b)
  BY <1>1, KeepsOffered DEF Keeps, Alike
<1>4. [state |-> t, voted |-> {}] \in Outcome(r, s, w)
  BY <1>1, <1>3 DEF Outcome
<1>5. Keeps(r, s, w, u)
  <2>1. Keeps(r, t, w, u)
    BY <1>3, HSStoreKeeps
  <2> QED
    BY <1>1, <2>1, KeepsThen
<1> HIDE DEF u
<1>6. Good(r, u, w) /\ u \in HS!State /\ Offered(r, u, w, b)
  BY <1>5, KeepsOffered DEF Keeps, Alike
<1>7. d \in Outcome(r, s, w)
  <2>1. Keeps(r, u, w, HS!Vote(r, u, b))
    BY <1>6, HSCastKeeps
  <2>2. Keeps(r, s, w, HS!Vote(r, u, b)) /\ HS!Vote(r, u, b) \in HS!State
    BY <1>5, <1>6, <2>1, KeepsThen DEF Keeps, Alike
  <2> QED
    BY <1>5, <1>6, <2>2 DEF Outcome
<1> HIDE DEF d
<1> QED
  BY <1>2, <1>4, <1>7

\* A block that arrives is buffered, or handled with the blocks that waited for it.
LEMMA HSBlockKeeps ==
  ASSUME NEW r \in Replica, NEW s \in HS!State, NEW w, Good(r, s, w), NEW b \in Block,
         Offered(r, s, w, b)
  PROVE  Keeps(r, s, w, HS!ProcessBlock(r, s, b))
<1> DEFINE Ahead(x, c) == c.height > x.curView + 1
           Buffered(x) == {c \in x.state.bufferedBlocks :
                             \E v \in x.voted : c.height = v.height + 1}
           Next1(x) == CHOOSE c \in Buffered(x) : TRUE
           Without(x) == [x.state EXCEPT !.bufferedBlocks = @ \ {Next1(x)}]
           Follow(x) ==
             IF Buffered(x) = {} \/ x.state.halted THEN x
             ELSE IF Ahead(Without(x), Next1(x)) THEN [state |-> Without(x), voted |-> {}]
             ELSE HS!HandleBlock(r, Without(x), Next1(x))
           D == Outcome(r, s, w)
           start == HS!HandleBlock(r, s, b)
           Def(f) == [n \in Nat |-> IF n = 0 THEN start ELSE HS!Then(f[n - 1], Follow)]
           after == CHOOSE f : f = Def(f)
           B == {c \in s.bufferedBlocks : c.height # b.height} \cup {b}
           k == HS!Cardinality(s.bufferedBlocks)
           u == IF Ahead(s, b) THEN [s EXCEPT !.bufferedBlocks = B] ELSE after[k].state
<1>1. ASSUME NEW x \in D PROVE Follow(x) \in D
  <2>1. /\ x.state \in HS!State /\ Keeps(r, s, w, x.state) /\ Good(r, x.state, w)
        /\ x.state.bufferedBlocks \in SUBSET Block /\ IsFiniteSet(x.state.bufferedBlocks)
    BY CommonFields DEF Outcome, Keeps, Good, Finite
  <2>2. CASE Buffered(x) = {} \/ x.state.halted
    BY <2>2
  <2>3. CASE ~(Buffered(x) = {} \/ x.state.halted)
    <3> DEFINE c == Next1(x)
               y == Without(x)
               R == x.state.bufferedBlocks \ {c}
    <3>1. c \in x.state.bufferedBlocks
      BY <2>3
    <3>2. y = [x.state EXCEPT !.bufferedBlocks = R]
      OBVIOUS
    <3>3. Follow(x) = IF Ahead(y, c) THEN [state |-> y, voted |-> {}]
                                     ELSE HS!HandleBlock(r, y, c)
      BY <2>3
    <3> HIDE DEF c
    <3>4. R \in SUBSET Block /\ IsFiniteSet(R) /\ \A d \in R : d \in x.state.bufferedBlocks
      BY <2>1, FS_Subset
    <3> HIDE DEF y, R
    <3>5. Keeps(r, x.state, w, y)
      BY <2>1, <3>2, <3>4, SetBuffered
    <3>6. /\ Good(r, y, w) /\ y \in HS!State /\ Keeps(r, s, w, y)
          /\ c \in Block /\ Offered(r, y, w, c)
      <4>1. Offered(r, x.state, w, c)
        BY <2>1, <3>1 DEF Good, TrustInv
      <4>2. Offered(r, y, w, c)
        BY <3>5, <4>1, KeepsOffered
      <4>3. Keeps(r, s, w, y)
        BY <2>1, <3>5, KeepsThen
      <4> QED
        BY <2>1, <3>1, <4>2, <4>3, <3>5 DEF Keeps, Alike
    <3>7. [state |-> y, voted |-> {}] \in D
      BY <3>6 DEF Outcome
    <3>8. HS!HandleBlock(r, y, c) \in D
      <4>1. HS!HandleBlock(r, y, c) \in Outcome(r, y, w)
        BY <3>6, HSHandleKeeps
      <4> QED
        BY <3>6, <4>1, KeepsThen DEF Outcome
    <3> QED
      BY <3>3, <3>7, <3>8
  <2> QED
    BY <2>2, <2>3
<1>2. start \in D
  BY HSHandleKeeps
<1>3. HS!ProcessBlock(r, s, b) = u
  BY DEF HS!ProcessBlock
<1>4. \A x : HS!Then(x, Follow) = Follow(x)
  BY DEF HS!Then
<1> HIDE DEF Follow, start, D
<1>5. after \in [Nat -> D]
  <2> DEFINE step == [x \in D |-> Follow(x)]
  <2>1. step \in [D -> D]
    BY <1>1
  <2>2. PICK g : IsIteration(g, D, step, start)
    <3> HIDE DEF step
    <3> QED
      BY <1>2, <2>1, IterationExists
  <2>3. /\ g \in [Nat -> D] /\ g[0] = start
        /\ \A n \in Nat : n # 0 => g[n] = Follow(g[n - 1])
    BY <2>2 DEF IsIteration
  <2>4. g = Def(g)
    BY <1>4, <2>3
  <2>5. after = Def(after)
    <3> HIDE DEF Def
    <3> QED
      BY <2>4
  <2> HIDE DEF after
  <2>6. after[0] = start /\ \A n \in Nat : after[n + 1] = Follow(after[n])
    <3>1. \A n \in Nat : after[n] = IF n = 0 THEN start ELSE Follow(after[n - 1])
      <4>1. Def(after) = [n \in Nat |-> IF n = 0 THEN start ELSE Follow(after[n - 1])]
        BY <1>4
      <4> HIDE DEF Def
      <4> QED
        BY <2>5, <4>1
    <3> QED
      BY <3>1
  <2> DEFINE S == {n \in Nat : after[n] \in D}
  <2>7. 0 \in S /\ \A n \in Nat : n \in S => n + 1 \in S
    BY <1>1, <1>2, <2>6
  <2>8. Nat \subseteq S
    <3> HIDE DEF S
    <3> QED
      BY <2>7, SetInduction
  <2>9. after = [n \in Nat |-> after[n]]
    BY <2>5
  <2> QED
    BY <2>8, <2>9
<1> HIDE DEF after
<1>6. CASE Ahead(s, b)
  <2>1. u = [s EXCEPT !.bufferedBlocks = B]
    BY <1>6
  <2>2. s.bufferedBlocks \in SUBSET Block /\ IsFiniteSet(s.bufferedBlocks)
    BY CommonFields DEF Good, Finite
  <2>3. B \in SUBSET Block /\ \A c \in B : c \in s.bufferedBlocks \/ Offered(r, s, w, c)
    BY <2>2
  <2>4. IsFiniteSet(B)
    <3>1. IsFiniteSet({c \in s.bufferedBlocks : c.height # b.height})
      BY <2>2, FS_Subset
    <3> QED
      BY <3>1, FS_AddElement
  <2> HIDE DEF B, u
  <2>5. Keeps(r, s, w, u)
    BY <2>1, <2>3, <2>4, SetBuffered
  <2> QED
    BY <1>3, <2>5
<1>7. CASE ~Ahead(s, b)
  <2>1. k \in Nat
    <3>1. IsFiniteSet(s.bufferedBlocks)
      BY DEF Good, Finite
    <3> QED
      BY <3>1, SameCardinality, FS_CardinalityType
  <2>2. after[k] \in D
    BY <1>5, <2>1
  <2>3. Keeps(r, s, w, after[k].state)
    BY <2>2 DEF D, Outcome
  <2> QED
    BY <1>3, <1>7, <2>3
<1> QED
  BY <1>6, <1>7


\* A timeout is handled, and the certificate that comes with it.
LEMMA HSRemoteTmoKeeps ==
  ASSUME NEW r \in Replica, NEW s \in HS!State, NEW w, Good(r, s, w), NEW v \in Nat,
         NEW c, Backed(r, s, w, c), NEW q \in Replica
  PROVE  Keeps(r, s, w, HS!ProcessRemoteTmo(s, v, c, q))
<1> DEFINE t == HS!processCertificate(s, c)
           x == AcceptTmo(t, v, q)
           u == IF x.isBuilt THEN HS!processTC(x.state, x.tc) ELSE x.state
<1>1. Keeps(r, s, w, t)
  BY HSCertificateKeeps
<1>2. HS!ProcessRemoteTmo(s, v, c, q) = u
  <2>1. HS!AcceptTmo(t, v, q) = x
    BY SameCounting
  <2> HIDE DEF t, x
  <2> QED
    BY <2>1 DEF HS!ProcessRemoteTmo, HS!Then, t
<1> HIDE DEF t
<1>3. Good(r, t, w)
  BY <1>1 DEF Keeps
<1>4. Keeps(r, t, w, x.state) /\ x.tc \in Nat
  BY <1>3, AcceptTmoKeeps
<1>5. Keeps(r, s, w, x.state) /\ x.tc \in Nat
  BY <1>1, <1>4, KeepsThen
<1> HIDE DEF x
<1>6. Good(r, x.state, w)
  BY <1>5 DEF Keeps
<1>7. Keeps(r, x.state, w, u)
  <2>1. HS!processTC(x.state, x.tc) = IF x.tc < x.state.curView THEN x.state
                                      ELSE AdvanceView(x.state, x.tc)
    BY SameOperations DEF HS!processTC
  <2> QED
    BY <1>5, <1>6, <2>1, KeepsSame, AdvanceKeeps
<1> HIDE DEF u
<1> QED
  BY <1>2, <1>5, <1>7, KeepsThen

\* The timer enters the next view.
LEMMA HSLocalTmoKeeps ==
  ASSUME NEW r \in Replica, NEW s \in HS!State, NEW w, Good(r, s, w)
  PROVE  Keeps(r, s, w, HS!ProcessLocalTmo(r, s))
<1> DEFINE v == s.curView + 1
           t == AdvanceView(s, s.curView)
           m == TmoMsg(v, t.highQC)
           u == Broadcast(r, t, m)
           x == HS!ProcessRemoteTmo(u, v, u.highQC, r)
<1>1. s.curView \in Nat /\ v \in Nat
  BY CommonFields DEF Good
<1>2. Keeps(r, s, w, t)
  BY <1>1, AdvanceKeeps
<1>3. HS!ProcessLocalTmo(r, s) = x
  <2>1. HS!AdvanceView(s, s.curView) = t /\ HS!Broadcast(r, t, HS!TmoMsg(v, t.highQC)) = u
    BY SameOperations
  <2> HIDE DEF t, u
  <2> QED
    BY <2>1 DEF HS!ProcessLocalTmo, HS!Then
<1> HIDE DEF t, v
<1>4. Good(r, t, w) /\ t \in HS!State /\ Backed(r, t, w, t.highQC)
  BY <1>2 DEF Keeps, Alike, Good, TrustInv
<1>5. m \in Message /\ Sound(r, t, w, m)
  BY <1>1, <1>4, BackedType DEF TmoMsg, Message, Sound
<1> HIDE DEF m
<1>6. Keeps(r, t, w, u)
  BY <1>4, <1>5, SendKeeps
<1>7. Keeps(r, s, w, u)
  BY <1>2, <1>6, KeepsThen
<1> HIDE DEF u
<1>8. Good(r, u, w) /\ u \in HS!State /\ Backed(r, u, w, u.highQC)
  BY <1>4, <1>6 DEF Keeps, Alike, Good, TrustInv
<1>9. Keeps(r, u, w, x)
  BY <1>1, <1>8, HSRemoteTmoKeeps
<1> QED
  BY <1>3, <1>7, <1>9, KeepsThen


-----------------------------------------------------------------------------
(* Streamlet. *)

\* CommitBlock of Streamlet
LEMMA SLCommitKeeps ==
  ASSUME NEW r \in Replica, NEW s \in SL!State, NEW w, Good(r, s, w), NEW b \in Block,
         Backed(r, s, w, b)
  PROVE  Keeps(r, s, w, SL!CommitBlock(s, b))
<1>1. \A S : SL!Range(S) = Range(S)
  BY DEF SL!Range, Range
<1>2. s \notin HS!State
  BY StatesDiffer
<1> QED
  BY <1>1, <1>2, SameStore, CommitKeeps DEF SL!CommitBlock

\* The notarized chain grows by a certificate that is backed, or certificates are
\* buffered and taken from a buffer.
LEMMA SetCertificates ==
  ASSUME NEW r \in Replica, NEW s \in SL!State, NEW w, Good(r, s, w), NEW t,
         \/ \E c \in Block : /\ Backed(r, s, w, c) /\ HasVertex(s.bc, c)
                             /\ t = [s EXCEPT !.notarizedChain = Append(@, c)]
         \/ \E Q \in SUBSET Block :
              /\ \A c \in Q : c \in s.bufferedQCs \/ Backed(r, s, w, c)
              /\ t = [s EXCEPT !.bufferedQCs = Q]
         \/ \E Q \in SUBSET Block :
              /\ IsFiniteSet(Q)
              /\ \A c \in Q : c \in s.bufferedNotarizedBlock \/ Backed(r, s, w, c)
              /\ t = [s EXCEPT !.bufferedNotarizedBlock = Q]
  PROVE  Keeps(r, s, w, t)
<1> DEFINE Same == /\ t \in SL!State /\ t.proposed = s.proposed /\ t.votes = s.votes
                   /\ t.curView = s.curView /\ t.newViewChan = s.newViewChan /\ t.bc = s.bc
                   /\ t.bufferedBlocks = s.bufferedBlocks /\ t.out = s.out /\ t.voted = s.voted
                   /\ t.committed = s.committed
                   /\ IsFiniteSet(t.bufferedNotarizedBlock)
                   /\ t.notarizedChain = s.notarizedChain \/ s.bc.full # {}
           Own == \A c \in SL!Certificates(t) : c \in SL!Certificates(s) \/ Backed(r, s, w, c)
<1>1. \A u : SL!Certificates(u) = Range(u.notarizedChain) \cup u.bufferedQCs
                                    \cup u.bufferedNotarizedBlock
  BY DEF SL!Certificates, SL!Range, Range
<1>2. IsFiniteSet(s.bufferedNotarizedBlock)
  BY DEF Good, Finite
<1>3. ASSUME NEW c \in Block, Backed(r, s, w, c), HasVertex(s.bc, c),
             t = [s EXCEPT !.notarizedChain = Append(@, c)]
      PROVE  Same /\ Own
  <2>1. s.notarizedChain \in Seq(Block)
    BY DEF SL!State
  <2>2. /\ t.notarizedChain = Append(s.notarizedChain, c) /\ t.bufferedQCs = s.bufferedQCs
        /\ t.bufferedNotarizedBlock = s.bufferedNotarizedBlock /\ Same
    <3> DEFINE C == Append(s.notarizedChain, c)
    <3>1. C \in Seq(Block) /\ t = [s EXCEPT !.notarizedChain = C]
      BY <1>3, <2>1
    <3> HIDE DEF C
    <3>3. s.bc.full # {}
      BY <1>3 DEF HasVertex
    <3>2. /\ t.notarizedChain = C /\ t.bufferedQCs = s.bufferedQCs
          /\ t.bufferedNotarizedBlock = s.bufferedNotarizedBlock /\ Same
      BY <1>2, <3>1, <3>3 DEF SL!State
    <3> QED
      BY <3>2 DEF C
  <2>3. \A d \in Range(Append(s.notarizedChain, c)) : d \in Range(s.notarizedChain) \/ d = c
    BY <2>1 DEF Range
  <2> QED
    BY <1>1, <1>3, <2>2, <2>3
<1>4. ASSUME NEW Q \in SUBSET Block, \A c \in Q : c \in s.bufferedQCs \/ Backed(r, s, w, c),
             t = [s EXCEPT !.bufferedQCs = Q]
      PROVE  Same /\ Own
  <2>1. /\ t.notarizedChain = s.notarizedChain /\ t.bufferedQCs = Q
        /\ t.bufferedNotarizedBlock = s.bufferedNotarizedBlock /\ Same
    BY <1>2, <1>4 DEF SL!State
  <2> QED
    BY <1>1, <1>4, <2>1
<1>5. ASSUME NEW Q \in SUBSET Block, IsFiniteSet(Q),
             \A c \in Q : c \in s.bufferedNotarizedBlock \/ Backed(r, s, w, c),
             t = [s EXCEPT !.bufferedNotarizedBlock = Q]
      PROVE  Same /\ Own
  <2>1. /\ t.notarizedChain = s.notarizedChain /\ t.bufferedQCs = s.bufferedQCs
        /\ t.bufferedNotarizedBlock = Q /\ Same
    BY <1>5 DEF SL!State
  <2> QED
    BY <1>1, <1>5, <2>1
<1>6. Same /\ Own
  BY <1>3, <1>4, <1>5
<1>7. \A id : Backed(r, s, w, id) => Backed(r, t, w, id)
  BY <1>6, BackedMore DEF VotesOf
<1>8. s \notin HS!State /\ t \notin HS!State
  BY <1>6, StatesDiffer
<1>10. Stored(t, w)
  BY <1>6, <1>8, StoredSame DEF Good, Alike
<1>9. Change(r, s, w, t)
  BY <1>6, <1>7, <1>8, <1>10 DEF Change, Alike, Finite, Paced, Good
<1> QED
  BY <1>9, GoodChange

\* A finite set is put into a sequence.
LEMMA InSequence ==
  ASSUME NEW S, IsFiniteSet(S)
  PROVE  SL!SetToSeq(S) \in Seq(S)
<1>1. PICK n \in Nat : ExistsBijection(1..n, S)
  BY FS_NatBijection
<1>2. SL!Cardinality(S) = n
  BY <1>1, FS_CountingElements, SameCardinality
<1>3. \E f \in [1..n -> S] : SL!IsInjective(f)
  BY <1>1 DEF ExistsBijection, Bijection, Injection, IsInjective, SL!IsInjective
<1>4. SL!SetToSeq(S) \in [1..n -> S]
  BY <1>2, <1>3 DEF SL!SetToSeq
<1> QED
  BY <1>4


\* The calls that the handlers make
CallName == {"block", "vote", "broadcast", "certificate", "bufferedQC", "bufferedBlock",
             "waitingBlock", "deleteBlock", "waitingQC", "deleteQC"}

\* Calls that a replica may make: a block carries a certificate that is backed, and so
\* is a certificate; the replica votes for what it has voted for.
Trusted(r, s, w) ==
  {c \in [to : CallName, block : Block] :
     /\ c.to = "block" => Offered(r, s, w, c.block)
     /\ c.to \in {"vote", "broadcast"} => c.block \in Range(s.voted)
     /\ c.to = "certificate" => Backed(r, s, w, c.block)}

\* What a handler may return: a state, and calls that may be made in it
Doing(r, s, w) ==
  {x \in [state : SL!State, calls : Seq([to : CallName, block : Block])] :
     Keeps(r, s, w, x.state) /\ x.calls \in Seq(Trusted(r, x.state, w))}

\* Calls that may be made may be made later.
LEMMA TrustedLater ==
  ASSUME NEW r \in Replica, NEW s, NEW w, NEW t, Keeps(r, s, w, t)
  PROVE  /\ Trusted(r, s, w) \subseteq Trusted(r, t, w)
         /\ Seq(Trusted(r, s, w)) \subseteq Seq(Trusted(r, t, w))
<1>1. /\ \A id : Backed(r, s, w, id) => Backed(r, t, w, id)
      /\ \A b : Offered(r, s, w, b) => Offered(r, t, w, b)
  BY KeepsBacked, KeepsOffered
<1>2. Range(s.voted) \subseteq Range(t.voted)
  BY DEF Keeps
<1>3. Trusted(r, s, w) \subseteq Trusted(r, t, w)
  BY <1>1, <1>2 DEF Trusted
<1> QED
  BY <1>3

\* A handler that returns calls that may be made
LEMMA DoKeeps ==
  ASSUME NEW r \in Replica, NEW s \in SL!State, NEW w, NEW t, Keeps(r, s, w, t),
         NEW q \in Seq(Trusted(r, t, w))
  PROVE  SL!Do(t, q) \in Doing(r, s, w)
<1>1. t \in SL!State
  BY DEF Keeps, Alike
<1>2. q \in Seq([to : CallName, block : Block])
  <2> DEFINE C == [to : CallName, block : Block]
             T == Trusted(r, t, w)
  <2>1. T \subseteq C
    BY DEF Trusted
  <2> HIDE DEF C, T
  <2>2. q \in Seq(C)
    BY <2>1 DEF T
  <2> QED
    BY <2>2 DEF C
<1> QED
  BY <1>1, <1>2 DEF SL!Do, Doing

\* A handler that returns
LEMMA ReturnKeeps ==
  ASSUME NEW r \in Replica, NEW s \in SL!State, NEW w, NEW t, Keeps(r, s, w, t)
  PROVE  SL!Return(t) \in Doing(r, s, w)
<1>1. <<>> \in Seq(Trusted(r, t, w))
  OBVIOUS
<1> QED
  BY <1>1, DoKeeps DEF SL!Return

\* A handler goes on where another one has left off.
LEMMA DoingThen ==
  ASSUME NEW r \in Replica, NEW s, NEW w, NEW t, Keeps(r, s, w, t)
  PROVE  Doing(r, t, w) \subseteq Doing(r, s, w)
BY KeepsThen DEF Doing

\* Putting a block into a map, and taking out what is under an identifier
LEMMA PutFinite ==
  ASSUME NEW M \in SUBSET Block, IsFiniteSet(M), NEW c \in Block
  PROVE  /\ SL!Put(M, c) \in SUBSET Block /\ IsFiniteSet(SL!Put(M, c))
         /\ \A d \in SL!Put(M, c) : d \in M \/ d = c
         /\ \A id : SL!Under(M, id) \subseteq M /\ IsFiniteSet(SL!Under(M, id))
<1>1. IsFiniteSet({d \in M : d.prev # c.prev})
  BY FS_Subset
<1>2. IsFiniteSet(SL!Put(M, c))
  BY <1>1, FS_AddElement DEF SL!Put
<1>3. \A id : SL!Under(M, id) \subseteq M /\ IsFiniteSet(SL!Under(M, id))
  BY FS_Subset DEF SL!Under
<1> QED
  BY <1>2, <1>3 DEF SL!Put


\* After a block has been stored it is voted for, or it waits.
LEMMA DecideKeeps ==
  ASSUME NEW r \in Replica, NEW s \in SL!State, NEW w, Good(r, s, w), NEW b \in Block,
         Offered(r, s, w, b)
  PROVE  SL!Decide(s, b) \in Doing(r, s, w)
<1> DEFINE B == SL!Put(s.bufferedBlocks, b)
           h == [s EXCEPT !.halted = TRUE]
           t == [s EXCEPT !.bufferedBlocks = B]
           u == Remember(s, b)
           q == <<SL!Call("vote", b), SL!Call("broadcast", b),
                  SL!Call("bufferedQC", b), SL!Call("bufferedBlock", b)>>
<1>1. SL!Decide(s, b) \in {SL!Return(h), SL!Return(t), SL!Do(u, q)}
  BY SameOperations DEF SL!Decide, SL!Panics
<1>2. Keeps(r, s, w, h)
  BY SetOther
<1>3. Keeps(r, s, w, t)
  <2>1. s.bufferedBlocks \in SUBSET Block /\ IsFiniteSet(s.bufferedBlocks)
    BY CommonFields DEF Good, Finite
  <2>2. B \in SUBSET Block /\ IsFiniteSet(B) /\ \A d \in B : d \in s.bufferedBlocks \/ d = b
    BY <2>1, PutFinite
  <2> HIDE DEF B
  <2> QED
    BY <2>2, SetBuffered
<1>4. Keeps(r, s, w, u) /\ b \in Range(u.voted)
  BY RememberKeeps
<1> HIDE DEF h, t, u
<1>5. q \in Seq(Trusted(r, u, w))
  <2>1. /\ SL!Call("vote", b) \in Trusted(r, u, w)
        /\ SL!Call("broadcast", b) \in Trusted(r, u, w)
        /\ SL!Call("bufferedQC", b) \in Trusted(r, u, w)
        /\ SL!Call("bufferedBlock", b) \in Trusted(r, u, w)
    BY <1>4 DEF SL!Call, Trusted, CallName
  <2> QED
    BY <2>1
<1> HIDE DEF q
<1> QED
  BY <1>1, <1>2, <1>3, <1>4, <1>5, ReturnKeeps, DoKeeps

\* A block that arrives is dropped, buffered or stored.
LEMMA SLBlockKeeps ==
  ASSUME NEW r \in Replica, NEW s \in SL!State, NEW w, Good(r, s, w), NEW b \in Block,
         Offered(r, s, w, b)
  PROVE  SL!ProcessBlock(r, s, b) \in Doing(r, s, w)
<1> DEFINE B == SL!Put(s.bufferedBlocks, b)
           p == [s EXCEPT !.bufferedBlocks = B]
           t == Echo(r, s, b, BlockMsg(b))
           u == [t EXCEPT !.bc = AddVertex(@, b, 0)]
<1> DEFINE known == HasVertex(s.bc, b.prev) \/ ~(b.height > 1)
<1>1. \/ SL!ProcessBlock(r, s, b) \in {SL!Return(s), SL!Return(p)}
      \/ known /\ SL!ProcessBlock(r, s, b) = SL!Decide(u, b)
  <2>1. SL!Echo(r, s, b, SL!BlockMsg(b)) = t
    BY SameOperations
  <2>2. [t EXCEPT !.bc = SL!AddVertex(@, b, 0)] = u
    BY SameStore
  <2> HIDE DEF t, u, p
  <2> QED
    BY <2>1, <2>2, SameOperations DEF SL!ProcessBlock, SL!Then, p
<1>2. SL!Return(s) \in Doing(r, s, w)
  BY KeepsSame, ReturnKeeps
<1>3. SL!Return(p) \in Doing(r, s, w)
  <2>1. s.bufferedBlocks \in SUBSET Block /\ IsFiniteSet(s.bufferedBlocks)
    BY CommonFields DEF Good, Finite
  <2>2. B \in SUBSET Block /\ IsFiniteSet(B) /\ \A d \in B : d \in s.bufferedBlocks \/ d = b
    BY <2>1, PutFinite
  <2> HIDE DEF B
  <2>3. Keeps(r, s, w, p)
    BY <2>2, SetBuffered
  <2> HIDE DEF p
  <2> QED
    BY <2>3, ReturnKeeps
<1>4. ASSUME known PROVE SL!Decide(u, b) \in Doing(r, s, w)
  <2>1. BlockMsg(b) \in Message /\ Sound(r, s, w, BlockMsg(b))
    BY DEF BlockMsg, Message, Sound
  <2>2. Keeps(r, s, w, t) /\ t.bc = s.bc
    <3>1. t.bc = s.bc
      BY DEF Echo, Broadcast, SL!State
    <3> QED
      BY <2>1, <3>1, EchoKeeps
  <2> HIDE DEF t
  <2>3. Good(r, t, w) /\ t \in SL!State /\ Offered(r, t, w, b)
    BY <2>2, KeepsOffered DEF Keeps, Alike
  <2>4. 0 \in Level
    BY BlockAssumption DEF Level
  <2>9. \/ HasVertex(t.bc, b.prev)
        \/ b.height = 1 /\ HeightOf(b.prev) = 0
    <3>1. CASE HasVertex(s.bc, b.prev)
      BY <2>2, <3>1
    <3>2. CASE ~(b.height > 1)
      <4>1. b.height = 1
        BY <3>2, BlockFields
      <4>2. b.prev = Genesis
        BY <2>3, <4>1 DEF Good, MadeInv, Offered
      <4> QED
        BY <4>1, <4>2 DEF HeightOf
    <3> QED
      BY <1>4, <3>1, <3>2
  <2>5. Keeps(r, t, w, u)
    BY <2>3, <2>4, <2>9, StoreKeeps
  <2> HIDE DEF u
  <2>6. Keeps(r, s, w, u)
    BY <2>2, <2>5, KeepsThen
  <2>7. Good(r, u, w) /\ u \in SL!State /\ Offered(r, u, w, b)
    BY <2>6, KeepsOffered DEF Keeps, Alike
  <2>8. SL!Decide(u, b) \in Doing(r, u, w)
    BY <2>7, DecideKeeps
  <2> QED
    BY <2>6, <2>8, DoingThen
<1> QED
  BY <1>1, <1>2, <1>3, <1>4

\* A vote that was cast is sent on and counted.
LEMMA SLVoteKeeps ==
  ASSUME NEW r \in Replica, NEW s \in SL!State, NEW w, Good(r, s, w), NEW b \in Block,
         NEW q \in Replica, b \in VotesOf(r, s, w, q)
  PROVE  SL!ProcessVote(r, s, b, q) \in Doing(r, s, w)
<1> DEFINE m == VoteMsg(b, q)
           t == Echo(r, s, b, m)
           x == AddVote(t, b, q)
           calls == IF x.isBuilt THEN <<SL!Call("certificate", b)>> ELSE <<>>
<1>1. SL!ProcessVote(r, s, b, q) = SL!Do(x.state, calls)
  <2>1. SL!Echo(r, s, b, SL!VoteMsg(b, q)) = t
    BY SameOperations
  <2>2. SL!AddVote(t, b, q) = x
    BY SameCounting
  <2> HIDE DEF t, x
  <2> QED
    BY <2>1, <2>2 DEF SL!ProcessVote, SL!Then
<1>2. m \in Message /\ Sound(r, s, w, m)
  BY DEF VoteMsg, Message, Sound
<1> HIDE DEF m
<1>3. Keeps(r, s, w, t)
  BY <1>2, EchoKeeps
<1> HIDE DEF t
<1>4. Good(r, t, w) /\ b \in VotesOf(r, t, w, q)
  BY <1>3, KeepsVotes DEF Keeps
<1>5. Keeps(r, t, w, x.state) /\ (x.isBuilt => Backed(r, x.state, w, b))
  BY <1>4, AddVoteKeeps
<1> HIDE DEF x
<1>6. Keeps(r, s, w, x.state)
  BY <1>3, <1>5, KeepsThen
<1>7. calls \in Seq(Trusted(r, x.state, w))
  <2>1. x.isBuilt => SL!Call("certificate", b) \in Trusted(r, x.state, w)
    BY <1>5 DEF SL!Call, Trusted, CallName
  <2> DEFINE T == Trusted(r, x.state, w)
             c == SL!Call("certificate", b)
  <2>2. CASE x.isBuilt
    <3>1. c \in T /\ calls = <<c>>
      BY <2>1, <2>2
    <3> HIDE DEF c, T, calls
    <3>2. calls \in Seq(T)
      BY <3>1
    <3> QED
      BY <3>2 DEF T
  <2>3. CASE ~x.isBuilt
    BY <2>3
  <2> QED
    BY <2>2, <2>3
<1> HIDE DEF calls
<1> QED
  BY <1>1, <1>6, <1>7, DoKeeps


\* The second of three blocks is committed, and what waited is called for.
LEMMA SLCommitReturns ==
  ASSUME NEW r \in Replica, NEW s \in SL!State, NEW w, Good(r, s, w), NEW c \in Block,
         Len(s.notarizedChain) >= 3
  PROVE  SL!Commit(s, c) \in Doing(r, s, w)
<1> DEFINE b == s.notarizedChain[Len(s.notarizedChain) - 1]
           t == SL!CommitBlock(s, b)
           E == t.echoedBlock \ (SL!Range(t.committed) \ SL!Range(s.committed))
           u == [t EXCEPT !.echoedBlock = E]
           q == <<SL!Call("waitingBlock", c), SL!Call("waitingQC", c)>>
<1>1. SL!Commit(s, c) \in {SL!Return(s), SL!Do(u, q)}
  <2>1. [t EXCEPT !.echoedBlock = @ \ (SL!Range(t.committed) \ SL!Range(s.committed))] = u
    OBVIOUS
  <2> HIDE DEF t, u
  <2> QED
    BY <2>1 DEF SL!Commit, SL!Then, t
<1>2. b \in Block /\ Backed(r, s, w, b)
  <2> DEFINE i == Len(s.notarizedChain) - 1
  <2>1. s.notarizedChain \in Seq(Block)
    BY DEF SL!State
  <2>2. i \in DOMAIN s.notarizedChain /\ b \in Block
    BY <2>1
  <2>3. b \in SL!Certificates(s)
    BY <2>2 DEF SL!Certificates, SL!Range
  <2> QED
    BY <2>2, <2>3 DEF Good, TrustInv
<1> HIDE DEF b
<1>3. Keeps(r, s, w, t)
  BY <1>2, SLCommitKeeps
<1> HIDE DEF t
<1>4. Good(r, t, w) /\ t.echoedBlock \in SUBSET Block
  BY <1>3, CommonFields DEF Keeps, Good
<1>5. E \in SUBSET Block
  BY <1>4
<1> HIDE DEF E
<1>6. Keeps(r, t, w, u)
  BY <1>4, <1>5, SetOther
<1> HIDE DEF u
<1>7. Keeps(r, s, w, u)
  BY <1>3, <1>6, KeepsThen
<1>8. q \in Seq(Trusted(r, u, w))
  <2>1. /\ SL!Call("waitingBlock", c) \in Trusted(r, u, w)
        /\ SL!Call("waitingQC", c) \in Trusted(r, u, w)
    BY DEF SL!Call, Trusted, CallName
  <2> QED
    BY <2>1
<1> HIDE DEF q
<1> QED
  BY <1>1, <1>7, <1>8, KeepsSame, ReturnKeeps, DoKeeps

\* A certificate that is backed is put into the chain, or it waits.
LEMMA NotarizeKeeps ==
  ASSUME NEW r \in Replica, NEW s \in SL!State, NEW w, Good(r, s, w), NEW c \in Block,
         Backed(r, s, w, c), HasVertex(s.bc, c), NEW x, x = SL!updateNotarizedChain(s, c)
  PROVE  Keeps(r, s, w, x.state)
<1> DEFINE a == [s EXCEPT !.notarizedChain = Append(@, c)]
           h == [s EXCEPT !.halted = TRUE]
           Q == SL!Put(s.bufferedNotarizedBlock, c)
           p == [s EXCEPT !.bufferedNotarizedBlock = Q]
<1>1. x.state \in {a, h, p}
  BY DEF SL!updateNotarizedChain
<1>2. Keeps(r, s, w, a)
  BY SetCertificates
<1>3. Keeps(r, s, w, h)
  BY SetOther
<1>4. Keeps(r, s, w, p)
  <2>1. s.bufferedNotarizedBlock \in SUBSET Block /\ IsFiniteSet(s.bufferedNotarizedBlock)
    BY DEF Good, Finite, SL!State
  <2>2. /\ Q \in SUBSET Block /\ IsFiniteSet(Q)
        /\ \A d \in Q : d \in s.bufferedNotarizedBlock \/ d = c
    BY <2>1, PutFinite
  <2> HIDE DEF Q
  <2> QED
    BY <2>2, SetCertificates
<1> QED
  BY <1>1, <1>2, <1>3, <1>4

\* A certificate that is backed is processed.
LEMMA SLCertificateKeeps ==
  ASSUME NEW r \in Replica, NEW s \in SL!State, NEW w, Good(r, s, w), NEW c \in Block,
         Backed(r, s, w, c)
  PROVE  SL!processCertificate(s, c) \in Doing(r, s, w)
<1> DEFINE Q == s.bufferedQCs \cup {c}
           p == [s EXCEPT !.bufferedQCs = Q]
           x == SL!updateNotarizedChain(s, c)
           y == IF x.ok THEN [x EXCEPT !.state = AdvanceView(@, c.height)] ELSE x
           z == IF y.ok /\ c.height >= 3 /\ SL!commitRule(y.state.notarizedChain)
                THEN SL!Commit(y.state, c) ELSE SL!Return(y.state)
<1>1. \/ SL!processCertificate(s, c) \in {SL!Return(s), SL!Return(p)}
      \/ HasVertex(s.bc, c) /\ SL!processCertificate(s, c) = z
  <2>1. (IF x.ok THEN [x EXCEPT !.state = SL!AdvanceView(@, c.height)] ELSE x) = y
    BY SameOperations
  <2> HIDE DEF x, y, p
  <2> QED
    BY <2>1, SameOperations DEF SL!processCertificate, SL!Then, p, x
<1>2. SL!Return(s) \in Doing(r, s, w)
  BY KeepsSame, ReturnKeeps
<1>3. SL!Return(p) \in Doing(r, s, w)
  <2>1. Q \in SUBSET Block /\ \A d \in Q : d \in s.bufferedQCs \/ Backed(r, s, w, d)
    BY DEF SL!State
  <2> HIDE DEF Q
  <2>2. Keeps(r, s, w, p)
    BY <2>1, SetCertificates
  <2> HIDE DEF p
  <2> QED
    BY <2>2, ReturnKeeps
<1>4. ASSUME HasVertex(s.bc, c) PROVE z \in Doing(r, s, w)
  <2>1. Keeps(r, s, w, x.state)
    BY <1>4, NotarizeKeeps
  <2>2. DOMAIN x = {"state", "ok"}
    BY DEF SL!updateNotarizedChain
  <2> HIDE DEF x
  <2>3. Good(r, x.state, w) /\ c.height \in Nat
    BY <2>1, BlockFields DEF Keeps
  <2>4. Keeps(r, x.state, w, AdvanceView(x.state, c.height))
    BY <2>3, AdvanceKeeps
  <2>5. y.state = x.state \/ y.state = AdvanceView(x.state, c.height)
    BY <2>2
  <2>6. Keeps(r, s, w, y.state)
    BY <2>1, <2>4, <2>5, KeepsThen
  <2> HIDE DEF y
  <2>7. Good(r, y.state, w) /\ y.state \in SL!State
    BY <2>6 DEF Keeps, Alike
  <2>8. CASE y.ok /\ c.height >= 3 /\ SL!commitRule(y.state.notarizedChain)
    <3>1. Len(y.state.notarizedChain) >= 3
      BY <2>8 DEF SL!commitRule
    <3>2. SL!Commit(y.state, c) \in Doing(r, y.state, w)
      BY <2>7, <3>1, SLCommitReturns
    <3> QED
      BY <2>6, <2>8, <3>2, DoingThen
  <2>9. CASE ~(y.ok /\ c.height >= 3 /\ SL!commitRule(y.state.notarizedChain))
    BY <2>6, <2>9, ReturnKeeps
  <2> QED
    BY <2>8, <2>9
<1> QED
  BY <1>1, <1>2, <1>3, <1>4


\* The same call for each block of a set
LEMMA CallsAre ==
  ASSUME NEW B, IsFiniteSet(B), NEW name, NEW T, \A c \in B : SL!Call(name, c) \in T
  PROVE  SL!SetToSeq({SL!Call(name, c) : c \in B}) \in Seq(T)
<1> DEFINE C == {SL!Call(name, c) : c \in B}
           f == [c \in B |-> SL!Call(name, c)]
<1>1. f \in Surjection(B, C)
  BY DEF Surjection
<1>2. IsFiniteSet(C)
  BY <1>1, FS_Surjection
<1>3. C \subseteq T
  OBVIOUS
<1> HIDE DEF C
<1>4. SL!SetToSeq(C) \in Seq(C)
  BY <1>2, InSequence
<1>5. SL!SetToSeq(C) \in Seq(T)
  BY <1>3, <1>4
<1> QED
  BY <1>5 DEF C

\* A call that may be made leads to a state, and to calls that may be made in it.
LEMMA MakeKeeps ==
  ASSUME NEW r \in Replica, NEW s \in SL!State, NEW w, Good(r, s, w), NEW c \in Trusted(r, s, w)
  PROVE  SL!Make(r, s, c.to, c.block) \in Doing(r, s, w)
<1> DEFINE b == c.block
           T == Trusted(r, s, w)
           children == SL!Under(s.bufferedBlocks, b)
           waiting == SL!Under(s.bufferedNotarizedBlock, b)
           blocks == SL!SetToSeq({SL!Call("block", d) : d \in children})
           x == SL!Make(r, s, c.to, c.block)
<1>1. b \in Block /\ c.to \in CallName
  BY DEF Trusted
<1>2. /\ children \subseteq s.bufferedBlocks /\ IsFiniteSet(children)
      /\ waiting \subseteq s.bufferedNotarizedBlock /\ IsFiniteSet(waiting)
      /\ s.bufferedBlocks \in SUBSET Block /\ IsFiniteSet(s.bufferedBlocks)
      /\ s.bufferedNotarizedBlock \in SUBSET Block
  <2>1. /\ s.bufferedBlocks \in SUBSET Block /\ IsFiniteSet(s.bufferedBlocks)
        /\ s.bufferedNotarizedBlock \in SUBSET Block /\ IsFiniteSet(s.bufferedNotarizedBlock)
    BY CommonFields DEF Good, Finite, SL!State
  <2> QED
    BY <2>1, PutFinite, <1>1
<1>3. /\ \A d \in s.bufferedBlocks : Offered(r, s, w, d)
      /\ \A d \in s.bufferedQCs \cup s.bufferedNotarizedBlock : Backed(r, s, w, d)
  BY DEF Good, TrustInv, SL!Certificates
<1>4. blocks \in Seq(T)
  <2>1. \A d \in children : SL!Call("block", d) \in T
    BY <1>2, <1>3 DEF SL!Call, Trusted, CallName
  <2> HIDE DEF children, T
  <2> QED
    BY <1>2, <2>1, CallsAre
<1> HIDE DEF children, waiting
<1>5. CASE c.to = "block"
  <2>1. x = SL!ProcessBlock(r, s, b) /\ Offered(r, s, w, b)
    BY <1>5 DEF SL!Make, Trusted
  <2> QED
    BY <1>1, <2>1, SLBlockKeeps
<1>6. CASE c.to = "vote"
  <2>1. x = SL!ProcessVote(r, s, b, r) /\ b \in VotesOf(r, s, w, r)
    BY <1>6 DEF SL!Make, Trusted, VotesOf
  <2> QED
    BY <1>1, <2>1, SLVoteKeeps
<1>7. CASE c.to = "broadcast"
  <2> DEFINE m == VoteMsg(b, r)
  <2>1. x = SL!Return(Broadcast(r, s, m)) /\ b \in VotesOf(r, s, w, r)
    BY <1>7, SameOperations DEF SL!Make, Trusted, VotesOf
  <2>2. m \in Message /\ Sound(r, s, w, m)
    BY <1>1, <2>1 DEF VoteMsg, Message, Sound
  <2> HIDE DEF m
  <2> QED
    BY <2>1, <2>2, SendKeeps, ReturnKeeps
<1>8. CASE c.to = "certificate"
  <2>1. x = SL!processCertificate(s, b) /\ Backed(r, s, w, b)
    BY <1>8 DEF SL!Make, Trusted
  <2> QED
    BY <1>1, <2>1, SLCertificateKeeps
<1>9. CASE c.to = "bufferedQC"
  <2>1. x = IF b \in s.bufferedQCs THEN SL!processCertificate(s, b) ELSE SL!Return(s)
    BY <1>9 DEF SL!Make
  <2> QED
    BY <1>1, <1>3, <2>1, SLCertificateKeeps, KeepsSame, ReturnKeeps
<1>10. CASE c.to = "bufferedBlock"
  <2>1. x = SL!Do(s, blocks \o <<>>)
    BY <1>10 DEF SL!Make, children
  <2>2. blocks \o <<>> \in Seq(T)
    <3> HIDE DEF blocks, T
    <3> QED
      BY <1>4
  <2> QED
    BY <2>1, <2>2, KeepsSame, DoKeeps
<1>11. CASE c.to = "waitingBlock"
  <2> DEFINE q == <<SL!Call("deleteBlock", b)>>
  <2>1. x = SL!Do(s, blocks \o q)
    BY <1>11 DEF SL!Make, children
  <2>2. q \in Seq(T)
    <3>1. SL!Call("deleteBlock", b) \in T
      BY <1>1 DEF SL!Call, Trusted, CallName
    <3> HIDE DEF T
    <3> QED
      BY <3>1
  <2>3. blocks \o q \in Seq(T)
    <3> HIDE DEF blocks, T, q
    <3> QED
      BY <1>4, <2>2
  <2> QED
    BY <2>1, <2>3, KeepsSame, DoKeeps
<1>12. CASE c.to = "deleteBlock"
  <2> DEFINE R == s.bufferedBlocks \ children
             t == [s EXCEPT !.bufferedBlocks = R]
  <2>1. x = SL!Return(t)
    BY <1>12 DEF SL!Make, children
  <2>2. R \in SUBSET Block /\ IsFiniteSet(R) /\ \A d \in R : d \in s.bufferedBlocks
    BY <1>2, FS_Subset
  <2> HIDE DEF R
  <2>3. Keeps(r, s, w, t)
    BY <2>2, SetBuffered
  <2> QED
    BY <2>1, <2>3, ReturnKeeps
<1>13. CASE c.to = "waitingQC"
  <2> DEFINE p == SL!SetToSeq({SL!Call("certificate", d) : d \in waiting})
             q == SL!SetToSeq({SL!Call("deleteQC", d) : d \in waiting})
  <2>1. x = SL!Do(s, p \o q)
    BY <1>13 DEF SL!Make, waiting
  <2>2. \A d \in waiting : SL!Call("certificate", d) \in T /\ SL!Call("deleteQC", d) \in T
    BY <1>2, <1>3 DEF SL!Call, Trusted, CallName
  <2>3. p \in Seq(T) /\ q \in Seq(T)
    <3> HIDE DEF T
    <3> QED
      BY <1>2, <2>2, CallsAre
  <2>4. p \o q \in Seq(T)
    <3> HIDE DEF p, q, T
    <3> QED
      BY <2>3
  <2> QED
    BY <2>1, <2>4, KeepsSame, DoKeeps
<1>14. CASE c.to = "deleteQC"
  <2> DEFINE Q == s.bufferedQCs \ {b}
             t == [s EXCEPT !.bufferedQCs = Q]
  <2>1. x = SL!Return(t)
    BY <1>14 DEF SL!Make
  <2>2. Q \in SUBSET Block /\ \A d \in Q : d \in s.bufferedQCs
    BY DEF SL!State
  <2> HIDE DEF Q
  <2>3. Keeps(r, s, w, t)
    BY <2>2, SetCertificates
  <2> QED
    BY <2>1, <2>3, ReturnKeeps
<1> QED
  BY <1>1, <1>5, <1>6, <1>7, <1>8, <1>9, <1>10, <1>11, <1>12, <1>13, <1>14 DEF CallName


\* All calls are made.
LEMMA RunKeeps ==
  ASSUME NEW r \in Replica, NEW s \in SL!State, NEW w, Good(r, s, w), NEW start \in Doing(r, s, w)
  PROVE  Keeps(r, s, w, SL!Run(r, start))
<1> DEFINE D == Doing(r, s, w)
           Made(y) == SL!Make(r, y.state, Head(y.calls).to, Head(y.calls).block)
           Step(y) == IF y.calls = <<>> \/ y.state.halted THEN y
                      ELSE LET c == Head(y.calls)
                               Push(z) == SL!Do(z.state, z.calls \o Tail(y.calls))
                           IN  SL!Then(SL!Make(r, y.state, c.to, c.block), Push)
           Def(f) == [n \in Nat |-> IF n = 0 THEN start ELSE SL!Then(f[n - 1], Step)]
           after == CHOOSE f : f = Def(f)
           k == 12 * (1 + SL!Cardinality(start.state.bufferedBlocks))
<1>1. ASSUME NEW y \in D PROVE Step(y) \in D
  <2> DEFINE t == y.state
             T == Trusted(r, t, w)
             z == Made(y)
             q == z.calls \o Tail(y.calls)
  <2>1. t \in SL!State /\ Keeps(r, s, w, t) /\ Good(r, t, w) /\ y.calls \in Seq(T)
    BY DEF Doing, Keeps
  <2>2. CASE y.calls = <<>> \/ y.state.halted
    BY <2>2
  <2>3. CASE ~(y.calls = <<>> \/ y.state.halted)
    <3>1. Head(y.calls) \in T /\ Tail(y.calls) \in Seq(T)
      <4> HIDE DEF T
      <4> QED
        BY <2>1, <2>3
    <3>2. Step(y) = SL!Do(z.state, q)
      BY <2>3 DEF SL!Then
    <3>3. z \in Doing(r, t, w)
      BY <2>1, <3>1, MakeKeeps
    <3> HIDE DEF t
    <3>4. Keeps(r, t, w, z.state) /\ z.calls \in Seq(Trusted(r, z.state, w))
      BY <3>3 DEF Doing
    <3> HIDE DEF z
    <3>5. q \in Seq(Trusted(r, z.state, w))
      <4> DEFINE U == Trusted(r, z.state, w)
      <4>1. Seq(T) \subseteq Seq(U) /\ z.calls \in Seq(U)
        BY <3>4, TrustedLater
      <4> HIDE DEF T, U
      <4>2. q \in Seq(U)
        BY <3>1, <4>1
      <4> QED
        BY <4>2 DEF U
    <3>6. Keeps(r, s, w, z.state)
      BY <2>1, <3>4, KeepsThen
    <3> HIDE DEF q
    <3> QED
      BY <3>2, <3>5, <3>6, DoKeeps
  <2> QED
    BY <2>2, <2>3
<1>2. SL!Run(r, start) = after[k].state
  BY DEF SL!Run
<1>3. \A x : SL!Then(x, Step) = Step(x)
  <2> HIDE DEF Step
  <2> QED
    BY DEF SL!Then
<1> HIDE DEF Step, D
<1>4. after \in [Nat -> D]
  <2> DEFINE step == [x \in D |-> Step(x)]
  <2>1. step \in [D -> D] /\ start \in D
    BY <1>1 DEF D
  <2>2. PICK g : IsIteration(g, D, step, start)
    <3> HIDE DEF step
    <3> QED
      BY <2>1, IterationExists
  <2>3. /\ g \in [Nat -> D] /\ g[0] = start
        /\ \A n \in Nat : n # 0 => g[n] = Step(g[n - 1])
    BY <2>2 DEF IsIteration
  <2>4. g = Def(g)
    BY <1>3, <2>3
  <2>5. after = Def(after)
    <3> HIDE DEF Def
    <3> QED
      BY <2>4
  <2> HIDE DEF after
  <2>6. after[0] = start /\ \A n \in Nat : after[n + 1] = Step(after[n])
    <3>1. \A n \in Nat : after[n] = IF n = 0 THEN start ELSE Step(after[n - 1])
      <4>1. Def(after) = [n \in Nat |-> IF n = 0 THEN start ELSE Step(after[n - 1])]
        BY <1>3
      <4> HIDE DEF Def
      <4> QED
        BY <2>5, <4>1
    <3> QED
      BY <3>1
  <2> DEFINE S == {n \in Nat : after[n] \in D}
  <2>7. 0 \in S /\ \A n \in Nat : n \in S => n + 1 \in S
    BY <1>1, <2>1, <2>6
  <2>8. Nat \subseteq S
    <3> HIDE DEF S
    <3> QED
      BY <2>7, SetInduction
  <2>9. after = [n \in Nat |-> after[n]]
    BY <2>5
  <2> QED
    BY <2>8, <2>9
<1> HIDE DEF after
<1>5. k \in Nat
  <2>1. IsFiniteSet(start.state.bufferedBlocks)
    BY DEF Doing, Keeps, Good, Finite
  <2>2. Cardinality(start.state.bufferedBlocks) \in Nat
    BY <2>1, FS_CardinalityType
  <2> QED
    BY <2>2, SameCardinality
<1>6. after[k] \in D
  <2> HIDE DEF k
  <2> QED
    BY <1>4, <1>5
<1> QED
  BY <1>2, <1>6 DEF D, Doing

\* A timeout is handled.
LEMMA SLRemoteTmoKeeps ==
  ASSUME NEW r \in Replica, NEW s \in SL!State, NEW w, Good(r, s, w), NEW v \in Nat,
         NEW q \in Replica
  PROVE  Keeps(r, s, w, SL!ProcessRemoteTmo(s, v, q))
<1> DEFINE x == AcceptTmo(s, v, q)
           u == IF x.isBuilt THEN SL!processTC(x.state, x.tc) ELSE x.state
<1>1. Keeps(r, s, w, x.state) /\ x.tc \in Nat
  BY AcceptTmoKeeps
<1>2. SL!ProcessRemoteTmo(s, v, q) = u
  BY SameCounting DEF SL!ProcessRemoteTmo, SL!Then
<1> HIDE DEF x
<1>3. Good(r, x.state, w) /\ x.state \in SL!State
  BY <1>1 DEF Keeps, Alike
<1> DEFINE A == x.state.advancing \cup {x.tc}
           t == [x.state EXCEPT !.advancing = A]
<1>4. A \in SUBSET Nat
  BY <1>1, <1>3 DEF SL!State
<1>5. SL!processTC(x.state, x.tc) \in {x.state, t}
  BY DEF SL!processTC
<1> HIDE DEF A
<1>6. Keeps(r, x.state, w, t)
  BY <1>3, <1>4, SetOther
<1> HIDE DEF t
<1>7. Keeps(r, s, w, t)
  BY <1>1, <1>6, KeepsThen
<1> QED
  BY <1>1, <1>2, <1>5, <1>7

\* The timer announces a timeout for the current view.
LEMMA SLLocalTmoKeeps ==
  ASSUME NEW r \in Replica, NEW s \in SL!State, NEW w, Good(r, s, w)
  PROVE  Keeps(r, s, w, SL!ProcessLocalTmo(r, s))
<1> DEFINE m == TmoMsg(s.curView, Genesis)
           t == Broadcast(r, s, m)
<1>1. s.curView \in Nat
  BY CommonFields DEF Good
<1>2. m \in Message /\ Sound(r, s, w, m)
  BY <1>1 DEF TmoMsg, Message, Sound, Backed, Identifier
<1>3. SL!ProcessLocalTmo(r, s) = SL!ProcessRemoteTmo(t, s.curView, r)
  BY SameOperations DEF SL!ProcessLocalTmo
<1> HIDE DEF m
<1>4. Keeps(r, s, w, t)
  BY <1>2, SendKeeps
<1> HIDE DEF t
<1>5. Good(r, t, w) /\ t \in SL!State
  BY <1>4 DEF Keeps, Alike
<1>6. Keeps(r, t, w, SL!ProcessRemoteTmo(t, s.curView, r))
  BY <1>1, <1>5, SLRemoteTmoKeeps
<1> QED
  BY <1>3, <1>4, <1>6, KeepsThen


-----------------------------------------------------------------------------
(* The interface SafetyView. *)

\* s is a state of the protocol that the replicas run.
OfProtocol(s) == s \in IF UsesHotStuff THEN HS!State ELSE SL!State

\* A handler keeps the protocol.
LEMMA SameProtocol ==
  ASSUME NEW r, NEW s, NEW w, NEW t, Keeps(r, s, w, t), OfProtocol(s)
  PROVE  OfProtocol(t)
BY DEF Keeps, Alike, OfProtocol

\* ProcessBlock of the protocol
LEMMA BlockKeeps ==
  ASSUME NEW r \in Replica, NEW s, OfProtocol(s), NEW w, Good(r, s, w), NEW b \in Block,
         Offered(r, s, w, b)
  PROVE  Keeps(r, s, w, ProcessBlock(r, s, b))
<1>1. CASE UsesHotStuff
  BY <1>1, HSBlockKeeps DEF ProcessBlock, OfProtocol
<1>2. CASE ~UsesHotStuff
  <2> DEFINE x == SL!ProcessBlock(r, s, b)
  <2>1. s \in SL!State /\ ProcessBlock(r, s, b) = SL!Run(r, x)
    BY <1>2 DEF ProcessBlock, OfProtocol, SL!HandleBlock
  <2>2. x \in Doing(r, s, w)
    BY <2>1, SLBlockKeeps
  <2> HIDE DEF x
  <2> QED
    BY <2>1, <2>2, RunKeeps
<1> QED
  BY <1>1, <1>2

\* ProcessVote of the protocol
LEMMA VoteKeeps ==
  ASSUME NEW r \in Replica, NEW s, OfProtocol(s), NEW w, Good(r, s, w), NEW b \in Block,
         NEW q \in Replica, b \in VotesOf(r, s, w, q)
  PROVE  Keeps(r, s, w, ProcessVote(r, s, b, q))
<1>1. CASE UsesHotStuff
  BY <1>1, HSVoteKeeps DEF ProcessVote, OfProtocol
<1>2. CASE ~UsesHotStuff
  <2> DEFINE x == SL!ProcessVote(r, s, b, q)
  <2>1. s \in SL!State /\ ProcessVote(r, s, b, q) = SL!Run(r, x)
    BY <1>2 DEF ProcessVote, OfProtocol, SL!HandleVote
  <2>2. x \in Doing(r, s, w)
    BY <2>1, SLVoteKeeps
  <2> HIDE DEF x
  <2> QED
    BY <2>1, <2>2, RunKeeps
<1> QED
  BY <1>1, <1>2

\* ProcessRemoteTmo and ProcessLocalTmo of the protocol
LEMMA TmoKeeps ==
  ASSUME NEW r \in Replica, NEW s, OfProtocol(s), NEW w, Good(r, s, w)
  PROVE  /\ \A v \in Nat, q \in Replica : \A c :
              Backed(r, s, w, c) => Keeps(r, s, w, ProcessRemoteTmo(s, v, c, q))
         /\ Keeps(r, s, w, ProcessLocalTmo(r, s))
<1>1. CASE UsesHotStuff
  BY <1>1, HSRemoteTmoKeeps, HSLocalTmoKeeps DEF ProcessRemoteTmo, ProcessLocalTmo, OfProtocol
<1>2. CASE ~UsesHotStuff
  BY <1>2, SLRemoteTmoKeeps, SLLocalTmoKeeps DEF ProcessRemoteTmo, ProcessLocalTmo, OfProtocol
<1> QED
  BY <1>1, <1>2

\* What the event loop does with a sound message
LEMMA HandleKeeps ==
  ASSUME NEW r \in Replica, NEW s, OfProtocol(s), NEW w, Good(r, s, w),
         NEW m \in Message, Sound(r, s, w, m), NEW v \in Replica
  PROVE  Keeps(r, s, w, Handle(r, s, v, m))
<1>1. CASE m \in [type : {"block"}, block : Block]
  <2>1. m.block \in Block /\ Offered(r, s, w, m.block)
    BY <1>1 DEF Sound
  <2>2. Handle(r, s, v, m) = ProcessBlock(r, s, m.block)
    BY <1>1 DEF Handle
  <2> QED
    BY <2>1, <2>2, BlockKeeps
<1>2. CASE m \in [type : {"vote"}, block : Block, voter : Replica]
  <2>1. m.block \in Block /\ m.voter \in Replica /\ m.block \in VotesOf(r, s, w, m.voter)
    BY <1>2 DEF Sound
  <2>2. Handle(r, s, v, m) = ProcessVote(r, s, m.block, m.voter)
    BY <1>2 DEF Handle
  <2> QED
    BY <2>1, <2>2, VoteKeeps
<1>3. CASE m \in [type : {"tmo"}, view : Nat, highQC : Identifier]
  <2>1. m.view \in Nat /\ Backed(r, s, w, m.highQC)
    BY <1>3 DEF Sound
  <2>2. Handle(r, s, v, m) = ProcessRemoteTmo(s, m.view, m.highQC, v)
    BY <1>3 DEF Handle
  <2> QED
    BY <2>1, <2>2, TmoKeeps
<1> QED
  BY <1>1, <1>2, <1>3 DEF Message

-----------------------------------------------------------------------------
(* Proposals. *)

\* The event loop takes a view, or a block is proposed, and the views still ascend.
LEMMA SetPace ==
  ASSUME NEW r \in Replica, NEW s, NEW w, Good(r, s, w), NEW t, PaceInv(r, t),
         IsTree(MadeOf(t, w)),
         s \in SL!State => \A b \in MadeOf(t, w) : b.height = 1 => b.prev = Genesis,
         \/ \E n \in Seq(Nat) : t = [s EXCEPT !.newViewChan = n]
         \/ \E P \in SUBSET Block :
              /\ s.proposed \subseteq P
              /\ \A b \in P : b \in s.proposed \/ Backed(r, s, w, b.prev)
              /\ t = [s EXCEPT !.proposed = P]
  PROVE  Keeps(r, s, w, t)
<1>1. /\ Alike(s, t) /\ t.votes = s.votes /\ t.bc = s.bc /\ t.halted = s.halted
      /\ t.bufferedBlocks = s.bufferedBlocks /\ t.out = s.out /\ t.voted = s.voted
      /\ t.committed = s.committed /\ s.proposed \subseteq t.proposed
      /\ \A b \in t.proposed : b \in s.proposed \/ Backed(r, s, w, b.prev)
      /\ s \in HS!State => t.highQC = s.highQC /\ t.bufferedQCs = s.bufferedQCs
      /\ s \in SL!State => /\ SL!Certificates(t) = SL!Certificates(s)
                           /\ t.notarizedChain = s.notarizedChain
                           /\ t.bufferedNotarizedBlock = s.bufferedNotarizedBlock
  <2>1. CASE s \in HS!State
    <3>1. s \notin SL!State
      BY <2>1, StatesDiffer
    <3>2. t \in HS!State
      <4>1. ASSUME NEW n \in Seq(Nat), t = [s EXCEPT !.newViewChan = n] PROVE t \in HS!State
        BY <2>1, <4>1 DEF HS!State
      <4>2. ASSUME NEW P \in SUBSET Block, t = [s EXCEPT !.proposed = P] PROVE t \in HS!State
        BY <2>1, <4>2 DEF HS!State
      <4> QED
        BY <4>1, <4>2
    <3>3. t \notin SL!State
      BY <3>2, StatesDiffer
    <3> QED
      BY <2>1, <3>1, <3>2, <3>3 DEF HS!State, Alike
  <2>2. CASE s \in SL!State
    <3>1. s \notin HS!State
      BY <2>2, StatesDiffer
    <3>2. t \in SL!State
      <4>1. ASSUME NEW n \in Seq(Nat), t = [s EXCEPT !.newViewChan = n] PROVE t \in SL!State
        BY <2>2, <4>1 DEF SL!State
      <4>2. ASSUME NEW P \in SUBSET Block, t = [s EXCEPT !.proposed = P] PROVE t \in SL!State
        BY <2>2, <4>2 DEF SL!State
      <4> QED
        BY <4>1, <4>2
    <3>3. t \notin HS!State
      BY <3>2, StatesDiffer
    <3>4. /\ t.notarizedChain = s.notarizedChain /\ t.bufferedQCs = s.bufferedQCs
          /\ t.bufferedNotarizedBlock = s.bufferedNotarizedBlock
          /\ t.votes = s.votes /\ t.bc = s.bc
          /\ t.bufferedBlocks = s.bufferedBlocks /\ t.out = s.out /\ t.voted = s.voted
          /\ t.committed = s.committed /\ t.halted = s.halted
          /\ s.proposed \subseteq t.proposed
          /\ \A b \in t.proposed : b \in s.proposed \/ Backed(r, s, w, b.prev)
      BY <2>2 DEF SL!State
    <3> QED
      BY <2>2, <3>1, <3>2, <3>3, <3>4 DEF SL!Certificates, Alike
  <2> QED
    BY <2>1, <2>2 DEF Good
<1>2. /\ \A id : Backed(r, s, w, id) => Backed(r, t, w, id)
      /\ \A b : Offered(r, s, w, b) => Offered(r, t, w, b)
      /\ \A m \in Message : Sound(r, s, w, m) => Sound(r, t, w, m)
      /\ \A q : VotesOf(r, s, w, q) = VotesOf(r, t, w, q)
  <2>1. \A q : VotesOf(r, s, w, q) = VotesOf(r, t, w, q)
    BY <1>1 DEF VotesOf
  <2>2. MadeOf(s, w) \subseteq MadeOf(t, w)
    BY <1>1 DEF MadeOf
  <2> QED
    BY <2>1, <2>2, BackedMore, OfferedMore
<1>3. Finite(t)
  BY <1>1 DEF Good, Finite, Alike
<1>4. TrustInv(r, t, w)
  <2>1. s.out \in [Replica -> Seq(Message)]
    BY CommonFields DEF Good
  <2>2. \A q \in Replica : \A i \in DOMAIN s.out[q] : s.out[q][i] \in Message
    BY <2>1
  <2>3. \A q \in Replica : \A i \in DOMAIN t.out[q] : Sound(r, t, w, t.out[q][i])
    BY <1>1, <1>2, <2>2 DEF Good, TrustInv
  <2>4. \A x \in t.votes : x[1] \in VotesOf(r, t, w, x[2])
    BY <1>1, <1>2 DEF Good, TrustInv
  <2>5. \A b \in t.bufferedBlocks \cup t.proposed : Offered(r, t, w, b)
    <3>1. \A b \in t.bufferedBlocks \cup s.proposed : Offered(r, t, w, b)
      BY <1>1, <1>2 DEF Good, TrustInv
    <3>2. \A b \in t.proposed \ s.proposed : Offered(r, t, w, b)
      BY <1>1, <1>2 DEF Offered, MadeOf
    <3> QED
      BY <3>1, <3>2
  <2>6. t \in HS!State => \A c \in t.bufferedQCs \cup {t.highQC} : Backed(r, t, w, c)
    BY <1>1, <1>2 DEF Good, TrustInv, Alike
  <2>7. t \in SL!State => \A c \in SL!Certificates(t) : Backed(r, t, w, c)
    BY <1>1, <1>2 DEF Good, TrustInv, Alike
  <2>8. /\ \A q \in Replica : \A b \in VotesOf(r, t, w, q) : Offered(r, t, w, b)
        /\ \A b \in Range(t.committed) : Backed(r, t, w, b)
    BY <1>1, <1>2 DEF Good, TrustInv
  <2> QED
    BY <2>3, <2>4, <2>5, <2>6, <2>7, <2>8 DEF TrustInv
<1>5. CommitInv(r, t, w)
  <2>1. \A b : ThreeChain(r, s, w, b) => ThreeChain(r, t, w, b)
    BY <1>2, ChainMore
  <2> QED
    BY <1>1, <2>1 DEF Good, CommitInv, LastCommit, Alike
<1>6. Stored(t, w)
  <2>1. MadeOf(s, w) \subseteq MadeOf(t, w)
    BY <1>1 DEF MadeOf
  <2> QED
    BY <1>1, <2>1, StoredMore DEF Good
<1>7. MadeInv(r, t, w)
  BY <1>1 DEF Good, MadeInv, Alike
<1> QED
  BY <1>1, <1>3, <1>4, <1>5, <1>6, <1>7 DEF Good, Keeps, Alike


\* The event loop takes the oldest of the views announced: all proposals are for
\* earlier views, and all views left are later.
LEMMA TakeView ==
  ASSUME NEW r \in Replica, NEW s, NEW w, Good(r, s, w), s.newViewChan # <<>>,
         NEW t, t = [s EXCEPT !.newViewChan = Tail(@)], NEW v, v = Head(s.newViewChan)
  PROVE  /\ Keeps(r, s, w, t) /\ v \in Nat /\ v <= t.curView
         /\ \A i \in DOMAIN t.newViewChan : v < t.newViewChan[i]
         /\ \A b \in t.proposed : b.height < v
<1> DEFINE n == Tail(s.newViewChan)
<1>1. s.newViewChan \in Seq(Nat) /\ s.curView \in Nat /\ s.proposed \in SUBSET Block
  BY CommonFields DEF Good
<1>2. /\ n \in Seq(Nat) /\ v \in Nat /\ 1 \in DOMAIN s.newViewChan /\ v = s.newViewChan[1]
      /\ \A i \in DOMAIN n : i + 1 \in DOMAIN s.newViewChan /\ n[i] = s.newViewChan[i + 1]
                             /\ i \in Nat /\ i > 0
  BY <1>1
<1>3. t = [s EXCEPT !.newViewChan = n]
  OBVIOUS
<1> HIDE DEF n
<1>4. t.newViewChan = n /\ t.curView = s.curView /\ t.proposed = s.proposed
  <2>1. CASE s \in HS!State
    BY <1>3, <2>1 DEF HS!State
  <2>2. CASE s \in SL!State
    BY <1>3, <2>2 DEF SL!State
  <2> QED
    BY <2>1, <2>2 DEF Good
<1>5. /\ \A i \in DOMAIN s.newViewChan : s.newViewChan[i] <= s.curView
      /\ \A i, j \in DOMAIN s.newViewChan : i < j => s.newViewChan[i] < s.newViewChan[j]
      /\ \A b \in s.proposed :
           /\ b.proposer = r /\ b.height <= s.curView
           /\ \A i \in DOMAIN s.newViewChan : b.height < s.newViewChan[i]
      /\ \A b, c \in s.proposed : b.height = c.height => b = c
  BY DEF Good, PaceInv
<1>6. v <= t.curView /\ \A i \in DOMAIN n : v < n[i]
  <2>1. \A i \in DOMAIN n : 1 < i + 1
    BY <1>2
  <2> QED
    BY <1>2, <1>4, <1>5, <2>1
<1>7. \A i, j \in DOMAIN n : i < j => n[i] < n[j]
  <2>1. \A i, j \in DOMAIN n : i < j => i + 1 < j + 1
    BY <1>2
  <2> QED
    BY <1>2, <1>5, <2>1
<1>8. PaceInv(r, t)
  <2>1. \A i \in DOMAIN n : n[i] <= s.curView
    BY <1>2, <1>5
  <2>2. \A b \in s.proposed : /\ b.proposer = r /\ b.height <= s.curView
                             /\ \A i \in DOMAIN n : b.height < n[i]
    BY <1>2, <1>5
  <2> QED
    BY <1>4, <1>5, <1>7, <2>1, <2>2 DEF PaceInv
<1>9. Keeps(r, s, w, t)
  <2>1. MadeOf(t, w) = MadeOf(s, w)
    BY <1>4 DEF MadeOf
  <2>2. /\ IsTree(MadeOf(t, w))
        /\ s \in SL!State => \A b \in MadeOf(t, w) : b.height = 1 => b.prev = Genesis
    BY <2>1 DEF Good, MadeInv
  <2> QED
    BY <1>2, <1>3, <1>8, <2>2, SetPace
<1> QED
  BY <1>2, <1>4, <1>5, <1>6, <1>9

\* A block that is later than all proposals so far is proposed.
LEMMA Propose ==
  ASSUME NEW r \in Replica, NEW s, NEW w, Good(r, s, w), NEW b \in Block,
         b.proposer = r, b.height <= s.curView, Backed(r, s, w, b.prev),
         \A i \in DOMAIN s.newViewChan : b.height < s.newViewChan[i],
         \A c \in s.proposed : c.height < b.height,
         s \in SL!State /\ b.height = 1 => b.prev = Genesis,
         NEW t, t = [s EXCEPT !.proposed = @ \cup {b}]
  PROVE  Keeps(r, s, w, t)
<1> DEFINE P == s.proposed \cup {b}
<1>1. s.proposed \in SUBSET Block
  BY CommonFields DEF Good
<1>2. /\ P \in SUBSET Block /\ \A c \in P : c \in s.proposed \/ c = b
      /\ s.proposed \subseteq P
      /\ t = [s EXCEPT !.proposed = P]
  BY <1>1
<1> HIDE DEF P
<1>3. t.newViewChan = s.newViewChan /\ t.curView = s.curView /\ t.proposed = P
  <2>1. CASE s \in HS!State
    BY <1>2, <2>1 DEF HS!State
  <2>2. CASE s \in SL!State
    BY <1>2, <2>2 DEF SL!State
  <2> QED
    BY <2>1, <2>2 DEF Good
<1>4. \A c \in s.proposed : c.height # b.height
  <2> SUFFICES ASSUME NEW c \in s.proposed PROVE c.height # b.height
    OBVIOUS
  <2>1. c.height \in Nat /\ b.height \in Nat /\ c.height < b.height
    BY <1>1, BlockFields
  <2> QED
    BY <2>1
<1>5. PaceInv(r, t)
  BY <1>2, <1>3, <1>4 DEF Good, PaceInv
<1>6. MadeOf(t, w) = MadeOf(s, w) \cup {b}
  BY <1>2, <1>3 DEF MadeOf, P
<1>7. IsTree(MadeOf(s, w) \cup {b})
  <2> DEFINE M == MadeOf(s, w)
  <2>1. IsTree(M) /\ M \subseteq Block
    BY DEF Good, MadeInv, IsTree
  <2>2. \A c \in M : c.height # b.height
    <3> SUFFICES ASSUME NEW c \in M, c.height = b.height PROVE FALSE
      OBVIOUS
    <3>1. c.proposer = r
      BY <2>1, ViewAssumption
    <3>2. c \in s.proposed
      BY <3>1 DEF Good, MadeInv, MadeOf
    <3> QED
      BY <1>4, <3>2
  <2>3. b.prev \in M \cup {Genesis}
    <3>1. CASE b.prev = Genesis
      BY <3>1
    <3>2. CASE b.prev # Genesis
      <4>1. b.prev \in Block
        BY <3>2 DEF Backed
      <4> QED
        BY <4>1, ParentBacked DEF Offered
    <3> QED
      BY <3>1, <3>2
  <2> HIDE DEF M
  <2>4. IsTree(M \cup {b})
    BY <2>1, <2>2, <2>3, TreeGrows
  <2> QED
    BY <2>4 DEF M
<1>8. s \in SL!State => \A c \in MadeOf(s, w) \cup {b} : c.height = 1 => c.prev = Genesis
  BY DEF Good, MadeInv
<1>9. /\ IsTree(MadeOf(t, w))
      /\ s \in SL!State => \A c \in MadeOf(t, w) : c.height = 1 => c.prev = Genesis
  BY <1>6, <1>7, <1>8
<1>10. \A c \in P : c \in s.proposed \/ Backed(r, s, w, c.prev)
  BY <1>2
<1> QED
  BY <1>2, <1>5, <1>9, <1>10, SetPace

\* A leader of Streamlet that has notarized nothing proposes on Genesis.
ProposesFirst(s, b) == s \in SL!State /\ s.notarizedChain = <<>> => b.prev = Genesis

\* What a leader proposes extends a certificate that is backed, if there is one.
LEMMA ProposalBacked ==
  ASSUME NEW r \in Replica, NEW s, OfProtocol(s), NEW w, Good(r, s, w), NEW v,
         NEW b, b = MakeProposal(r, s, v)
  PROVE  /\ b.height = v /\ b.proposer = r /\ Backed(r, s, w, b.prev)
         /\ ProposesFirst(s, b)
<1>1. CASE UsesHotStuff
  <2>1. b = [height |-> v, proposer |-> r, prev |-> s.highQC]
    BY <1>1 DEF MakeProposal, HS!MakeProposal
  <2>2. Backed(r, s, w, s.highQC)
    BY <1>1 DEF OfProtocol, Good, TrustInv
  <2>3. s \notin SL!State
    BY <1>1, StatesDiffer DEF OfProtocol
  <2> QED
    BY <2>1, <2>2, <2>3 DEF ProposesFirst
<1>2. CASE ~UsesHotStuff
  <2> DEFINE p == SL!forkChoice(s)
  <2>1. b = [height |-> v, proposer |-> r, prev |-> p]
    BY <1>2 DEF MakeProposal, SL!MakeProposal
  <2>2. Backed(r, s, w, p)
    <3>1. CASE s.notarizedChain = <<>>
      BY <3>1 DEF SL!forkChoice, Backed
    <3>2. CASE s.notarizedChain # <<>>
      <4>1. s \in SL!State /\ s.notarizedChain \in Seq(Block)
        BY <1>2 DEF OfProtocol, SL!State
      <4>2. p = s.notarizedChain[Len(s.notarizedChain)]
        BY <3>2 DEF SL!forkChoice, SL!Last
      <4>3. Len(s.notarizedChain) \in DOMAIN s.notarizedChain
        BY <3>2, <4>1
      <4>4. p \in SL!Certificates(s)
        BY <4>2, <4>3 DEF SL!Certificates, SL!Range
      <4> QED
        BY <4>1, <4>4 DEF Good, TrustInv
    <3> QED
      BY <3>1, <3>2
  <2>3. s.notarizedChain = <<>> => p = Genesis
    BY DEF SL!forkChoice
  <2> HIDE DEF p
  <2> QED
    BY <2>1, <2>2, <2>3 DEF ProposesFirst
<1> QED
  BY <1>1, <1>2

\* The leader of the view taken proposes a block, and processes it.
LEMMA ProposeKeeps ==
  ASSUME NEW r \in Replica, NEW s, OfProtocol(s), NEW w, Good(r, s, w), s.newViewChan # <<>>,
         NEW t, t = [s EXCEPT !.newViewChan = Tail(@)], NEW v, v = Head(s.newViewChan),
         MakeProposal(r, t, v) \in Block
  PROVE  Keeps(r, s, w, proposeBlock(r, t, v))
<1> DEFINE b == MakeProposal(r, t, v)
           p == [t EXCEPT !.proposed = @ \cup {b}]
           u == Broadcast(r, p, BlockMsg(b))
<1>1. /\ Keeps(r, s, w, t) /\ v \in Nat /\ v <= t.curView
      /\ \A i \in DOMAIN t.newViewChan : v < t.newViewChan[i]
      /\ \A c \in t.proposed : c.height < v
  BY TakeView
<1>2. Good(r, t, w) /\ OfProtocol(t)
  <2>1. OfProtocol(t)
    BY <1>1, SameProtocol
  <2> QED
    BY <1>1, <2>1 DEF Keeps
<1>12. b = MakeProposal(r, t, v) /\ b \in Block
  OBVIOUS
<1> HIDE DEF b
<1>3. /\ b.height = v /\ b.proposer = r /\ Backed(r, t, w, b.prev)
      /\ ProposesFirst(t, b)
  BY <1>2, <1>12, ProposalBacked
<1>11. t \in SL!State /\ b.height = 1 => b.prev = Genesis
  <2> SUFFICES ASSUME t \in SL!State, b.height = 1, t.notarizedChain # <<>> PROVE FALSE
    BY <1>3 DEF ProposesFirst
  <2>1. PICK c \in MadeOf(t, w) : c.height = 1
    BY <1>2 DEF Good, Stored, Begun
  <2>2. c \in Block
    BY <1>2 DEF Good, MadeInv, IsTree
  <2>3. c.proposer = r
    BY <1>3, <1>12, <2>1, <2>2, ViewAssumption
  <2>4. c \in t.proposed
    BY <1>2, <2>1, <2>3 DEF Good, MadeInv, MadeOf
  <2>5. v = 1 /\ c.height < v
    BY <1>1, <1>3, <2>4
  <2> QED
    BY <2>1, <2>5
<1>4. proposeBlock(r, t, v) = ProcessBlock(r, u, b)
  BY <1>12 DEF proposeBlock
<1>5. Keeps(r, t, w, p) /\ b \in p.proposed
  <2>1. Keeps(r, t, w, p)
    BY <1>1, <1>2, <1>3, <1>11, <1>12, Propose
  <2>2. CASE t \in HS!State
    BY <2>1, <2>2 DEF HS!State
  <2>3. CASE t \in SL!State
    BY <2>1, <2>3 DEF SL!State
  <2> QED
    BY <1>2, <2>1, <2>2, <2>3 DEF Good
<1> HIDE DEF p
<1>6. Good(r, p, w) /\ OfProtocol(p) /\ Offered(r, p, w, b)
  <2>1. Good(r, p, w) /\ OfProtocol(p)
    BY <1>2, <1>5, SameProtocol DEF Keeps
  <2> QED
    BY <1>5, <2>1 DEF Good, TrustInv
<1>7. BlockMsg(b) \in Message /\ Sound(r, p, w, BlockMsg(b))
  BY <1>6, <1>12 DEF BlockMsg, Message, Sound
<1>8. Keeps(r, p, w, u)
  BY <1>6, <1>7, SendKeeps
<1> HIDE DEF u
<1>9. Good(r, u, w) /\ OfProtocol(u) /\ Offered(r, u, w, b)
  BY <1>6, <1>8, SameProtocol, KeepsOffered DEF Keeps
<1>10. Keeps(r, u, w, ProcessBlock(r, u, b))
  BY <1>9, <1>12, BlockKeeps
<1> QED
  BY <1>1, <1>4, <1>5, <1>8, <1>10, KeepsThen


-----------------------------------------------------------------------------
(* The replicas. *)

\* IndInv, of the states S
AllGood(S) ==
  /\ DOMAIN S = Replica
  /\ \A r \in Replica : OfProtocol(S[r]) /\ Good(r, S[r], WorldOf(S))

\* What was good remains so when other replicas vote and propose.
LEMMA GoodMore ==
  ASSUME NEW r \in Replica, NEW s, NEW w, Good(r, s, w), NEW x,
         \A q \in Replica : VotesOf(r, s, w, q) \subseteq VotesOf(r, s, x, q),
         \A q \in Replica : \A b \in VotesOf(r, s, x, q) : Offered(r, s, x, b),
         MadeOf(s, w) \subseteq MadeOf(s, x), MadeInv(r, s, x)
  PROVE  Good(r, s, x)
<1>1. /\ \A id : Backed(r, s, w, id) => Backed(r, s, x, id)
      /\ \A b : Offered(r, s, w, b) => Offered(r, s, x, b)
      /\ \A m \in Message : Sound(r, s, w, m) => Sound(r, s, x, m)
      /\ \A b : ThreeChain(r, s, w, b) => ThreeChain(r, s, x, b)
  BY BackedMore, OfferedMore, ChainMore
<1>2. s.out \in [Replica -> Seq(Message)] /\ s.votes \in SUBSET (Block \X Replica)
  BY CommonFields DEF Good
<1>3. \A q \in Replica : \A i \in DOMAIN s.out[q] : s.out[q][i] \in Message
  BY <1>2
<1>4. \A v \in s.votes : v[2] \in Replica
  BY <1>2
<1>5. TrustInv(r, s, x)
  BY <1>1, <1>3, <1>4 DEF Good, TrustInv
<1>6. CommitInv(r, s, x)
  BY <1>1 DEF Good, CommitInv, LastCommit
<1>7. Stored(s, x)
  BY StoredMore DEF Good, Alike
<1> QED
  BY <1>5, <1>6, <1>7 DEF Good

\* What a replica has proposed is among what all have.
LEMMA MadeOfAll ==
  ASSUME NEW S, NEW r \in Replica
  PROVE  /\ MadeOf(S[r], WorldOf(S)) = WorldOf(S).made
         /\ \A q \in Replica : WorldOf(S).voted[q] = Range(S[q].voted)
         /\ WorldOf(S).made = UNION {S[q].proposed : q \in Replica}
BY DEF MadeOf, WorldOf

\* A replica does what handlers may do.
LEMMA OneStep ==
  ASSUME NEW S, AllGood(S), NEW r \in Replica, NEW t, Keeps(r, S[r], WorldOf(S), t)
  PROVE  AllGood([S EXCEPT ![r] = t])
<1> DEFINE R == [S EXCEPT ![r] = t]
           w == WorldOf(S)
           x == WorldOf(R)
<1>1. DOMAIN R = Replica /\ R[r] = t /\ \A q \in Replica \ {r} : R[q] = S[q]
  BY DEF AllGood
<1> HIDE DEF R
<1>2. \A q \in Replica : w.voted[q] = Range(S[q].voted) /\ x.voted[q] = Range(R[q].voted)
  BY MadeOfAll
<1>7. /\ \A q \in Replica : MadeOf(S[q], w) = w.made /\ MadeOf(R[q], x) = x.made
      /\ MadeOf(t, w) = x.made /\ w.made \subseteq x.made
  <2>1. /\ w.made = UNION {S[q].proposed : q \in Replica}
        /\ x.made = UNION {R[q].proposed : q \in Replica}
        /\ \A q \in Replica : MadeOf(S[q], w) = w.made /\ MadeOf(R[q], x) = x.made
    BY MadeOfAll
  <2>2. S[r].proposed \subseteq t.proposed
    BY DEF Keeps
  <2> HIDE DEF w, x
  <2>3. t.proposed \cup w.made = x.made
    <3>1. \A q \in Replica : S[q].proposed \subseteq R[q].proposed
      BY <1>1, <2>2
    <3>2. \A q \in Replica : R[q].proposed \subseteq S[q].proposed \cup t.proposed
      BY <1>1
    <3> QED
      BY <1>1, <2>1, <3>1, <3>2
  <2> QED
    BY <2>1, <2>3 DEF MadeOf
<1>8. Good(r, t, w) /\ OfProtocol(t)
  <2>1. OfProtocol(S[r])
    BY DEF AllGood
  <2> QED
    BY <2>1, SameProtocol DEF Keeps
<1> HIDE DEF w, x
<1>9. IsTree(x.made)
  BY <1>7, <1>8 DEF Good, MadeInv
<1>3. Good(r, t, x)
  <2>1. \A q \in Replica : VotesOf(r, t, w, q) = VotesOf(r, t, x, q)
    BY <1>1, <1>2 DEF VotesOf
  <2>2. MadeOf(t, w) = MadeOf(t, x)
    BY <1>1, <1>7
  <2>3. \A q \in Replica : \A b \in VotesOf(r, t, x, q) : Offered(r, t, x, b)
    <3>1. \A b : Offered(r, t, w, b) => Offered(r, t, x, b)
      BY <2>1, <2>2, OfferedMore
    <3> QED
      BY <1>8, <2>1, <3>1 DEF Good, TrustInv
  <2>4. MadeInv(r, t, x)
    <3>1. MadeInv(r, t, w)
      BY <1>8 DEF Good
    <3>2. \A b \in x.made : b.proposer = r => b \in t.proposed
      BY <1>7, <3>1 DEF MadeInv, MadeOf
    <3> QED
      BY <2>2, <3>1, <3>2 DEF MadeInv
  <2> QED
    BY <1>8, <2>1, <2>2, <2>3, <2>4, GoodMore
<1>4. ASSUME NEW q \in Replica \ {r} PROVE Good(q, S[q], x)
  <2>1. Range(S[r].voted) \subseteq Range(t.voted)
    BY DEF Keeps
  <2>2. \A p \in Replica : VotesOf(q, S[q], w, p) \subseteq VotesOf(q, S[q], x, p)
    BY <1>1, <1>2, <2>1 DEF VotesOf
  <2>3. Good(q, S[q], w) /\ OfProtocol(S[q])
    BY DEF AllGood, w
  <2>5. MadeOf(S[q], x) = x.made /\ MadeOf(t, x) = x.made /\ MadeOf(S[q], w) \subseteq x.made
    BY <1>1, <1>7
  <2>4. \A p \in Replica : \A b \in VotesOf(q, S[q], x, p) : Offered(q, S[q], x, b)
    <3>1. \A p \in Replica : VotesOf(r, t, x, p) = VotesOf(q, S[q], x, p)
      BY <1>1, <1>2 DEF VotesOf
    <3>2. \A id : {p \in Replica : id \in VotesOf(r, t, x, p)}
                    = {p \in Replica : id \in VotesOf(q, S[q], x, p)}
      BY <3>1
    <3>3. \A b : Offered(r, t, x, b) => Offered(q, S[q], x, b)
      BY <2>5, <3>2 DEF Backed, Offered
    <3> QED
      BY <1>3, <3>1, <3>3 DEF Good, TrustInv
  <2>6. MadeInv(q, S[q], x)
    <3>1. \A b \in x.made : b.proposer = q => b \in S[q].proposed
      <4> SUFFICES ASSUME NEW b \in x.made, b.proposer = q PROVE b \in S[q].proposed
        OBVIOUS
      <4>1. b \in t.proposed \cup w.made
        BY <1>7 DEF MadeOf
      <4>2. b \notin t.proposed
        BY <1>8 DEF Good, PaceInv
      <4> QED
        BY <2>3, <4>1, <4>2 DEF Good, MadeInv
    <3>2. S[q] \in SL!State => t \in SL!State
      BY <1>8, <2>3, StatesDiffer DEF OfProtocol
    <3>3. S[q] \in SL!State => \A b \in x.made : b.height = 1 => b.prev = Genesis
      BY <1>3, <2>5, <3>2 DEF Good, MadeInv
    <3> QED
      BY <1>9, <2>5, <3>1, <3>3 DEF MadeInv
  <2> QED
    BY <2>2, <2>3, <2>4, <2>5, <2>6, GoodMore
<1>6. \A q \in Replica : OfProtocol(R[q]) /\ Good(q, R[q], x)
  <2> TAKE q \in Replica
  <2>1. CASE q = r
    BY <1>1, <1>3, <1>8, <2>1
  <2>2. CASE q # r
    BY <1>1, <1>4, <2>2 DEF AllGood
  <2> QED
    BY <2>1, <2>2
<1> QED
  BY <1>1, <1>6 DEF AllGood, R, x

\* A message is taken from its link: it is sound where it arrives.
LEMMA TakeMessage ==
  ASSUME NEW S, AllGood(S), NEW r \in Replica, NEW v \in Replica \ {r},
         NEW i \in DOMAIN S[v].out[r], NEW R, R = [S EXCEPT ![v].out[r] = RemoveAt(@, i)]
  PROVE  /\ AllGood(R) /\ R[r] = S[r]
         /\ S[v].out[r][i] \in Message
         /\ Sound(r, R[r], WorldOf(R), S[v].out[r][i])
<1> DEFINE s == S[v]
           w == WorldOf(S)
           m == s.out[r][i]
           z == RemoveAt(s.out[r], i)
           o == [s.out EXCEPT ![r] = z]
           t == [s EXCEPT !.out = o]
<1>1. Good(v, s, w) /\ DOMAIN S = Replica
  BY DEF AllGood
<1>2. s.out \in [Replica -> Seq(Message)] /\ s.out[r] \in Seq(Message)
  BY <1>1, CommonFields DEF Good
<1>3. R = [S EXCEPT ![v] = t] /\ R[r] = S[r]
  <2>1. t = [s EXCEPT !.out[r] = z]
    <3>1. CASE s \in HS!State
      BY <3>1 DEF HS!State
    <3>2. CASE s \in SL!State
      BY <3>2 DEF SL!State
    <3> QED
      BY <1>1, <3>1, <3>2 DEF Good
  <2> HIDE DEF t
  <2> QED
    BY <1>1, <2>1
<1>4. /\ z \in Seq(Message)
      /\ \A j \in DOMAIN z : \E k \in DOMAIN s.out[r] : z[j] = s.out[r][k]
  <2> DEFINE q == s.out[r]
             n == Len(q)
  <2>1. q \in Seq(Message) /\ i \in 1..n /\ n \in Nat
    BY <1>2
  <2>2. z = SubSeq(q, 1, i - 1) \o SubSeq(q, i + 1, n)
    BY DEF RemoveAt
  <2> HIDE DEF q, n
  <2> DEFINE a == SubSeq(q, 1, i - 1)
             c == SubSeq(q, i + 1, n)
  <2>3. /\ a \in Seq(Message) /\ Len(a) = i - 1
        /\ \A j \in 1 .. i - 1 : a[j] = q[j]
    <3>1. 1 \in Int /\ i - 1 \in Int /\ \A j \in 1 .. i - 1 : q[j] \in Message
      BY <2>1 DEF n
    <3>2. /\ a \in Seq(Message) /\ Len(a) = IF 1 <= i - 1 THEN i - 1 - 1 + 1 ELSE 0
          /\ \A j \in 1 .. i - 1 - 1 + 1 : a[j] = q[1 + j - 1]
      BY <3>1, SubSeqProperties
    <3> HIDE DEF a
    <3>3. \A j \in 1 .. i - 1 : j \in 1 .. i - 1 - 1 + 1 /\ 1 + j - 1 = j
      BY <2>1
    <3> QED
      BY <2>1, <3>2, <3>3
  <2>4. /\ c \in Seq(Message) /\ Len(c) = n - i
        /\ \A j \in 1 .. n - i : c[j] = q[i + j]
    <3>1. i + 1 \in Int /\ n \in Int /\ \A j \in i + 1 .. n : q[j] \in Message
      BY <2>1 DEF n
    <3>2. /\ c \in Seq(Message) /\ Len(c) = IF i + 1 <= n THEN n - (i + 1) + 1 ELSE 0
          /\ \A j \in 1 .. n - (i + 1) + 1 : c[j] = q[i + 1 + j - 1]
      BY <3>1, SubSeqProperties
    <3> HIDE DEF c
    <3>3. \A j \in 1 .. n - i : j \in 1 .. n - (i + 1) + 1 /\ i + 1 + j - 1 = i + j
      BY <2>1
    <3> QED
      BY <2>1, <3>2, <3>3
  <2>5. /\ z \in Seq(Message) /\ Len(z) = n - 1
        /\ \A j \in 1 .. n - 1 : z[j] = IF j < i THEN a[j] ELSE c[j - (i - 1)]
    <3>1. z = a \o c
      BY <2>2
    <3> HIDE DEF a, c, z
    <3>2. /\ z \in Seq(Message) /\ Len(z) = Len(a) + Len(c)
          /\ \A j \in 1 .. Len(a) + Len(c) : z[j] = IF j <= Len(a) THEN a[j] ELSE c[j - Len(a)]
      BY <2>3, <2>4, <3>1, ConcatProperties
    <3> QED
      BY SMTT(30), <2>1, <2>3, <2>4, <3>2
  <2> HIDE DEF a, c, z
  <2>6. ASSUME NEW j \in 1 .. n - 1 PROVE \E k \in 1..n : z[j] = q[k]
    <3>1. CASE j < i
      <4>1. j \in 1 .. i - 1 /\ j \in 1..n
        BY <2>1, <3>1
      <4> QED
        BY <2>3, <2>5, <3>1, <4>1
    <3>2. CASE ~(j < i)
      <4>1. j - (i - 1) \in 1 .. n - i /\ i + (j - (i - 1)) \in 1..n
        BY <2>1, <3>2
      <4> QED
        BY <2>4, <2>5, <3>2, <4>1
    <3> QED
      BY <3>1, <3>2
  <2>7. DOMAIN z = 1 .. n - 1 /\ DOMAIN q = 1..n
    BY <2>1, <2>5 DEF n
  <2> QED
    BY <2>5, <2>6, <2>7 DEF q
<1>5. Keeps(v, s, w, t)
  <2>1. o \in [Replica -> Seq(Message)]
    BY <1>2, <1>4
  <2>2. \A q \in Replica : \A j \in DOMAIN o[q] : \E k \in DOMAIN s.out[q] : o[q][j] = s.out[q][k]
    BY <1>2, <1>4
  <2> HIDE DEF o
  <2> QED
    BY ZenonT(40), <1>1, <2>1, <2>2, SetOut
<1>6. AllGood(R)
  <2> HIDE DEF t
  <2>1. AllGood([S EXCEPT ![v] = t])
    BY <1>5, OneStep
  <2> QED
    BY <1>3, <2>1
<1>7. m \in Message /\ Sound(v, s, w, m)
  BY <1>1, <1>2 DEF Good, TrustInv
<1>8. Sound(r, R[r], WorldOf(R), m)
  <2>1. /\ \A q \in Replica : VotesOf(v, s, w, q) = VotesOf(r, R[r], WorldOf(R), q)
        /\ MadeOf(s, w) = MadeOf(R[r], WorldOf(R))
    <3>1. t.voted = s.voted /\ t.proposed = s.proposed
      <4>1. CASE s \in HS!State
        BY <4>1 DEF HS!State
      <4>2. CASE s \in SL!State
        BY <4>2 DEF SL!State
      <4> QED
        BY <1>1, <4>1, <4>2 DEF Good
    <3> HIDE DEF t
    <3>2. \A q \in Replica : R[q].voted = S[q].voted /\ R[q].proposed = S[q].proposed
      BY <1>1, <1>3, <3>1
    <3>5. /\ \A q \in Replica : w.voted[q] = Range(S[q].voted)
          /\ w.made = UNION {S[q].proposed : q \in Replica} /\ MadeOf(s, w) = w.made
      BY MadeOfAll
    <3> DEFINE x == WorldOf(R)
    <3>6. /\ \A q \in Replica : x.voted[q] = Range(R[q].voted)
          /\ x.made = UNION {R[q].proposed : q \in Replica} /\ MadeOf(R[r], x) = x.made
      BY DEF MadeOf, WorldOf
    <3> HIDE DEF w, x
    <3>3. \A q \in Replica : VotesOf(v, s, w, q) = VotesOf(r, R[r], x, q)
      BY <3>2, <3>5, <3>6 DEF VotesOf
    <3>4. w.made = x.made
      BY <3>2, <3>5, <3>6
    <3> QED
      BY <3>3, <3>4, <3>5, <3>6 DEF x
  <2> HIDE DEF m, s, w
  <2>2. \A id : Backed(v, s, w, id) => Backed(r, R[r], WorldOf(R), id)
    <3>1. \A id : {q \in Replica : id \in VotesOf(v, s, w, q)}
                    = {q \in Replica : id \in VotesOf(r, R[r], WorldOf(R), q)}
      BY <2>1
    <3> QED
      BY <3>1 DEF Backed
  <2>3. m.type = "vote" => m.voter \in Replica
    BY <1>7 DEF Message
  <2> QED
    BY <1>7, <2>1, <2>2, <2>3 DEF Sound, Offered
<1> QED
  BY <1>3, <1>6, <1>7, <1>8


\* IndInv says that the states of the replicas are good.
LEMMA IndInvIs ==
  IndInv <=> algorithm \in Algorithms /\ started \subseteq Replica /\ AllGood(rs)
BY DEF IndInv, AllGood, OfProtocol, World, WorldOf

\* The new states are good, and the protocol is the same.
LEMMA IndInvNext ==
  ASSUME IndInv, algorithm' = algorithm, started' \subseteq Replica, AllGood(rs')
  PROVE  IndInv'
BY DEF IndInv, AllGood, OfProtocol, World, WorldOf, UsesHotStuff

\* NewHotStuff and NewStreamlet are good states.
LEMMA NewIsGood ==
  ASSUME NEW r \in Replica, NEW w, \A q \in Replica : w.voted[q] = {}, w.made = {}
  PROVE  /\ HS!NewHotStuff \in HS!State /\ Good(r, HS!NewHotStuff, w)
         /\ SL!NewStreamlet \in SL!State /\ Good(r, SL!NewStreamlet, w)
         /\ HS!NewHotStuff.voted = <<>> /\ SL!NewStreamlet.voted = <<>>
         /\ HS!NewHotStuff.proposed = {} /\ SL!NewStreamlet.proposed = {}
<1>1. IsFiniteSet({}) /\ Backed(r, HS!NewHotStuff, w, Genesis)
  BY FS_EmptySet DEF Backed
<1>2. NewLevelledForest \in Forest /\ NewLevelledForest.full = {}
     /\ NewLevelledForest.lowest = 0
  BY BlockAssumption DEF NewLevelledForest, Forest, Level
<1>3. HS!NewLevelledForest = NewLevelledForest /\ SL!NewLevelledForest = NewLevelledForest
  BY DEF HS!NewLevelledForest, SL!NewLevelledForest, NewLevelledForest, HS!Level, SL!Level, Level
<1>6. /\ IsTree({}) /\ StoreOf(NewLevelledForest, {})
      /\ \A s : s.proposed = {} => MadeOf(s, w) = {}
  <2>1. 0 \in Level /\ \A l \in Level : NewLevelledForest.atLevel[l] = <<>>
    BY BlockAssumption DEF NewLevelledForest, Level
  <2>2. Range(<<>>) = {}
    BY DEF Range
  <2>3. IsTree({})
    BY DEF IsTree
  <2>4. StoreOf(NewLevelledForest, {})
    BY <1>1, <1>2, <2>1, <2>2 DEF StoreOf
  <2> QED
    BY <2>3, <2>4 DEF MadeOf
<1>4. /\ HS!NewHotStuff \in HS!State /\ Good(r, HS!NewHotStuff, w)
      /\ HS!NewHotStuff.voted = <<>> /\ HS!NewHotStuff.proposed = {}
  <2> DEFINE s == HS!NewHotStuff
  <2>1. s \in HS!State
    BY <1>2, <1>3, Names, BlockAssumption
       DEF HS!NewHotStuff, HS!NewPacemaker, HS!State, View, Identifier, Replica
  <2>2. s \notin SL!State
    BY <2>1, StatesDiffer
  <2>3. /\ s.curView = 0 /\ s.newViewChan = <<>> /\ s.votes = {} /\ s.bufferedBlocks = {}
        /\ s.bufferedQCs = {} /\ s.highQC = Genesis /\ s.bc = NewLevelledForest
        /\ s.proposed = {} /\ s.out = [q \in Replica |-> <<>>]
        /\ s.voted = <<>> /\ s.committed = <<>> /\ ~s.halted
    BY <1>3, Names DEF HS!NewHotStuff, HS!NewPacemaker
  <2> HIDE DEF s
  <2>4. Finite(s)
    BY <1>1, <1>2, <2>2, <2>3 DEF Finite
  <2>5. PaceInv(r, s)
    <3>1. DOMAIN s.newViewChan = {}
      BY <2>3
    <3> QED
      BY <2>3, <3>1 DEF PaceInv
  <2>6. TrustInv(r, s, w)
    <3>1. Backed(r, s, w, s.highQC)
      BY <2>3 DEF Backed
    <3>2. Range(s.committed) = {} /\ \A q \in Replica : VotesOf(r, s, w, q) = {}
      BY <2>3 DEF VotesOf, Range
    <3> QED
      BY <2>2, <2>3, <3>1, <3>2 DEF TrustInv
  <2>7. CommitInv(r, s, w)
    BY <1>2, <2>3 DEF CommitInv
  <2>8. Stored(s, w) /\ MadeInv(r, s, w)
    BY <1>6, <2>2, <2>3 DEF Stored, MadeInv
  <2> QED
    BY <2>1, <2>3, <2>4, <2>5, <2>6, <2>7, <2>8 DEF Good, s
<1>5. /\ SL!NewStreamlet \in SL!State /\ Good(r, SL!NewStreamlet, w)
      /\ SL!NewStreamlet.voted = <<>> /\ SL!NewStreamlet.proposed = {}
  <2> DEFINE s == SL!NewStreamlet
  <2> DEFINE z == [curView |-> 0, newViewChan |-> <<>>, timeouts |-> {}, advancing |-> {},
                   notarizedChain |-> <<>>, votes |-> {}, bufferedBlocks |-> {},
                   bufferedQCs |-> {}, bufferedNotarizedBlock |-> {}, echoedBlock |-> {},
                   bc |-> NewLevelledForest, committed |-> <<>>, halted |-> FALSE,
                   out |-> [q \in Replica |-> <<>>], proposed |-> {}, voted |-> <<>>]
  <2>1. s = AdvanceView(z, 0)
    BY <1>3, Names, SameOperations DEF SL!NewStreamlet, SL!NewPacemaker
  <2> HIDE DEF s
  <2>2. /\ z \in SL!State
        /\ z.curView = 0 /\ z.newViewChan = <<>> /\ z.notarizedChain = <<>> /\ z.votes = {}
        /\ z.bufferedBlocks = {} /\ z.bufferedQCs = {} /\ z.bufferedNotarizedBlock = {}
        /\ z.bc = NewLevelledForest /\ z.proposed = {} /\ z.out = [q \in Replica |-> <<>>]
        /\ z.voted = <<>> /\ z.committed = <<>>
    <3>1. z \in SL!State
      BY <1>2, Names DEF SL!State
    <3> QED
      BY <3>1
  <2> HIDE DEF z
  <2>3. s = [z EXCEPT !.curView = 1, !.newViewChan = <<1>>]
    <3>1. ~(0 < 0) /\ 0 + 1 = 1 /\ Append(<<>>, 1) = <<1>>
      OBVIOUS
    <3> QED
      BY <2>1, <2>2, <3>1 DEF AdvanceView
  <2>4. s \in SL!State
    <3>1. 1 \in Nat /\ <<1>> \in Seq(Nat)
      OBVIOUS
    <3>2. z \in SL!State
      BY <2>2
    <3> QED
      BY <2>3, <3>1, <3>2 DEF SL!State
  <2>5. s \notin HS!State
    BY <2>4, StatesDiffer
  <2>6. /\ s.curView = 1 /\ s.newViewChan = <<1>> /\ s.notarizedChain = <<>> /\ s.votes = {}
        /\ s.bufferedBlocks = {} /\ s.bufferedQCs = {} /\ s.bufferedNotarizedBlock = {}
        /\ s.bc = NewLevelledForest /\ s.proposed = {} /\ s.out = [q \in Replica |-> <<>>]
        /\ s.voted = <<>> /\ s.committed = <<>>
    BY <2>3, <2>2 DEF SL!State
  <2>7. SL!Certificates(s) = {}
    BY <2>6 DEF SL!Certificates, SL!Range
  <2>8. Finite(s)
    BY <1>1, <1>2, <2>6 DEF Finite
  <2>9. PaceInv(r, s)
    <3>1. DOMAIN s.newViewChan = {1} /\ s.newViewChan[1] = 1
      BY <2>6
    <3> QED
      BY <2>6, <3>1 DEF PaceInv
  <2>10. TrustInv(r, s, w)
    <3>1. Range(s.committed) = {} /\ \A q \in Replica : VotesOf(r, s, w, q) = {}
      BY <2>6 DEF VotesOf, Range
    <3> QED
      BY <2>5, <2>7, <2>6, <3>1 DEF TrustInv
  <2>11. CommitInv(r, s, w)
    BY <2>5 DEF CommitInv
  <2>12. Stored(s, w) /\ MadeInv(r, s, w)
    BY <1>2, <1>6, <2>5, <2>6 DEF Stored, MadeInv, Begun
  <2> QED
    BY <2>4, <2>6, <2>8, <2>9, <2>10, <2>11, <2>12 DEF Good, s
<1> QED
  BY <1>4, <1>5

\* The initial states satisfy the invariant.
LEMMA InitInv == Init => IndInv
<1> SUFFICES ASSUME Init PROVE IndInv
  OBVIOUS
<1>1. /\ algorithm \in Algorithms /\ started = {} /\ DOMAIN rs = Replica
      /\ \A r \in Replica : rs[r] = NewSafety(algorithm)
  BY DEF Init
<1>2. (\A q \in Replica : WorldOf(rs).voted[q] = {}) /\ WorldOf(rs).made = {}
  <2> DEFINE w == [voted |-> [p \in Replica |-> {}], made |-> {}]
  <2>1. (\A p \in Replica : w.voted[p] = {}) /\ w.made = {}
    OBVIOUS
  <2> HIDE DEF w
  <2>2. \A q \in Replica :
          /\ HS!NewHotStuff.voted = <<>> /\ SL!NewStreamlet.voted = <<>>
          /\ HS!NewHotStuff.proposed = {} /\ SL!NewStreamlet.proposed = {}
    BY <2>1, NewIsGood
  <2>3. \A q \in Replica : rs[q].voted = <<>> /\ rs[q].proposed = {}
    BY <1>1, <2>2 DEF NewSafety
  <2>4. Range(<<>>) = {}
    BY DEF Range
  <2> QED
    BY <2>3, <2>4 DEF WorldOf
<1>3. \A r \in Replica : OfProtocol(rs[r]) /\ Good(r, rs[r], WorldOf(rs))
  <2> TAKE r \in Replica
  <2> QED
    BY <1>1, <1>2, NewIsGood DEF NewSafety, UsesHotStuff, OfProtocol
<1> QED
  BY <1>1, <1>3, IndInvIs DEF AllGood

\* Every step keeps the invariant.
LEMMA NextInv == IndInv /\ [Next]_vars => IndInv'
<1> SUFFICES ASSUME IndInv, [Next]_vars PROVE IndInv'
  OBVIOUS
<1>1. /\ algorithm \in Algorithms /\ started \subseteq Replica /\ AllGood(rs)
      /\ DOMAIN rs = Replica
      /\ \A r \in Replica : OfProtocol(rs[r]) /\ Good(r, rs[r], WorldOf(rs))
  BY IndInvIs DEF AllGood
<1>2. ASSUME NEW r \in Replica, NEW t, Keeps(r, rs[r], WorldOf(rs), t),
             algorithm' = algorithm, started' \subseteq Replica, rs' = [rs EXCEPT ![r] = t]
      PROVE  IndInv'
  <2>1. AllGood([rs EXCEPT ![r] = t])
    BY <1>1, <1>2, OneStep
  <2>2. AllGood(rs')
    BY <1>2, <2>1
  <2> QED
    BY <1>2, <2>2, IndInvNext
<1>3. ASSUME NEW r \in Replica, NEW v \in Replica \ {r}, Deliver(r, v)
      PROVE  IndInv'
  <2>1. PICK i \in DOMAIN rs[v].out[r] :
          LET m == rs[v].out[r][i]
              sent == [rs EXCEPT ![v].out[r] = RemoveAt(@, i)]
          IN  \/ rs' = [sent EXCEPT ![r] = Handle(r, @, v, m)] /\ startSignal(r)
              \/ IsStale(rs[r], m) /\ rs' = sent /\ UNCHANGED started
    BY <1>3 DEF Deliver
  <2> DEFINE m == rs[v].out[r][i]
             sent == [rs EXCEPT ![v].out[r] = RemoveAt(@, i)]
             h == Handle(r, sent[r], v, m)
  <2>2. algorithm' = algorithm /\ started' \subseteq Replica
    BY <1>1, <1>3, <2>1 DEF Deliver, startSignal
  <2>3. /\ AllGood(sent) /\ sent[r] = rs[r]
        /\ m \in Message /\ Sound(r, sent[r], WorldOf(sent), m)
    BY <1>1, TakeMessage
  <2>4. rs' = [sent EXCEPT ![r] = h] \/ rs' = sent
    BY <2>1
  <2> HIDE DEF sent, m
  <2>5. Keeps(r, sent[r], WorldOf(sent), h)
    BY <2>3, HandleKeeps DEF AllGood
  <2> HIDE DEF h
  <2>6. AllGood([sent EXCEPT ![r] = h])
    BY <2>3, <2>5, OneStep
  <2>7. AllGood(rs')
    BY <2>3, <2>4, <2>6
  <2> QED
    BY <2>2, <2>7, IndInvNext
<1>4. ASSUME NEW r \in Replica, Query(r) PROVE IndInv'
  <2>1. algorithm' = algorithm /\ started' \subseteq Replica /\ rs' = rs
    BY <1>1, <1>4 DEF Query, startSignal
  <2> QED
    BY <1>1, <2>1, IndInvNext
<1>5. ASSUME NEW r \in Replica, NewView(r) PROVE IndInv'
  <2> DEFINE s == rs[r]
             t == [s EXCEPT !.newViewChan = Tail(@)]
             v == Head(s.newViewChan)
             u == IF r = Leader(v) THEN proposeBlock(r, t, v) ELSE t
  <2>1. /\ s.newViewChan # <<>> /\ algorithm' = algorithm /\ started' = started
        /\ rs' = [rs EXCEPT ![r] = u]
        /\ r = Leader(v) => MakeProposal(r, t, v) \in Block
    BY <1>5 DEF NewView, WithinBounds
  <2>2. OfProtocol(s) /\ Good(r, s, WorldOf(rs))
    BY <1>1
  <2>3. Keeps(r, s, WorldOf(rs), u)
    BY <2>1, <2>2, ProposeKeeps, TakeView
  <2> HIDE DEF u
  <2> QED
    BY <1>1, <1>2, <2>1, <2>3
<1>6. ASSUME NEW r \in Replica, Timeout(r) PROVE IndInv'
  <2>1. Keeps(r, rs[r], WorldOf(rs), ProcessLocalTmo(r, rs[r]))
    BY <1>1, TmoKeeps
  <2> QED
    BY <1>1, <1>2, <1>6, <2>1 DEF Timeout
<1>7. ASSUME NEW r \in Replica, AdvanceLater(r) PROVE IndInv'
  <2> DEFINE s == rs[r]
             w == WorldOf(rs)
  <2>1. s \in SL!State /\ Good(r, s, w)
    BY <1>1, <1>7 DEF AdvanceLater, OfProtocol
  <2>2. PICK v \in s.advancing :
          rs' = [rs EXCEPT ![r] = AdvanceView([rs[r] EXCEPT !.advancing = @ \ {v}], v)]
    BY <1>7 DEF AdvanceLater
  <2> DEFINE A == s.advancing \ {v}
             t == [s EXCEPT !.advancing = A]
             u == AdvanceView(t, v)
  <2>3. v \in Nat /\ A \in SUBSET Nat
    BY <2>1 DEF SL!State
  <2>4. rs' = [rs EXCEPT ![r] = u]
    <3>1. [s EXCEPT !.advancing = @ \ {v}] = t
      BY DEF A
    <3> QED
      BY <2>2, <3>1
  <2> HIDE DEF A
  <2>5. Keeps(r, s, w, t)
    BY <2>1, <2>3, SetOther
  <2> HIDE DEF t
  <2>6. Good(r, t, w)
    BY <2>5 DEF Keeps
  <2>7. Keeps(r, t, w, u)
    BY <2>3, <2>6, AdvanceKeeps
  <2> HIDE DEF u
  <2>8. Keeps(r, s, w, u)
    BY <2>5, <2>7, KeepsThen
  <2> QED
    BY <1>1, <1>2, <1>7, <2>4, <2>8 DEF AdvanceLater
<1>8. CASE UNCHANGED vars
  <2>1. algorithm' = algorithm /\ started' = started /\ rs' = rs
    BY <1>8 DEF vars
  <2> QED
    BY <1>1, <2>1, IndInvNext
<1> QED
  BY <1>3, <1>4, <1>5, <1>6, <1>7, <1>8 DEF Next

\* The invariant holds of every reachable state of replica_view.go.
THEOREM ViewInvariance == Spec => []IndInv
<1> QED
  BY InitInv, NextInv, PTL DEF Spec

\* Every variable of replica_view.go holds a value of its kind.
THEOREM ViewTypeCorrect == Spec => []TypeOK
<1>1. IndInv => TypeOK
  BY DEF IndInv, TypeOK
<1> QED
  BY <1>1, ViewInvariance, PTL

\* A leader proposes one block in a view, although the pacemaker is advanced by
\* certificates, timeouts and timers in any order: the views that processNewView
\* takes ascend.
THEOREM ProposedOnce == Spec => []OneProposalPerView
<1>1. IndInv => OneProposalPerView
  <2> SUFFICES ASSUME IndInv, NEW b \in Proposed, NEW c \in Proposed, b.height = c.height
               PROVE  b = c
    BY DEF OneProposalPerView
  <2>1. PICK r \in Replica : b \in rs[r].proposed
    BY DEF Proposed
  <2>2. PICK q \in Replica : c \in rs[q].proposed
    BY DEF Proposed
  <2>3. /\ Good(r, rs[r], World) /\ Good(q, rs[q], World)
        /\ b \in Block /\ c \in Block
    BY <2>1, <2>2, CommonFields DEF IndInv, Good
  <2>4. b.proposer = r /\ c.proposer = q
    BY <2>1, <2>2, <2>3 DEF Good, PaceInv
  <2>5. r = q
    BY <2>3, <2>4, ViewAssumption
  <2> QED
    BY <2>1, <2>2, <2>3, <2>5 DEF Good, PaceInv
<1> QED
  BY <1>1, ViewInvariance, PTL

\* However late a leader handles a view, what has been proposed is a tree: each
\* block is on Genesis or on one made before it, since the certificate a leader
\* proposes with is one that voters have seen; and Streamlet's block of view 1 is
\* on Genesis, since nothing is notarized before it is made.
THEOREM ProposalsAreTree == Spec => []ProposalTree
<1>1. IndInv => ProposalTree
  <2> SUFFICES ASSUME IndInv PROVE ProposalTree
    OBVIOUS
  <2>1. PICK r \in Replica : TRUE
    BY NAssumption DEF Replica
  <2>2. MadeOf(rs[r], World) = Proposed
    BY MadeOfAll DEF World, Proposed
  <2>3. MadeInv(r, rs[r], World) /\ OfProtocol(rs[r])
    BY DEF IndInv, Good, OfProtocol
  <2>4. IsTree(Proposed)
    BY <2>2, <2>3 DEF MadeInv
  <2>5. ~UsesHotStuff => SL!StreamletTree(Proposed)
    BY <2>2, <2>3, <2>4 DEF MadeInv, OfProtocol, SL!StreamletTree, SL!IsTree, IsTree
  <2> QED
    BY <2>4, <2>5 DEF ProposalTree
<1> QED
  BY <1>1, ViewInvariance, PTL

\* A replica of HotStuff always comes back from PruneUpToLevel, in whatever order
\* blocks came in: the first container of a level is that of the only block that was
\* made for this view, so that the search goes back along parents.
THEOREM PruningComesBack == Spec => []PruningReturns
<1>1. IndInv => PruningReturns
  BY DEF IndInv, Good, Stored, PruningReturns
<1> QED
  BY <1>1, ViewInvariance, PTL

\* What is backed by votes in the invariant has votes.
LEMMA BackedHasVotes ==
  ASSUME NEW r \in Replica, NEW b, Backed(r, rs[r], World, b), b # Genesis
  PROVE  HasVotes(b) /\ b \in Block /\ b \in Voted
<1>1. \A q \in Replica : VotesOf(r, rs[r], World, q) = Range(rs[q].voted)
  BY DEF VotesOf, World, WorldOf
<1> DEFINE A == {q \in Replica : b \in Range(rs[q].voted)}
<1>2. {q \in Replica : b \in VotesOf(r, rs[r], World, q)} = A
  BY <1>1
<1>3. 3 * Cardinality(A) > 2 * N /\ b \in Block
  BY <1>2 DEF Backed
<1>4. A # {}
  <2> SUFFICES ASSUME A = {} PROVE FALSE
    OBVIOUS
  <2> HIDE DEF A
  <2>1. Cardinality(A) = 0
    BY FS_EmptySet
  <2> QED
    BY <2>1, <1>3, NAssumption
<1> QED
  BY <1>3, <1>4 DEF HasVotes, Voted

\* Behind every certificate a replica stores, buffers or proposes with there is a
\* super majority of replicas that voted for its block.
THEOREM BackedByVotes == Spec => []CertificatesAreVotes
<1>1. IndInv => CertificatesAreVotes
  <2> SUFFICES ASSUME IndInv, NEW b \in Certified PROVE HasVotes(b)
    BY DEF CertificatesAreVotes
  <2>3. \E r \in Replica : Backed(r, rs[r], World, b) /\ b # Genesis
    <3>1. CASE b \in UNION {Certificates(rs[r]) : r \in Replica}
      <4>1. PICK r \in Replica : b \in Certificates(rs[r])
        BY <3>1
      <4>2. CASE UsesHotStuff
        BY <4>1, <4>2 DEF IndInv, Good, TrustInv, Certificates, HS!Certificates
      <4>3. CASE ~UsesHotStuff
        <5>1. b \in SL!Certificates(rs[r]) /\ rs[r] \in SL!State /\ Good(r, rs[r], World)
          BY <4>1, <4>3 DEF IndInv, Certificates
        <5>2. SL!Certificates(rs[r]) \subseteq Block
          BY <5>1 DEF SL!Certificates, SL!State, SL!Range
        <5> QED
          BY <5>1, <5>2, BlockAssumption DEF Good, TrustInv
      <4> QED
        BY <4>2, <4>3
    <3>2. CASE b \in {c.prev : c \in Proposed} \ {Genesis}
      <4>1. PICK c \in Proposed : b = c.prev /\ b # Genesis
        BY <3>2
      <4>2. PICK r \in Replica : c \in rs[r].proposed
        BY <4>1 DEF Proposed
      <4> QED
        BY <4>1, <4>2 DEF IndInv, Good, TrustInv, Offered
    <3> DEFINE X == UNION {Certificates(rs[r]) : r \in Replica}
               Y == {c.prev : c \in Proposed} \ {Genesis}
    <3>3. Certified = X \cup Y
      BY DEF Certified
    <3> HIDE DEF X, Y
    <3>4. b \in X \/ b \in Y
      BY <3>3
    <3> QED
      BY <3>1, <3>2, <3>4 DEF X, Y
  <2> QED
    BY <2>3, BackedHasVotes
<1> QED
  BY <1>1, ViewInvariance, PTL

\* A replica of HotStuff commits only a block that two blocks of the next two views
\* extend, each with the votes of a super majority, although a certificate may come
\* after its view was left and then raises no lock.
THEOREM CommitsRestOnChains == Spec => []CommitsAreThreeChains
<1>1. IndInv => CommitsAreThreeChains
  <2> SUFFICES ASSUME IndInv, UsesHotStuff, NEW r \in Replica, rs[r].bc.lowest > 0
               PROVE  \E b \in Range(rs[r].committed), x, y \in Voted :
                        /\ b.height = rs[r].bc.lowest
                        /\ x.prev = b /\ x.height = b.height + 1
                        /\ y.prev = x /\ y.height = b.height + 2
                        /\ \A c \in {b, x, y} : HasVotes(c)
    BY DEF CommitsAreThreeChains
  <2>1. LastCommit(r, rs[r], World) /\ rs[r] \in HS!State
    BY DEF IndInv, Good, CommitInv
  <2>2. PICK b \in Range(rs[r].committed) :
               b.height = rs[r].bc.lowest /\ ThreeChain(r, rs[r], World, b)
    BY <2>1 DEF LastCommit
  <2>3. PICK x \in Block, y \in Block :
               /\ x.prev = b /\ x.height = b.height + 1
               /\ y.prev = x /\ y.height = b.height + 2
               /\ Backed(r, rs[r], World, b) /\ Backed(r, rs[r], World, x)
               /\ Backed(r, rs[r], World, y)
    BY <2>2 DEF ThreeChain
  <2>4. b \in Block
    BY <2>1, CommonFields DEF Range
  <2>5. b # Genesis /\ x # Genesis /\ y # Genesis
    BY <2>3, <2>4, BlockFields
  <2>6. HasVotes(b) /\ HasVotes(x) /\ HasVotes(y) /\ x \in Voted /\ y \in Voted
    BY <2>3, <2>5, BackedHasVotes
  <2> QED
    BY <2>2, <2>3, <2>6
<1> QED
  BY <1>1, ViewInvariance, PTL

\* Every committed block was voted for by a super majority, the ancestors that a
\* commit takes along included: a vote is cast only for a block whose parent has a
\* certificate.
THEOREM CommittedHaveVotes == Spec => []CommittedAreVoted
<1>1. IndInv => CommittedAreVoted
  <2> SUFFICES ASSUME IndInv, NEW r \in Replica, NEW b \in Range(rs[r].committed)
               PROVE  HasVotes(b)
    BY DEF CommittedAreVoted
  <2>1. /\ rs[r] \in HS!State \cup SL!State
        /\ Backed(r, rs[r], World, b)
    BY DEF IndInv, Good, TrustInv
  <2>2. b \in Block
    BY <2>1, CommonFields DEF Range
  <2> QED
    BY <2>1, <2>2, BlockFields, BackedHasVotes
<1> QED
  BY <1>1, ViewInvariance, PTL
=============================================================================
