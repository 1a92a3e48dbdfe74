---------------------------- MODULE ReplicaProofs ---------------------------
(***************************************************************************)
(* Proofs about Replica, for both algorithms and every number of replicas, *)
(* blocks, links, silent replicas and timers.  IndInv relates the state of *)
(* each replica to the logs of all of them; the lemmas of HandlerProofs    *)
(* carry it through a step, and counting voters makes it imply             *)
(* FinalityAgreement.                                                      *)
(***************************************************************************)
EXTENDS HandlerProofs

-----------------------------------------------------------------------------
(* The whole system. *)

NCasts == {p \in Block \X Replica : p[1] \in Cast(rs[p[2]].sent)}
FCasts == {p \in Block \X Replica : p[1] \in FCast(rs[p[2]].sent)}
FastBlocks == UNION {FastCast(rs[v].sent) : v \in Replica}

\* The replicas other than r with a fast share of height h among the messages
\* n[v] of v
FastSeen(r, h, n) ==
  {v \in Replica \ {r} : \E i \in n[v] : IsFast(rs[v].sent[i], h)}

\* What r may know when it has handled the messages n[v] of each v
World(r, n, k) ==
  [nshares |-> NCasts, fshares |-> FCasts, fast |-> FastBlocks,
   base    |-> [h \in Height |-> Cardinality(FastSeen(r, h, n))],
   height  |-> k]

\* The messages n[v] are in the log of v.
Handled(n) == \A v \in Replica : n[v] \subseteq DOMAIN rs[v].sent

\* The blocks of r that r has sent
Made(r, log) == {b \in BlocksIn(log) : b.proposer = r}

\* Proposals of r: none before ListenLocalEvent runs, then at most one for a
\* height and rank, none ahead of the height and rank it works on.
ProposalInv(r, log, lo) ==
  /\ lo.pc # "running" => Made(r, log) = {} /\ lo.height = 1 /\ lo.rank = 0
  /\ \A b \in Made(r, log) :
       \/ b.height < lo.height
       \/ b.height = lo.height /\ b.rank <= lo.rank
  /\ \A b, c \in Made(r, log) : b.height = c.height /\ b.rank = c.rank => b = c

\* The inductive invariant.
IndInv ==
  /\ TypeOK
  /\ \A r \in Replica :
       /\ HandlerInv(r, rs[r], World(r, got[r], local[r].height))
       /\ ProposalInv(r, rs[r].sent, local[r])
       /\ \A b \in BlocksIn(rs[r].sent) : b \in BlocksIn(rs[b.proposer].sent)
       /\ Handled(got[r])

\* b is a proposal of r on its head, at a height it was told of and ahead of
\* its earlier proposals.
ProposesOn(r, b) ==
  /\ b.proposer = r /\ b.prev = rs[r].headId /\ b.height <= rs[r].curHeight
  /\ \A c \in Made(r, rs[r].sent) : \/ c.height < b.height
                                    \/ c.height = b.height /\ c.rank < b.rank

\* The only new blocks of a step are such proposals.
NewBlocks ==
  \A b \in Proposed' : b \in Proposed \/ \E r \in Replica : ProposesOn(r, b)

\* What a leader proposes, it sends.
ProposalSent(r, height, rank) ==
  IsLeader(r, height, rank) => MakeProposal(r, rs[r], height, rank) \in Proposed'

\* No message is ever taken back.
LogsGrow ==
  \A v \in Replica : /\ Len(rs[v].sent) <= Len(rs'[v].sent)
                     /\ \A i \in 1..Len(rs[v].sent) : rs'[v].sent[i] = rs[v].sent[i]

\* z knows at least as much as w.
Wider(w, z) ==
  /\ w.nshares \subseteq z.nshares /\ w.fshares \subseteq z.fshares
  /\ w.fast \subseteq z.fast
  /\ z.base \in [Height -> Nat] /\ \A h \in Height : w.base[h] <= z.base[h]
  /\ z.height = w.height

\* HandlerInv does not forbid the others to send more.
LEMMA WiderKeeps ==
  ASSUME NEW r \in Replica, NEW s, NEW w, NEW z, HandlerInv(r, s, w), Wider(w, z)
  PROVE  HandlerInv(r, s, z)
<1>1. s \in State({s.ledger}) /\ w.base \in [Height -> Nat] /\ z.base \in [Height -> Nat]
  BY DEF HandlerInv, Wider
<1>2. s.fastVotes \in [Height -> Nat]
  BY <1>1, StateTypes
<1>3. \A h \in Height : s.fastVotes[h] <= z.base[h] + OwnFast(s.sent, h)
  <2> TAKE h \in Height
  <2>1. /\ s.fastVotes[h] <= w.base[h] + OwnFast(s.sent, h) /\ w.base[h] <= z.base[h]
        /\ s.fastVotes[h] \in Nat /\ w.base[h] \in Nat /\ z.base[h] \in Nat
    BY <1>1, <1>2 DEF HandlerInv, BagInv, Wider
  <2>2. OwnFast(s.sent, h) \in Nat
    BY DEF OwnFast
  <2> QED BY <2>1, <2>2
<1>4. BagInv(r, s, z)
  BY <1>3 DEF HandlerInv, BagInv, Wider
<1>5. QuorumInv(s, z)
  BY DEF HandlerInv, QuorumInv, Wider
<1>6. ChanInv(s, z)
  BY DEF HandlerInv, ChanInv, Wider
<1> QED BY <1>1, <1>4, <1>5, <1>6 DEF HandlerInv, Wider

\* The sets of replicas that were counted are finite.
LEMMA FastSeenFinite ==
  ASSUME NEW S \in SUBSET Replica, NEW T \in SUBSET Replica, S \subseteq T
  PROVE  /\ IsFiniteSet(S) /\ Cardinality(S) \in Nat /\ Cardinality(T) \in Nat
         /\ Cardinality(S) <= Cardinality(T)
<1>1. IsFiniteSet(Replica)
  BY FS_Interval, ReplicaAssumption DEF Replica
<1>2. IsFiniteSet(T) /\ IsFiniteSet(S)
  BY <1>1, FS_Subset
<1> QED BY <1>2, FS_Subset, FS_CardinalityType

\* While logs grow, what a replica may know grows.
LEMMA WorldGrows ==
  ASSUME \A v \in Replica : /\ rs[v].sent \in Seq(Message) /\ rs'[v].sent \in Seq(Message)
                            /\ Len(rs[v].sent) <= Len(rs'[v].sent)
                            /\ \A i \in 1..Len(rs[v].sent) : rs'[v].sent[i] = rs[v].sent[i],
         NEW q \in Replica, NEW n, Handled(n),
         NEW k, got'[q] = n, local'[q].height = k
  PROVE  Wider(World(q, n, k), World(q, got[q], local[q].height)')
<1>1. \A v \in Replica : /\ Cast(rs[v].sent) \subseteq Cast(rs'[v].sent)
                         /\ FastCast(rs[v].sent) \subseteq FastCast(rs'[v].sent)
                         /\ FCast(rs[v].sent) \subseteq FCast(rs'[v].sent)
  BY LogGrows
<1>2. NCasts \subseteq NCasts' /\ FCasts \subseteq FCasts' /\ FastBlocks \subseteq FastBlocks'
  BY ZenonT(40), <1>1 DEF NCasts, FCasts, FastBlocks
<1>3. ASSUME NEW h \in Height
      PROVE  /\ Cardinality(FastSeen(q, h, n)) <= Cardinality(FastSeen(q, h, got[q])')
             /\ Cardinality(FastSeen(q, h, got[q])') \in Nat
  <2>1. FastSeen(q, h, n) \subseteq FastSeen(q, h, got[q])'
    <3>1. ASSUME NEW v \in Replica \ {q}, NEW i \in n[v], IsFast(rs[v].sent[i], h)
          PROVE  i \in got'[q][v] /\ IsFast(rs'[v].sent[i], h)
      <4>1. i \in 1..Len(rs[v].sent)
        BY DEF Handled
      <4> QED BY <3>1, <4>1
    <3> QED BY <3>1 DEF FastSeen
  <2>2. FastSeen(q, h, n) \in SUBSET Replica /\ FastSeen(q, h, got[q])' \in SUBSET Replica
    BY DEF FastSeen
  <2> QED BY <2>1, <2>2, FastSeenFinite
<1> QED BY <1>2, <1>3 DEF Wider, World

\* A step of r that keeps HandlerInv for what r knows afterwards keeps IndInv.
LEMMA ReplicaStep ==
  ASSUME IndInv, NEW r \in Replica, NEW t, NEW n \in [Replica -> SUBSET Nat], NEW lo \in LocalState,
         Handled(n),
         HandlerInv(r, t, World(r, n, lo.height)),
         Len(rs[r].sent) <= Len(t.sent),
         \A i \in 1..Len(rs[r].sent) : t.sent[i] = rs[r].sent[i],
         ProposalInv(r, t.sent, lo),
         \A b \in BlocksIn(t.sent) : b \in BlocksIn(rs[b.proposer].sent) \/ b.proposer = r,
         DOMAIN rs' = Replica, got' = [got EXCEPT ![r] = n], local' = [local EXCEPT ![r] = lo],
         \A q \in Replica : rs'[q] = IF q = r THEN t ELSE rs[q]
  PROVE  IndInv' /\ LogsGrow
<1>1. /\ DOMAIN rs = Replica /\ local \in [Replica -> LocalState]
      /\ got \in [Replica -> [Replica -> SUBSET Nat]]
      /\ \A q \in Replica : rs[q] \in State({rs[q].ledger})
  BY DEF IndInv, TypeOK
<1>2. t \in State({t.ledger})
  BY DEF HandlerInv
<1>3. /\ \A q \in Replica : got'[q] = IF q = r THEN n ELSE got[q]
      /\ \A q \in Replica : local'[q] = IF q = r THEN lo ELSE local[q]
      /\ local' \in [Replica -> LocalState] /\ got' \in [Replica -> [Replica -> SUBSET Nat]]
  BY <1>1
<1>4. TypeOK'
  <2>1. \A q \in Replica : rs'[q] \in State({rs'[q].ledger})
    BY <1>1, <1>2, <1>3
  <2> QED BY <1>3, <2>1 DEF TypeOK
<1>5. \A q \in Replica : rs[q].sent \in Seq(Message) /\ Len(rs[q].sent) \in Nat
  <2> TAKE q \in Replica
  <2>1. rs[q].sent \in Seq(Message)
    BY <1>1, StateTypes
  <2> QED BY <2>1
<1>6. t.sent \in Seq(Message)
  BY <1>2, StateTypes
<1>7. \A v \in Replica : /\ rs[v].sent \in Seq(Message) /\ rs'[v].sent \in Seq(Message)
                         /\ Len(rs[v].sent) <= Len(rs'[v].sent)
                         /\ \A i \in 1..Len(rs[v].sent) : rs'[v].sent[i] = rs[v].sent[i]
  BY <1>3, <1>5, <1>6
<1>8. ASSUME NEW q \in Replica
      PROVE  HandlerInv(q, rs'[q], World(q, got[q], local[q].height)')
  <2>1. CASE q = r
    <3>1. got'[q] = n /\ local'[q].height = lo.height /\ rs'[q] = t
      BY <1>3, <2>1
    <3>2. Wider(World(q, n, lo.height), World(q, got[q], local[q].height)')
      BY <1>7, <3>1, WorldGrows
    <3> QED BY <2>1, <3>1, <3>2, WiderKeeps
  <2>2. CASE q # r
    <3>1. /\ got'[q] = got[q] /\ local'[q].height = local[q].height /\ rs'[q] = rs[q]
      BY <1>1, <1>3, <2>2
    <3>2. Handled(got[q])
      BY DEF IndInv
    <3>3. Wider(World(q, got[q], local[q].height), World(q, got[q], local[q].height)')
      BY <1>7, <3>1, <3>2, WorldGrows
    <3>4. HandlerInv(q, rs[q], World(q, got[q], local[q].height))
      BY DEF IndInv
    <3> QED BY <3>1, <3>3, <3>4, WiderKeeps
  <2> QED BY <2>1, <2>2
<1>9. \A q \in Replica : ProposalInv(q, rs'[q].sent, local'[q])
  BY <1>3 DEF IndInv
<1>10. ASSUME NEW q \in Replica, NEW b \in BlocksIn(rs'[q].sent)
       PROVE  b \in BlocksIn(rs'[b.proposer].sent)
  <2>1. b \in Block
    BY <1>7, LogTypes
  <2>2. b.proposer \in Replica
    BY <2>1, ReplicaAssumption DEF Replica
  <2>3. BlocksIn(rs[b.proposer].sent) \subseteq BlocksIn(rs'[b.proposer].sent)
    <3>1. \A v \in Replica : BlocksIn(rs[v].sent) \subseteq BlocksIn(rs'[v].sent)
      BY <1>7, LogGrows
    <3> QED BY <2>2, <3>1
  <2>4. CASE q = r
    BY <1>3, <2>2, <2>3, <2>4
  <2>5. CASE q # r
    BY <1>3, <2>3, <2>5 DEF IndInv
  <2> QED BY <2>4, <2>5
<1>11. \A q \in Replica : Handled(got[q])'
  <2> TAKE q \in Replica
  <2>1. Handled(got'[q])
    BY <1>3 DEF IndInv
  <2>2. \A v \in Replica : DOMAIN rs[v].sent \subseteq DOMAIN rs'[v].sent
    BY <1>7
  <2> QED BY <2>1, <2>2 DEF Handled
<1> QED
  BY <1>4, <1>7, <1>8, <1>9, <1>10, <1>11 DEF IndInv, LogsGrow

\* The initial state: nothing was sent.
LEMMA InitInd == Init => IndInv
<1> SUFFICES ASSUME Init PROVE IndInv
  OBVIOUS
<1>1. NewState \in State({NewState.ledger})
  <2>1. /\ <<>> \in Seq(Nat) /\ <<>> \in Seq(Message) /\ 0 \in Level /\ Genesis \in Identifier
        /\ 0 \in Nat /\ 1 \in Nat
    BY BlockAssumption DEF Level, Identifier
  <2> HIDE BlockAssumption
  <2> QED BY <2>1 DEF NewState, State
<1>2. /\ NewState.sent = <<>> /\ NewState.nShares = {} /\ NewState.fShares = {}
      /\ NewState.isNotarized = {} /\ NewState.isFinalized = {} /\ NewState.echoedBlock = {}
      /\ NewState.fastVotes = [h \in Height |-> 0] /\ NewState.curHeight = 1
      /\ NewState.newHeightChan = <<>> /\ NewState.sentNSharesNo = [h \in Height |-> 0]
  BY DEF NewState
<1>3. BlocksIn(<<>>) = {} /\ Cast(<<>>) = {} /\ FastCast(<<>>) = {} /\ FCast(<<>>) = {}
  BY DEF BlocksIn, Cast, FastCast, FCast
<1>4. TypeOK
  BY <1>1 DEF Init, TypeOK, LocalState
<1>5. ASSUME NEW r \in Replica
      PROVE  HandlerInv(r, NewState, World(r, got[r], local[r].height))
  <2> DEFINE w == World(r, got[r], local[r].height)
  <2>1. local[r].height = 1
    BY DEF Init
  <2>2. \A h \in Height : FastSeen(r, h, got[r]) \in SUBSET Replica
    BY DEF FastSeen
  <2>3. \A h \in Height : Cardinality(FastSeen(r, h, got[r])) \in Nat
    BY <2>2, FastSeenFinite
  <2>4. w.base \in [Height -> Nat] /\ w.height = 1
    BY <2>1, <2>3 DEF World
  <2> HIDE DEF w
  <2>5. VoteInv(NewState) /\ FShareInv(NewState) /\ FastShareInv(NewState) /\ BlockInv(NewState)
    BY <1>2, <1>3 DEF VoteInv, FShareInv, FSharesFollow, FastShareInv, BlockInv
  <2>6. \A h \in Height : NewState.fastVotes[h] <= w.base[h] + OwnFast(NewState.sent, h)
    BY <1>2, <1>3, <2>4 DEF OwnFast
  <2>7. BagInv(r, NewState, w) /\ QuorumInv(NewState, w) /\ ChanInv(NewState, w)
    BY <1>2, <1>3, <2>4, <2>6 DEF BagInv, QuorumInv, ChanInv
  <2>8. HandlerInv(r, NewState, w)
    BY <1>1, <2>4, <2>5, <2>7 DEF HandlerInv
  <2> QED BY <2>8 DEF w
<1>6. \A r \in Replica : /\ rs[r] = NewState
                         /\ local[r] = [pc |-> "waiting", height |-> 1, rank |-> 0]
                         /\ \A v \in Replica : got[r][v] = {}
  BY DEF Init
<1>7. \A r \in Replica : ProposalInv(r, rs[r].sent, local[r])
  BY <1>2, <1>3, <1>6 DEF ProposalInv, Made
<1>8. \A r \in Replica : Handled(got[r])
  BY <1>6 DEF Handled
<1> QED BY <1>2, <1>3, <1>4, <1>5, <1>6, <1>7, <1>8 DEF IndInv

\* Taking a height from the channel.
LEMMA ChanStep ==
  ASSUME NEW r \in Replica, NEW s, NEW w, HandlerInv(r, s, w), s.newHeightChan # <<>>,
         NEW t, t = [s EXCEPT !.newHeightChan = Tail(s.newHeightChan)],
         NEW z, z.nshares = w.nshares, z.fshares = w.fshares, z.fast = w.fast,
         z.base = w.base, z.height = Head(s.newHeightChan)
  PROVE  HandlerInv(r, t, z) /\ w.height < z.height /\ z.height \in Nat
<1> DEFINE ch == s.newHeightChan
           new == t.newHeightChan
<1>1. s \in State({s.ledger}) /\ w.height \in Nat
  BY DEF HandlerInv
<1>2. s.newHeightChan \in Seq(Nat)
  BY <1>1, StateTypes
<1>3. Tail(s.newHeightChan) \in Seq(Nat)
  BY <1>2
<1>4. /\ t \in State({t.ledger}) /\ t.newHeightChan = Tail(s.newHeightChan)
      /\ t.nShares = s.nShares /\ t.fShares = s.fShares /\ t.fastVotes = s.fastVotes
      /\ t.headHeight = s.headHeight /\ t.sentNRank = s.sentNRank
      /\ t.sentNSharesNo = s.sentNSharesNo /\ t.sentNShareId = s.sentNShareId
      /\ t.isNotarized = s.isNotarized /\ t.isFinalized = s.isFinalized
      /\ t.echoedBlock = s.echoedBlock /\ t.curHeight = s.curHeight /\ t.sent = s.sent
  BY <1>1, <1>3 DEF State
<1>5. VoteInv(t) /\ FShareInv(t) /\ FastShareInv(t) /\ BlockInv(t)
  BY <1>4 DEF HandlerInv, VoteInv, FShareInv, FastShareInv, BlockInv
<1>6. BagInv(r, t, z) /\ QuorumInv(t, z)
  BY <1>4 DEF HandlerInv, BagInv, QuorumInv, NQuorum, IsNotarizedBanyan
<1>7. /\ DOMAIN ch = 1..Len(ch) /\ Len(ch) \in Nat /\ Len(ch) > 0
      /\ \A i \in 1..Len(ch) : ch[i] \in Nat
      /\ DOMAIN new = 1..(Len(ch) - 1)
      /\ \A i \in 1..(Len(ch) - 1) : new[i] = ch[i + 1]
      /\ z.height = ch[1]
  BY <1>2, <1>4
<1>8. /\ \A i \in 1..Len(ch) : w.height < ch[i] /\ ch[i] <= s.curHeight
      /\ \A i, j \in 1..Len(ch) : i < j => ch[i] < ch[j]
  BY <1>7 DEF HandlerInv, ChanInv
<1> HIDE DEF ch, new
<1>9. \A i \in DOMAIN new : i + 1 \in 1..Len(ch) /\ new[i] = ch[i + 1] /\ i \in Nat /\ 1 < i + 1
  BY <1>7
<1>10. 1 \in 1..Len(ch)
  BY <1>7
<1>11. w.height < z.height /\ z.height \in Nat /\ z.height <= s.curHeight
  BY <1>7, <1>8, <1>10
<1>12. \A i \in DOMAIN new : z.height < new[i] /\ new[i] <= s.curHeight
  BY <1>7, <1>8, <1>9, <1>10
<1>13. \A i, j \in DOMAIN new : i < j => new[i] < new[j]
  <2> SUFFICES ASSUME NEW i \in DOMAIN new, NEW j \in DOMAIN new, i < j
               PROVE  new[i] < new[j]
    OBVIOUS
  <2>1. i + 1 < j + 1
    BY <1>9
  <2> QED BY <1>8, <1>9, <2>1
<1>14. ChanInv(t, z)
  BY <1>4, <1>11, <1>12, <1>13 DEF ChanInv, new
<1> QED BY <1>4, <1>5, <1>6, <1>11, <1>14 DEF HandlerInv

\* ListenLocalEvent makes a proposal that is ahead of all its earlier ones.
LEMMA ProposeInd ==
  ASSUME IndInv, NEW r \in Replica, NEW s, NEW height \in Nat, NEW rank \in Nat,
         HandlerInv(r, s, World(r, got[r], height)), s.sent = rs[r].sent,
         s.headId = rs[r].headId, height <= rs[r].curHeight,
         \A b \in Made(r, rs[r].sent) : \/ b.height < height
                                        \/ b.height = height /\ b.rank < rank,
         Propose(r, s, height, rank)
  PROVE  IndInv' /\ NewBlocks /\ LogsGrow /\ ProposalSent(r, height, rank)
<1> DEFINE w == World(r, got[r], height)
           lo == [pc |-> "running", height |-> height, rank |-> rank]
           b == MakeProposal(r, s, height, rank)
<1>1. PICK t \in proposeIfLeader(r, s, height, rank) : rs' = [rs EXCEPT ![r] = t]
  BY DEF Propose
<1>2. /\ DOMAIN rs = Replica /\ got \in [Replica -> [Replica -> SUBSET Nat]]
      /\ rs[r] \in State({rs[r].ledger})
  BY DEF IndInv, TypeOK
<1>3. s \in State({s.ledger}) /\ s.sent \in Seq(Message)
  BY StateTypes DEF HandlerInv
<1>4. lo \in LocalState /\ lo.height = height /\ lo.pc = "running" /\ lo.rank = rank
  BY DEF LocalState
<1>5. /\ b.proposer = r /\ b.height = height /\ b.rank = rank /\ b.prev = rs[r].headId
      /\ IsLeader(r, height, rank) => b \in Block
  BY DEF MakeProposal, Propose, WithinBounds
<1>6. local' = [local EXCEPT ![r] = lo] /\ got' = [got EXCEPT ![r] = got[r]]
  BY <1>2 DEF Propose
<1>7. DOMAIN rs' = Replica /\ \A q \in Replica : rs'[q] = IF q = r THEN t ELSE rs[q]
  BY <1>1, <1>2
<1>8. CASE IsLeader(r, height, rank)
  <2> DEFINE u == Broadcast(s, BlockMsg(b))
  <2>1. t \in ProcessBlock(r, u, b)
    BY <1>1, <1>8 DEF proposeIfLeader
  <2>2. b \in Block /\ IsLeader(b.proposer, b.height, b.rank)
    BY <1>5, <1>8
  <2> HIDE DEF b, w, lo
  <2>3. Append(s.sent, BlockMsg(b)) \in Seq(Message)
    BY <1>3, <2>2 DEF BlockMsg, Message
  <2>4. u = [s EXCEPT !.sent = Append(s.sent, BlockMsg(b))]
    BY <1>3 DEF State, Broadcast
  <2> HIDE DEF u
  <2>5. /\ u \in State({u.ledger}) /\ u.sent = Append(s.sent, BlockMsg(b))
        /\ u.echoedBlock \subseteq s.echoedBlock \cup {b}
        /\ u.nShares = s.nShares /\ u.fShares = s.fShares /\ u.fastVotes = s.fastVotes
        /\ u.headHeight = s.headHeight /\ u.sentNRank = s.sentNRank
        /\ u.sentNSharesNo = s.sentNSharesNo /\ u.sentNShareId = s.sentNShareId
        /\ u.isNotarized = s.isNotarized /\ u.isFinalized = s.isFinalized
        /\ u.curHeight = s.curHeight /\ u.newHeightChan = s.newHeightChan
    BY <1>3, <2>3, <2>4 DEF State
  <2>6. HandlerInv(r, s, w)
    BY DEF w
  <2>7. HandlerInv(r, u, w) /\ Grows(s, u, b) /\ b \in BlocksIn(u.sent)
    BY <2>2, <2>5, <2>6, BlockStep
  <2>8. HandlerInv(r, t, w) /\ Grows(u, t, b)
    BY <2>1, <2>2, <2>7, ProcessBlockKeeps
  <2>9. u.sent \in Seq(Message) /\ t.sent \in Seq(Message)
    BY <2>7, <2>8, StateTypes DEF HandlerInv
  <2>10. Grows(s, t, b)
    BY <1>3, <2>7, <2>8, <2>9, GrowsTrans
  <2>11. Made(r, t.sent) \subseteq Made(r, rs[r].sent) \cup {b}
    BY <2>10 DEF Grows, Made
  <2>12. ProposalInv(r, t.sent, lo)
    <3>1. \A c \in Made(r, rs[r].sent) : c.height \in Nat /\ c.rank \in Nat
      <4>1. BlocksIn(rs[r].sent) \subseteq Block
        BY <1>3, LogTypes
      <4> QED BY <1>2, <4>1, StateTypes DEF Made
    <3>2. \A c, d \in Made(r, rs[r].sent) : c.height = d.height /\ c.rank = d.rank => c = d
      BY DEF IndInv, ProposalInv
    <3>3. \A c \in Made(r, t.sent) : c.height < height \/ (c.height = height /\ c.rank <= rank)
      <4> TAKE c \in Made(r, t.sent)
      <4>1. CASE c = b
        BY <1>5, <4>1
      <4>2. CASE c \in Made(r, rs[r].sent)
        BY <3>1, <4>2
      <4> QED BY <2>11, <4>1, <4>2
    <3>4. \A c, d \in Made(r, t.sent) : c.height = d.height /\ c.rank = d.rank => c = d
      BY <1>5, <2>11, <3>1, <3>2
    <3> QED BY <1>4, <3>3, <3>4 DEF ProposalInv
  <2>13. \A c \in BlocksIn(t.sent) : c \in BlocksIn(rs[c.proposer].sent) \/ c.proposer = r
    BY <1>5, <2>10 DEF Grows, IndInv
  <2>14. got[r] \in [Replica -> SUBSET Nat] /\ Handled(got[r])
    BY <1>2 DEF IndInv
  <2>15. /\ Len(rs[r].sent) <= Len(t.sent)
         /\ \A i \in 1..Len(rs[r].sent) : t.sent[i] = rs[r].sent[i]
    BY <2>10 DEF Grows
  <2>16. HandlerInv(r, t, World(r, got[r], lo.height))
    BY <1>4, <2>8 DEF w
  <2>17. ProposesOn(r, b)
    BY <1>5 DEF ProposesOn
  <2>18. NewBlocks
    BY <1>7, <2>10, <2>17 DEF NewBlocks, Proposed, Grows
  <2>19. ProposalSent(r, height, rank)
    <3>1. b \in BlocksIn(t.sent)
      BY <2>7, <2>8, <2>9, LogGrows DEF Grows
    <3>2. MakeProposal(r, rs[r], height, rank) = b
      BY DEF MakeProposal, b
    <3> QED BY <1>7, <3>1, <3>2 DEF ProposalSent, Proposed
  <2>20. IndInv' /\ LogsGrow
    BY ZenonT(40), <1>4, <1>6, <1>7, <2>12, <2>13, <2>14, <2>15, <2>16, ReplicaStep
  <2> QED BY <2>18, <2>19, <2>20
<1>9. CASE ~IsLeader(r, height, rank)
  <2>1. t = s
    BY <1>1, <1>9 DEF proposeIfLeader
  <2> HIDE DEF b, lo
  <2>2. ProposalInv(r, t.sent, lo)
    <3>1. \A c \in Made(r, rs[r].sent) : c.height \in Nat /\ c.rank \in Nat
      <4>1. BlocksIn(rs[r].sent) \subseteq Block
        BY <1>3, LogTypes
      <4> QED BY <1>2, <4>1, StateTypes DEF Made
    <3> QED BY <1>4, <2>1, <3>1 DEF IndInv, ProposalInv
  <2>3. \A c \in BlocksIn(t.sent) : c \in BlocksIn(rs[c.proposer].sent) \/ c.proposer = r
    BY <2>1 DEF IndInv
  <2>4. got[r] \in [Replica -> SUBSET Nat] /\ Handled(got[r])
    BY <1>2 DEF IndInv
  <2>5. /\ Len(rs[r].sent) <= Len(t.sent)
        /\ \A i \in 1..Len(rs[r].sent) : t.sent[i] = rs[r].sent[i]
    BY <1>3, <2>1
  <2>6. HandlerInv(r, t, World(r, got[r], lo.height))
    BY <1>4, <2>1
  <2>7. NewBlocks
    BY <1>7, <2>1 DEF NewBlocks, Proposed
  <2>8. IndInv' /\ LogsGrow
    BY ZenonT(40), <1>4, <1>6, <1>7, <2>2, <2>3, <2>4, <2>5, <2>6, ReplicaStep
  <2> QED BY <1>9, <2>7, <2>8 DEF ProposalSent
<1> QED BY <1>8, <1>9

\* A message handled for the first time is a fast share not yet counted.
LEMMA FastSeenMore ==
  ASSUME NEW r \in Replica, NEW v \in Replica \ {r}, NEW n \in [Replica -> SUBSET Nat],
         NEW h \in Height, NEW k \in DOMAIN rs[v].sent \ n[v],
         n[v] \subseteq DOMAIN rs[v].sent,
         FastShareInv(rs[v]), NEW more, more = [n EXCEPT ![v] = @ \cup {k}]
  PROVE  /\ Cardinality(FastSeen(r, h, n)) \in Nat
         /\ Cardinality(FastSeen(r, h, more)) \in Nat
         /\ Cardinality(FastSeen(r, h, n)) <= Cardinality(FastSeen(r, h, more))
         /\ IsFast(rs[v].sent[k], h) =>
              Cardinality(FastSeen(r, h, n)) + 1 <= Cardinality(FastSeen(r, h, more))
<1>1. \A u \in Replica : n[u] \subseteq more[u] /\ (u = v => k \in more[u])
  OBVIOUS
<1>2. FastSeen(r, h, n) \subseteq FastSeen(r, h, more)
  BY <1>1 DEF FastSeen
<1>3. FastSeen(r, h, n) \in SUBSET Replica /\ FastSeen(r, h, more) \in SUBSET Replica
  BY DEF FastSeen
<1>4. /\ IsFiniteSet(FastSeen(r, h, n)) /\ Cardinality(FastSeen(r, h, n)) \in Nat
      /\ Cardinality(FastSeen(r, h, more)) \in Nat
      /\ Cardinality(FastSeen(r, h, n)) <= Cardinality(FastSeen(r, h, more))
  BY <1>2, <1>3, FastSeenFinite
<1>5. ASSUME IsFast(rs[v].sent[k], h)
      PROVE  Cardinality(FastSeen(r, h, n)) + 1 <= Cardinality(FastSeen(r, h, more))
  <2>1. \A i \in n[v] : ~IsFast(rs[v].sent[i], h)
    BY <1>5 DEF FastShareInv
  <2>2. v \notin FastSeen(r, h, n)
    BY <2>1 DEF FastSeen
  <2>3. v \in FastSeen(r, h, more)
    BY <1>1, <1>5 DEF FastSeen
  <2> DEFINE S == FastSeen(r, h, n)
             T == FastSeen(r, h, more)
  <2>4. /\ S \cup {v} \in SUBSET Replica /\ T \in SUBSET Replica /\ S \cup {v} \subseteq T
        /\ IsFiniteSet(S) /\ v \notin S
    BY <1>2, <1>3, <1>4, <2>2, <2>3
  <2> HIDE DEF S, T
  <2>5. Cardinality(S \cup {v}) = Cardinality(S) + 1
    BY <2>4, FS_AddElement
  <2>6. Cardinality(S \cup {v}) <= Cardinality(T)
    BY <2>4, FastSeenFinite
  <2> QED BY <2>5, <2>6 DEF S, T
<1> QED BY <1>4, <1>5

\* The event loop handles a message.
LEMMA DeliverInd ==
  ASSUME IndInv, NEW r \in Replica, NEW v \in Replica \ {r}, Deliver(r, v)
  PROVE  IndInv' /\ NewBlocks /\ LogsGrow
<1>0. PICK k \in DOMAIN rs[v].sent \ got[r][v] :
        /\ got' = [got EXCEPT ![r][v] = @ \cup {k}]
        /\ \E t \in Handle(r, rs[r], v, rs[v].sent[k]) : rs' = [rs EXCEPT ![r] = t]
  BY DEF Deliver
<1> DEFINE s == rs[r]
           n == [got[r] EXCEPT ![v] = @ \cup {k}]
           lo == [local[r] EXCEPT !.pc = IF @ = "waiting" THEN "started" ELSE @]
           m == rs[v].sent[k]
           b == m.block
           w == World(r, got[r], local[r].height)
           z == World(r, n, local[r].height)
<1>1. /\ DOMAIN rs = Replica /\ local \in [Replica -> LocalState]
      /\ got \in [Replica -> [Replica -> SUBSET Nat]]
      /\ \A q \in Replica : rs[q] \in State({rs[q].ledger})
  BY DEF IndInv, TypeOK
<1>2. rs[v].sent \in Seq(Message) /\ s.sent \in Seq(Message)
  BY <1>1, StateTypes
<1>3. got[r] \in [Replica -> SUBSET Nat] /\ got[r][v] \subseteq DOMAIN rs[v].sent
  BY <1>1 DEF IndInv, Handled
<1>4. k \in DOMAIN rs[v].sent /\ k \in Nat
  BY <1>2
<1>5. m \in Message
  BY <1>2, <1>4
<1>6. b \in Block /\ m.fast \in BOOLEAN /\ m.type \in {"block", "nshare", "fshare"}
  BY <1>5 DEF Message
<1>7. PICK t \in Handle(r, s, v, m) : rs' = [rs EXCEPT ![r] = t]
  BY <1>0
<1>8. /\ got' = [got EXCEPT ![r] = n] /\ local' = [local EXCEPT ![r] = lo]
      /\ n \in [Replica -> SUBSET Nat] /\ lo \in LocalState
      /\ lo.height = local[r].height /\ lo.rank = local[r].rank
      /\ lo.pc = "running" <=> local[r].pc = "running"
  <2>1. got' = [got EXCEPT ![r] = n] /\ n \in [Replica -> SUBSET Nat]
    BY <1>0, <1>1, <1>3, <1>4
  <2>2. local[r] \in LocalState /\ local' = [local EXCEPT ![r] = lo]
    BY <1>1 DEF Deliver, startSignal
  <2>3. /\ lo \in LocalState /\ lo.height = local[r].height /\ lo.rank = local[r].rank
        /\ lo.pc = "running" <=> local[r].pc = "running"
    BY <2>2 DEF LocalState
  <2> QED BY <2>1, <2>2, <2>3
<1>9. DOMAIN rs' = Replica /\ \A q \in Replica : rs'[q] = IF q = r THEN t ELSE rs[q]
  BY <1>1, <1>7
<1>10. HandlerInv(r, s, w) /\ HandlerInv(v, rs[v], World(v, got[v], local[v].height))
  BY DEF IndInv
<1>11. FastShareInv(rs[v]) /\ FShareInv(rs[v]) /\ BlockInv(rs[v])
  BY <1>10 DEF HandlerInv
<1>12. \A h \in Height :
         /\ Cardinality(FastSeen(r, h, got[r])) \in Nat /\ Cardinality(FastSeen(r, h, n)) \in Nat
         /\ Cardinality(FastSeen(r, h, got[r])) <= Cardinality(FastSeen(r, h, n))
         /\ IsFast(m, h) =>
              Cardinality(FastSeen(r, h, got[r])) + 1 <= Cardinality(FastSeen(r, h, n))
  BY <1>3, <1>11, FastSeenMore
<1>13. Wider(w, z)
  BY <1>12 DEF Wider, World
<1>14. HandlerInv(r, s, z)
  BY <1>10, <1>13, WiderKeeps
<1>15. /\ m.type = "nshare" => b \in Cast(rs[v].sent)
       /\ m.type = "nshare" /\ m.fast => b \in FastCast(rs[v].sent)
       /\ m.type = "fshare" => b \in FCast(rs[v].sent)
       /\ m.type = "block" => b \in BlocksIn(rs[v].sent)
  BY <1>4 DEF Cast, FastCast, FCast, BlocksIn
<1>16. /\ m.type = "nshare" => <<b, v>> \in z.nshares
       /\ m.type = "nshare" /\ m.fast => b \in z.fast
       /\ m.type = "fshare" => <<b, v>> \in z.fshares
  <2>1. z.nshares = NCasts /\ z.fshares = FCasts /\ z.fast = FastBlocks
    BY DEF World
  <2> HIDE DEF z, m, b
  <2> QED BY <1>6, <1>15, <2>1 DEF NCasts, FCasts, FastBlocks
<1>17. b \in BlocksIn(rs[v].sent)
  BY <1>6, <1>11, <1>15 DEF FShareInv, BlockInv
<1>18. m.type = "nshare" /\ m.fast =>
         s.fastVotes[b.height] + 1 <= z.base[b.height] + OwnFast(s.sent, b.height)
  <2> DEFINE h == b.height
  <2>1. h \in Height
    BY <1>1, <1>6, StateTypes
  <2>2. /\ w.base[h] = Cardinality(FastSeen(r, h, got[r])) /\ w.base[h] \in Nat
        /\ z.base[h] = Cardinality(FastSeen(r, h, n)) /\ z.base[h] \in Nat
    BY <1>12, <2>1 DEF World
  <2>3. m.type = "nshare" /\ m.fast => w.base[h] + 1 <= z.base[h]
    BY <1>12, <2>1, <2>2 DEF IsFast
  <2>4. s.fastVotes[h] <= w.base[h] + OwnFast(s.sent, h)
    BY <1>10, <2>1 DEF HandlerInv, BagInv
  <2>5. s.fastVotes[h] \in Nat /\ OwnFast(s.sent, h) \in Nat
    <3>1. s.fastVotes \in [Height -> Nat]
      BY <1>1, StateTypes
    <3> QED BY <2>1, <3>1 DEF OwnFast
  <2> HIDE DEF h, w, z, m, s
  <2> QED BY <2>2, <2>3, <2>4, <2>5 DEF h
<1> HIDE DEF w, z, n, lo, m, s
<1>19. HandlerInv(r, t, z) /\ Grows(s, t, b)
  <2>1. CASE m.type = "block"
    <3>1. t \in ProcessBlock(r, s, b)
      BY <1>7, <2>1 DEF Handle
    <3> QED BY <1>6, <1>14, <3>1, ProcessBlockKeeps
  <2>2. CASE m.type = "fshare"
    <3>1. t \in ProcessFinalizationShare(s, v, b)
      BY <1>7, <2>2 DEF Handle
    <3>2. <<b, v>> \in z.fshares
      BY <1>16, <2>2
    <3> QED BY <1>6, <1>14, <3>1, <3>2, ProcessFinalizationShareKeeps
  <2>3. CASE m.type = "nshare"
    <3>1. t \in ProcessNotarizationShare(r, s, v, b, m.fast)
      BY <1>7, <2>3 DEF Handle
    <3>2. <<b, v>> \in z.nshares
      BY <1>16, <2>3
    <3>3. CASE Algorithm = "icc"
      <4>1. t \in IccProcessNotarizationShare(r, s, v, b)
        BY <3>1, <3>3 DEF ProcessNotarizationShare
      <4> QED BY <1>6, <1>14, <3>2, <3>3, <4>1, IccProcessNotarizationShareKeeps
    <3>4. CASE Algorithm # "icc"
      <4> DEFINE fast == m.fast
      <4>1. t \in BanyanProcessNotarizationShare(r, s, v, b, fast)
        BY <3>1, <3>4 DEF ProcessNotarizationShare
      <4>2. /\ fast \in BOOLEAN
            /\ fast => b \in z.fast \cup FastCast(s.sent)
            /\ fast => s.fastVotes[b.height] + 1 <= z.base[b.height] + OwnFast(s.sent, b.height)
        BY <1>6, <1>16, <1>18, <2>3
      <4> HIDE DEF fast
      <4> QED BY <1>6, <1>14, <3>2, <3>4, <4>1, <4>2, BanyanProcessNotarizationShareKeeps
    <3> QED BY <3>3, <3>4
  <2> QED BY <1>6, <2>1, <2>2, <2>3
<1>20. b \in BlocksIn(rs[b.proposer].sent)
  BY <1>17 DEF IndInv
<1>21. \A c \in BlocksIn(t.sent) : c \in BlocksIn(rs[c.proposer].sent)
  BY <1>19, <1>20 DEF Grows, IndInv, s
<1>22. Made(r, t.sent) \subseteq Made(r, s.sent)
  BY <1>21 DEF Made, s
<1>23. ProposalInv(r, t.sent, lo)
  <2>1. ProposalInv(r, s.sent, local[r])
    BY DEF IndInv, s
  <2> QED BY <1>8, <1>22, <2>1 DEF ProposalInv
<1>24. Handled(n)
  <2>1. \A u \in Replica : got[r][u] \subseteq DOMAIN rs[u].sent
    BY DEF IndInv, Handled
  <2> QED BY <1>3, <1>4, <2>1 DEF n, Handled
<1>25. /\ Len(rs[r].sent) <= Len(t.sent)
       /\ \A i \in 1..Len(rs[r].sent) : t.sent[i] = rs[r].sent[i]
  BY <1>19 DEF Grows, s
<1>26. HandlerInv(r, t, World(r, n, lo.height))
  BY <1>8, <1>19 DEF z
<1>27. NewBlocks
  <2>1. \A c \in BlocksIn(t.sent) : c.proposer \in Replica
    <3>1. BlocksIn(t.sent) \subseteq Block
      BY <1>19, StateTypes, LogTypes DEF HandlerInv
    <3> QED BY <3>1, ReplicaAssumption DEF Replica
  <2> QED BY <1>9, <1>21, <2>1 DEF NewBlocks, Proposed
<1> QED BY ZenonT(40), <1>8, <1>9, <1>21, <1>23, <1>24, <1>25, <1>26, <1>27, ReplicaStep

\* A query starts ListenLocalEvent.
LEMMA QueryInd ==
  ASSUME IndInv, NEW r \in Replica, Query(r)
  PROVE  IndInv' /\ NewBlocks /\ LogsGrow
<1> DEFINE lo == [local[r] EXCEPT !.pc = IF @ = "waiting" THEN "started" ELSE @]
<1>1. /\ DOMAIN rs = Replica /\ local \in [Replica -> LocalState]
      /\ got \in [Replica -> [Replica -> SUBSET Nat]] /\ rs[r] \in State({rs[r].ledger})
  BY DEF IndInv, TypeOK
<1>2. local[r] \in LocalState /\ local' = [local EXCEPT ![r] = lo]
  BY <1>1 DEF Query, startSignal
<1>3. /\ lo \in LocalState /\ lo.height = local[r].height /\ lo.rank = local[r].rank
      /\ lo.pc = "running" <=> local[r].pc = "running"
  BY <1>2 DEF LocalState
<1>4. got' = [got EXCEPT ![r] = got[r]] /\ got[r] \in [Replica -> SUBSET Nat]
  BY <1>1 DEF Query
<1> HIDE DEF lo
<1>5. HandlerInv(r, rs[r], World(r, got[r], lo.height))
  BY <1>3 DEF IndInv
<1>6. ProposalInv(r, rs[r].sent, lo)
  BY <1>3 DEF IndInv, ProposalInv
<1>7. \A b \in BlocksIn(rs[r].sent) : b \in BlocksIn(rs[b.proposer].sent) \/ b.proposer = r
  BY DEF IndInv
<1>8. Handled(got[r])
  BY DEF IndInv
<1>9. rs[r].sent \in Seq(Message) /\ Len(rs[r].sent) <= Len(rs[r].sent)
  <2>1. rs[r].sent \in Seq(Message)
    BY <1>1, StateTypes
  <2> QED BY <2>1
<1>10. DOMAIN rs' = Replica /\ \A q \in Replica : rs'[q] = IF q = r THEN rs[r] ELSE rs[q]
  BY <1>1 DEF Query
<1>11. NewBlocks
  BY DEF NewBlocks, Proposed, Query
<1> QED
  <2> DEFINE t == rs[r]
  <2>1. /\ HandlerInv(r, t, World(r, got[r], lo.height)) /\ ProposalInv(r, t.sent, lo)
        /\ \A b \in BlocksIn(t.sent) : b \in BlocksIn(rs[b.proposer].sent) \/ b.proposer = r
        /\ Len(rs[r].sent) <= Len(t.sent)
        /\ \A i \in 1..Len(rs[r].sent) : t.sent[i] = rs[r].sent[i]
        /\ DOMAIN rs' = Replica /\ \A q \in Replica : rs'[q] = IF q = r THEN t ELSE rs[q]
    BY <1>5, <1>6, <1>7, <1>9, <1>10
  <2> HIDE DEF t
  <2> QED BY ZenonT(40), <1>2, <1>3, <1>4, <1>8, <1>11, <2>1, ReplicaStep

\* The types of the proposals a replica has made.
LEMMA MadeTypes ==
  ASSUME IndInv, NEW r \in Replica
  PROVE  /\ local[r] \in LocalState /\ local[r].height \in Nat /\ local[r].rank \in Nat
         /\ \A b \in Made(r, rs[r].sent) : b.height \in Nat /\ b.rank \in Nat
<1>1. local[r] \in LocalState /\ rs[r] \in State({rs[r].ledger})
  BY DEF IndInv, TypeOK
<1>2. BlocksIn(rs[r].sent) \subseteq Block
  BY <1>1, StateTypes, LogTypes
<1> QED BY <1>1, <1>2, StateTypes DEF LocalState, Made

\* The first proposal: ListenLocalEvent was not running.
LEMMA FirstProposalInd ==
  ASSUME IndInv, NEW r \in Replica, FirstProposal(r)
  PROVE  IndInv' /\ NewBlocks /\ LogsGrow /\ ProposalSent(r, 1, 0)
<1>1. Made(r, rs[r].sent) = {} /\ local[r].height = 1
  BY DEF IndInv, ProposalInv, FirstProposal
<1>2. HandlerInv(r, rs[r], World(r, got[r], 1))
  BY <1>1 DEF IndInv
<1>3. Propose(r, rs[r], 1, 0) /\ 1 \in Nat /\ 0 \in Nat
  BY DEF FirstProposal
<1>4. 1 <= rs[r].curHeight
  BY <1>2 DEF HandlerInv, ChanInv, World
<1> QED BY <1>1, <1>2, <1>3, <1>4, ProposeInd

\* A proposal at a new height: it is above all earlier ones.
LEMMA NewHeightInd ==
  ASSUME IndInv, NEW r \in Replica, NewHeight(r)
  PROVE  /\ IndInv' /\ NewBlocks /\ LogsGrow
         /\ ProposalSent(r, Head(rs[r].newHeightChan), 0)
<1> DEFINE s == [rs[r] EXCEPT !.newHeightChan = Tail(rs[r].newHeightChan)]
           height == Head(rs[r].newHeightChan)
           w == World(r, got[r], local[r].height)
           z == World(r, got[r], height)
<1>1. HandlerInv(r, rs[r], w) /\ rs[r] \in State({rs[r].ledger})
  BY DEF IndInv, TypeOK
<1>2. rs[r].newHeightChan # <<>>
  BY DEF NewHeight
<1>3. /\ z.nshares = w.nshares /\ z.fshares = w.fshares /\ z.fast = w.fast
      /\ z.base = w.base /\ z.height = height /\ w.height = local[r].height
  BY DEF World
<1>4. /\ Propose(r, s, height, 0) /\ s.sent = rs[r].sent
      /\ s.headId = rs[r].headId /\ s.curHeight = rs[r].curHeight
  BY <1>1 DEF NewHeight, State
<1>5. s = [rs[r] EXCEPT !.newHeightChan = Tail(rs[r].newHeightChan)]
  OBVIOUS
<1> HIDE DEF s, w, z
<1>6. HandlerInv(r, s, z) /\ w.height < z.height /\ z.height \in Nat
  BY <1>1, <1>2, <1>3, <1>5, ChanStep
<1> HIDE DEF height
<1>7. \A b \in Made(r, rs[r].sent) : b.height < height
  <2> TAKE b \in Made(r, rs[r].sent)
  <2>1. b.height \in Nat /\ local[r].height \in Nat
    BY MadeTypes
  <2>2. b.height < local[r].height \/ b.height = local[r].height
    BY DEF IndInv, ProposalInv
  <2> QED BY <1>3, <1>6, <2>1, <2>2
<1>8. HandlerInv(r, s, World(r, got[r], height)) /\ height \in Nat /\ 0 \in Nat
  BY <1>3, <1>6 DEF z
<1>9. height <= rs[r].curHeight
  BY <1>3, <1>4, <1>6 DEF HandlerInv, ChanInv
<1>10. IndInv' /\ NewBlocks /\ LogsGrow /\ ProposalSent(r, height, 0)
  BY <1>4, <1>7, <1>8, <1>9, ProposeInd
<1> QED BY <1>10 DEF height

\* A proposal after a timer tick: it has a higher rank than all earlier ones.
LEMMA TimeoutInd ==
  ASSUME IndInv, NEW r \in Replica, Timeout(r)
  PROVE  /\ IndInv' /\ NewBlocks /\ LogsGrow
         /\ ProposalSent(r, local[r].height, local[r].rank + 1)
<1> DEFINE height == local[r].height
           rank == local[r].rank + 1
<1>1. HandlerInv(r, rs[r], World(r, got[r], height))
  BY DEF IndInv
<1>2. Propose(r, rs[r], height, rank)
  BY DEF Timeout
<1>3. height \in Nat /\ rank \in Nat
  BY MadeTypes
<1>4. \A b \in Made(r, rs[r].sent) : \/ b.height < height
                                     \/ b.height = height /\ b.rank < rank
  <2> TAKE b \in Made(r, rs[r].sent)
  <2>1. \/ b.height < height
        \/ b.height = height /\ b.rank <= local[r].rank
    BY DEF IndInv, ProposalInv
  <2>2. b.rank \in Nat /\ local[r].rank \in Nat
    BY MadeTypes
  <2> QED BY <2>1, <2>2
<1>5. height <= rs[r].curHeight
  BY <1>1 DEF HandlerInv, ChanInv, World
<1> HIDE DEF height, rank
<1>6. IndInv' /\ NewBlocks /\ LogsGrow /\ ProposalSent(r, height, rank)
  BY <1>1, <1>2, <1>3, <1>4, <1>5, ProposeInd
<1> QED BY <1>6 DEF height, rank

\* Every step keeps the inductive invariant.
LEMMA NextInd == IndInv /\ [Next]_vars => IndInv' /\ NewBlocks /\ LogsGrow
<1> SUFFICES ASSUME IndInv, [Next]_vars PROVE IndInv' /\ NewBlocks /\ LogsGrow
  OBVIOUS
<1>1. CASE Next
  <2>1. PICK r \in Replica : \/ \E v \in Replica \ {r} : Deliver(r, v)
                             \/ Query(r)
                             \/ FirstProposal(r)
                             \/ NewHeight(r)
                             \/ Timeout(r)
    BY <1>1 DEF Next
  <2>2. CASE \E v \in Replica \ {r} : Deliver(r, v)
    BY <2>2, DeliverInd
  <2>3. CASE Query(r)
    BY <2>3, QueryInd
  <2>4. CASE FirstProposal(r)
    BY <2>4, FirstProposalInd
  <2>5. CASE NewHeight(r)
    BY <2>5, NewHeightInd
  <2>6. CASE Timeout(r)
    BY <2>6, TimeoutInd
  <2> QED BY <2>1, <2>2, <2>3, <2>4, <2>5, <2>6
<1>2. CASE UNCHANGED vars
  <2>1. rs' = rs /\ local' = local /\ got' = got
    BY <1>2 DEF vars
  <2>2. TypeOK'
    BY <2>1 DEF IndInv, TypeOK
  <2>3. ASSUME NEW r \in Replica
        PROVE  World(r, got[r], local[r].height)' = World(r, got[r], local[r].height)
    BY <2>1 DEF World, NCasts, FCasts, FastBlocks, FastSeen
  <2>4. NewBlocks
    BY <2>1 DEF NewBlocks, Proposed
  <2>5. LogsGrow
    <3>1. \A v \in Replica : Len(rs[v].sent) \in Nat
      <4> TAKE v \in Replica
      <4>1. rs[v].sent \in Seq(Message)
        BY StateTypes DEF IndInv, TypeOK
      <4> QED BY <4>1
    <3> QED BY <2>1, <3>1 DEF LogsGrow
  <2> QED BY <2>1, <2>2, <2>3, <2>4, <2>5 DEF IndInv, Handled
<1> QED BY <1>1, <1>2

\* The invariant holds in every state.
THEOREM Invariance == Spec => []IndInv
<1>1. IndInv /\ [Next]_vars => IndInv'
  BY NextInd
<1> QED BY <1>1, InitInd, PTL DEF Spec

-----------------------------------------------------------------------------
(* The properties. *)

\* Every variable holds a value of its kind, whatever the handlers do.
THEOREM TypeCorrect == Spec => []TypeOK
<1>1. IndInv => TypeOK
  BY DEF IndInv
<1> QED BY <1>1, Invariance, PTL

\* A replica that sent a finalization share, or a fast share, for a block
\* never votes to notarize another block of that height: the checks of
\* sentNSharesNo, sentNShareId and sentNRank in ProcessBlock suffice.
THEOREM VotesAreDisciplined == Spec => []VoteDiscipline
<1>1. IndInv => VoteDiscipline
  <2> SUFFICES ASSUME IndInv, NEW r \in Replica,
                      NEW b \in FCast(rs[r].sent) \cup FastCast(rs[r].sent),
                      NEW c \in Cast(rs[r].sent), b.height = c.height
               PROVE  b = c
    BY DEF VoteDiscipline
  <2>1. FShareInv(rs[r]) /\ FastShareInv(rs[r])
    BY DEF IndInv, HandlerInv
  <2> QED BY <2>1 DEF FShareInv, FastShareInv
<1> QED BY <1>1, Invariance, PTL

\* What IndInv says of the proposals and votes of any replica.
LEMMA LogFacts ==
  ASSUME IndInv, NEW v \in Replica
  PROVE  /\ rs[v] \in State({rs[v].ledger}) /\ rs[v].sent \in Seq(Message)
         /\ BlocksIn(rs[v].sent) \subseteq Block
         /\ Cast(rs[v].sent) \subseteq BlocksIn(rs[v].sent)
         /\ FastCast(rs[v].sent) \subseteq Cast(rs[v].sent)
         /\ FCast(rs[v].sent) \subseteq Cast(rs[v].sent)
         /\ \A b \in FCast(rs[v].sent) \cup FastCast(rs[v].sent) :
              \A c \in Cast(rs[v].sent) : b.height = c.height => b = c
         /\ \A b \in FastCast(rs[v].sent) : b.rank = 0
<1>1. HandlerInv(v, rs[v], World(v, got[v], local[v].height))
  BY DEF IndInv
<1>2. rs[v] \in State({rs[v].ledger}) /\ rs[v].sent \in Seq(Message)
  BY <1>1, StateTypes DEF HandlerInv
<1>3. BlocksIn(rs[v].sent) \subseteq Block /\ FastCast(rs[v].sent) \subseteq Cast(rs[v].sent)
  BY <1>2, LogTypes
<1>4. FShareInv(rs[v]) /\ FastShareInv(rs[v]) /\ BlockInv(rs[v])
  BY <1>1 DEF HandlerInv
<1> QED BY <1>2, <1>3, <1>4 DEF FShareInv, FastShareInv, BlockInv

\* Two proposals of the same height and rank are the same block.
LEMMA IndUniqueProposal == IndInv => UniqueProposal
<1> SUFFICES ASSUME IndInv, NEW q \in Replica, NEW r \in Replica,
                    NEW b \in BlocksIn(rs[q].sent), NEW c \in BlocksIn(rs[r].sent),
                    b.height = c.height, b.rank = c.rank
             PROVE  b = c
  BY DEF UniqueProposal, Proposed
<1>1. b \in Block /\ c \in Block
  BY LogFacts
<1>2. IsLeader(b.proposer, b.height, b.rank) /\ IsLeader(c.proposer, c.height, c.rank)
  BY DEF IndInv, HandlerInv, BlockInv
<1>3. b.proposer \in Replica /\ c.proposer \in Replica
  BY <1>1, ReplicaAssumption DEF Replica
<1>4. b.proposer - 1 = c.proposer - 1
  BY <1>2 DEF IsLeader
<1>5. b.proposer = c.proposer
  BY <1>3, <1>4, ReplicaAssumption DEF Replica
<1>6. b \in BlocksIn(rs[b.proposer].sent) /\ c \in BlocksIn(rs[c.proposer].sent)
  BY DEF IndInv
<1>7. b \in Made(b.proposer, rs[b.proposer].sent) /\ c \in Made(b.proposer, rs[b.proposer].sent)
  BY <1>5, <1>6 DEF Made
<1> QED BY <1>3, <1>7 DEF IndInv, ProposalInv

\* A leader never proposes two blocks of one height and rank, and nobody
\* proposes out of turn.
THEOREM ProposalsAreUnique == Spec => []UniqueProposal
BY IndUniqueProposal, Invariance, PTL

\* The fast votes counted at a height are of different replicas.
LEMMA IndFastCount == IndInv => FastCount
<1> SUFFICES ASSUME IndInv, NEW r \in Replica, NEW h \in Height
             PROVE  rs[r].fastVotes[h] <=
                      Cardinality({v \in Replica : \E b \in FastCast(rs[v].sent) : b.height = h})
  BY DEF FastCount
<1> DEFINE S == FastSeen(r, h, got[r])
           T == {v \in Replica : \E b \in FastCast(rs[v].sent) : b.height = h}
           w == World(r, got[r], local[r].height)
<1>1. HandlerInv(r, rs[r], w)
  BY DEF IndInv
<1>2. rs[r].fastVotes[h] <= w.base[h] + OwnFast(rs[r].sent, h)
  BY <1>1 DEF HandlerInv, BagInv
<1>3. w.base[h] = Cardinality(S)
  BY DEF World
<1>4. rs[r].fastVotes[h] \in Nat
  <2>1. rs[r] \in State({rs[r].ledger})
    BY LogFacts
  <2>2. rs[r].fastVotes \in [Height -> Nat]
    BY <2>1, StateTypes
  <2> QED BY <2>2
<1>5. S \subseteq T
  <2> SUFFICES ASSUME NEW v \in S PROVE v \in T
    OBVIOUS
  <2>1. v \in Replica /\ \E i \in got[r][v] : IsFast(rs[v].sent[i], h)
    BY DEF FastSeen
  <2>2. PICK i \in got[r][v] : IsFast(rs[v].sent[i], h)
    BY <2>1
  <2>3. i \in DOMAIN rs[v].sent
    BY <2>1 DEF IndInv, Handled
  <2> QED BY <2>1, <2>2, <2>3 DEF IsFast, FastCast
<1>6. S \in SUBSET Replica /\ T \in SUBSET Replica /\ r \notin S
  BY DEF FastSeen
<1> HIDE DEF S, T, w
<1>7. /\ IsFiniteSet(S) /\ Cardinality(S) \in Nat /\ Cardinality(T) \in Nat
      /\ Cardinality(S) <= Cardinality(T)
  BY <1>5, <1>6, FastSeenFinite
<1>8. CASE \E b \in FastCast(rs[r].sent) : b.height = h
  <2>1. r \in T
    BY <1>8 DEF T
  <2>2. Cardinality(S \cup {r}) = Cardinality(S) + 1
    BY <1>6, <1>7, FS_AddElement
  <2>3. S \cup {r} \in SUBSET Replica /\ S \cup {r} \subseteq T
    BY <1>5, <1>6, <2>1
  <2>4. Cardinality(S \cup {r}) <= Cardinality(T)
    BY <1>6, <2>3, FastSeenFinite
  <2>5. OwnFast(rs[r].sent, h) = 1
    BY <1>8 DEF OwnFast
  <2> QED BY <1>2, <1>3, <1>4, <1>7, <2>2, <2>4, <2>5 DEF T
<1>9. CASE ~\E b \in FastCast(rs[r].sent) : b.height = h
  <2>1. OwnFast(rs[r].sent, h) = 0
    BY <1>9 DEF OwnFast
  <2> QED BY <1>2, <1>3, <1>4, <1>7, <2>1 DEF T
<1> QED BY <1>8, <1>9

\* fastVotesRankZero, a bare counter per height, never counts a replica
\* twice: no replica sends two fast shares at a height.
THEOREM FastVotesAreReplicas == Spec => []FastCount
BY IndFastCount, Invariance, PTL

\* The replicas that voted for b, and those that by a finalization share or a
\* fast share have bound themselves to no other block of its height.
Voters(b) == {v \in Replica : b \in Cast(rs[v].sent)}
Bound(b) == {v \in Replica : b \in FCast(rs[v].sent) \cup FastCast(rs[v].sent)}

\* Sets of replicas without a common member.
LEMMA Disjoint ==
  ASSUME NEW S \in SUBSET Replica, NEW T \in SUBSET Replica, S \cap T = {}
  PROVE  /\ Cardinality(S) \in Nat /\ Cardinality(T) \in Nat
         /\ Cardinality(S) + Cardinality(T) <= N
<1>1. IsFiniteSet(Replica) /\ Cardinality(Replica) = N
  BY FS_Interval, ReplicaAssumption DEF Replica
<1>2. IsFiniteSet(S) /\ IsFiniteSet(T)
  BY <1>1, FS_Subset
<1>3. Cardinality(S \cup T) = Cardinality(S) + Cardinality(T) - Cardinality(S \cap T)
  BY <1>2, FS_Union
<1>4. Cardinality(S \cap T) = 0
  BY FS_EmptySet
<1>5. Cardinality(S \cup T) <= Cardinality(Replica)
  BY <1>1, FS_Subset, S \cup T \in SUBSET Replica
<1>6. Cardinality(S) \in Nat /\ Cardinality(T) \in Nat
  BY <1>2, FS_CardinalityType
<1> QED BY <1>1, <1>3, <1>4, <1>5, <1>6

\* A notarized block has the votes of a quorum.
LEMMA NotarizedQuorum ==
  ASSUME IndInv, NEW r \in Replica, NEW b \in rs[r].isNotarized
  PROVE  /\ b \in Block /\ Cardinality(Voters(b)) \in Nat
         /\ IF Algorithm = "icc" THEN Cardinality(Voters(b)) > (N * 2) \div 3
                                 ELSE Cardinality(Voters(b)) * 2 > N + F
<1> DEFINE w == World(r, got[r], local[r].height)
           V == Votes(rs[r].nShares, b)
<1>1. HandlerInv(r, rs[r], w) /\ w.nshares = NCasts
  BY DEF IndInv, World
<1>2. b \in Block
  BY LogFacts, StateTypes
<1> HIDE DEF w
<1>3. V \subseteq Voters(b)
  <2> SUFFICES ASSUME NEW v \in V PROVE v \in Voters(b)
    OBVIOUS
  <2>1. v \in Replica /\ <<b, v>> \in rs[r].nShares
    BY DEF Votes
  <2>2. <<b, v>> \in NCasts \/ (v = r /\ b \in Cast(rs[r].sent))
    BY <1>1, <1>2, <2>1 DEF HandlerInv, BagInv
  <2> QED BY <2>1, <2>2 DEF NCasts, Voters
<1>4. V \in SUBSET Replica /\ Voters(b) \in SUBSET Replica
  BY DEF Votes, Voters
<1>5. NQuorum(rs[r], b)
  BY <1>1 DEF HandlerInv, QuorumInv
<1>6. /\ Cardinality(V) \in Nat /\ Cardinality(Voters(b)) \in Nat
      /\ Cardinality(V) <= Cardinality(Voters(b))
  BY <1>3, <1>4, FastSeenFinite
<1> QED
  BY <1>2, <1>5, <1>6, ReplicaAssumption DEF NQuorum, superMajority, IsNotarizedBanyan

\* A finalized block has a quorum of replicas bound to it.
LEMMA FinalizedQuorum ==
  ASSUME IndInv, NEW r \in Replica, NEW b \in rs[r].isFinalized
  PROVE  /\ b \in Block /\ Cardinality(Bound(b)) \in Nat
         /\ \/ Cardinality(Bound(b)) > (N * 2) \div 3
            \/ Algorithm # "icc" /\ Cardinality(Bound(b)) >= N - P /\ b \in FastBlocks
<1> DEFINE w == World(r, got[r], local[r].height)
           V == Votes(rs[r].fShares, b)
           T == {v \in Replica : \E c \in FastCast(rs[v].sent) : c.height = b.height}
<1>1. HandlerInv(r, rs[r], w) /\ w.fshares = FCasts /\ w.fast = FastBlocks
  BY DEF IndInv, World
<1> HIDE DEF w
<1>2. b \in Block /\ b.height \in Height /\ rs[r].fastVotes[b.height] \in Nat
  <2>1. rs[r] \in State({rs[r].ledger})
    BY LogFacts
  <2>2. b \in Block /\ b.height \in Height /\ rs[r].fastVotes \in [Height -> Nat]
    BY <2>1, StateTypes
  <2> QED BY <2>2
<1>3. Bound(b) \in SUBSET Replica
  BY DEF Bound
<1>4. Cardinality(Bound(b)) \in Nat
  BY <1>3, FastSeenFinite
<1>5. CASE superMajority(rs[r].fShares, b)
  <2>1. V \subseteq Bound(b)
    <3> SUFFICES ASSUME NEW v \in V PROVE v \in Bound(b)
      OBVIOUS
    <3>1. v \in Replica /\ <<b, v>> \in rs[r].fShares
      BY DEF Votes
    <3>2. <<b, v>> \in FCasts \/ (v = r /\ b \in FCast(rs[r].sent))
      BY <1>1, <1>2, <3>1 DEF HandlerInv, BagInv
    <3> QED BY <3>1, <3>2 DEF FCasts, Bound
  <2>2. V \in SUBSET Replica
    BY DEF Votes
  <2>3. Cardinality(V) \in Nat /\ Cardinality(V) <= Cardinality(Bound(b))
    BY <1>3, <2>1, <2>2, FastSeenFinite
  <2> QED BY <1>2, <1>4, <1>5, <2>3, ReplicaAssumption DEF superMajority
<1>6. CASE /\ Algorithm # "icc"
           /\ rs[r].fastVotes[b.height] >= N - P
           /\ b \in FastBlocks \cup FastCast(rs[r].sent)
  <2>1. b \in FastBlocks
    BY <1>6 DEF FastBlocks
  <2>2. PICK q \in Replica : b \in FastCast(rs[q].sent)
    BY <2>1 DEF FastBlocks
  <2>3. T \subseteq Bound(b)
    <3> SUFFICES ASSUME NEW v \in Replica, NEW c \in FastCast(rs[v].sent), c.height = b.height
                 PROVE  c = b
      BY DEF Bound
    <3>1. c \in BlocksIn(rs[v].sent) /\ c.rank = 0
      BY LogFacts
    <3>2. b \in BlocksIn(rs[q].sent) /\ b.rank = 0
      BY <2>2, LogFacts
    <3> QED BY <3>1, <3>2, IndUniqueProposal DEF UniqueProposal, Proposed
  <2>4. rs[r].fastVotes[b.height] <= Cardinality(T)
    BY <1>2, IndFastCount DEF FastCount
  <2>5. T \in SUBSET Replica
    OBVIOUS
  <2> HIDE DEF T
  <2>6. Cardinality(T) \in Nat /\ Cardinality(T) <= Cardinality(Bound(b))
    BY <1>3, <2>3, <2>5, FastSeenFinite
  <2> QED BY <1>2, <1>4, <1>6, <2>1, <2>4, <2>6, ReplicaAssumption
<1>7. \/ superMajority(rs[r].fShares, b)
      \/ /\ Algorithm # "icc"
         /\ rs[r].fastVotes[b.height] >= N - P
         /\ b \in FastBlocks \cup FastCast(rs[r].sent)
  BY <1>1 DEF HandlerInv, QuorumInv
<1> QED BY <1>5, <1>6, <1>7

\* The quorums intersect in a replica that is bound to one block.
LEMMA IndFinalityAgreement == IndInv => FinalityAgreement
<1> SUFFICES ASSUME IndInv, NEW q \in Replica, NEW r \in Replica, NEW b \in rs[q].isFinalized,
                    NEW c \in rs[r].isNotarized \cup rs[r].isFinalized,
                    b.height = c.height, b # c
             PROVE  FALSE
  BY DEF FinalityAgreement
<1> DEFINE B == Cardinality(Bound(b))
           C == Cardinality(Voters(c))
           D == (N * 2) \div 3
<1>1. B + C <= N /\ B \in Nat /\ C \in Nat
  <2>1. Bound(b) \in SUBSET Replica /\ Voters(c) \in SUBSET Replica
    BY DEF Bound, Voters
  <2>2. Bound(b) \cap Voters(c) = {}
    <3> SUFFICES ASSUME NEW v \in Bound(b) \cap Voters(c) PROVE FALSE
      OBVIOUS
    <3>1. /\ v \in Replica /\ b \in FCast(rs[v].sent) \cup FastCast(rs[v].sent)
          /\ c \in Cast(rs[v].sent)
      BY DEF Bound, Voters
    <3> QED BY <3>1, LogFacts
  <2> QED BY <2>1, <2>2, Disjoint
<1>2. B > D \/ (Algorithm # "icc" /\ B >= N - P /\ b \in FastBlocks)
  BY FinalizedQuorum
<1>3. D \in Nat /\ 3 * D <= 2 * N /\ 2 * N < 3 * D + 3
  BY ReplicaAssumption, SMT
<1>4. N \in Nat /\ N > 0 /\ F \in Nat /\ P \in Nat /\ 2 * P <= N + F /\ P <= D
  BY ReplicaAssumption, QuorumAssumption
<1>5. CASE c \in rs[r].isNotarized
  <2>1. IF Algorithm = "icc" THEN C > D ELSE C * 2 > N + F
    BY <1>5, NotarizedQuorum
  <2> HIDE DEF B, C, D
  <2> QED BY <1>1, <1>2, <1>3, <1>4, <2>1
<1>6. CASE c \in rs[r].isFinalized
  <2>1. Bound(c) \in SUBSET Replica /\ Voters(c) \in SUBSET Replica
    BY DEF Bound, Voters
  <2>2. Bound(c) \subseteq Voters(c)
    <3> SUFFICES ASSUME NEW v \in Bound(c) PROVE v \in Voters(c)
      OBVIOUS
    <3>1. v \in Replica /\ c \in FCast(rs[v].sent) \cup FastCast(rs[v].sent)
      BY DEF Bound
    <3> QED BY <3>1, LogFacts DEF Voters
  <2>3. Cardinality(Bound(c)) \in Nat /\ Cardinality(Bound(c)) <= C
    BY <2>1, <2>2, FastSeenFinite
  <2>4. \/ Cardinality(Bound(c)) > D
        \/ Algorithm # "icc" /\ Cardinality(Bound(c)) >= N - P /\ c \in FastBlocks
    BY <1>6, FinalizedQuorum
  <2>5. ~(b \in FastBlocks /\ c \in FastBlocks)
    <3> SUFFICES ASSUME b \in FastBlocks, c \in FastBlocks PROVE FALSE
      OBVIOUS
    <3>1. PICK u \in Replica : b \in FastCast(rs[u].sent)
      BY DEF FastBlocks
    <3>2. PICK v \in Replica : c \in FastCast(rs[v].sent)
      BY DEF FastBlocks
    <3>3. b \in BlocksIn(rs[u].sent) /\ b.rank = 0
      BY <3>1, LogFacts
    <3>4. c \in BlocksIn(rs[v].sent) /\ c.rank = 0
      BY <3>2, LogFacts
    <3> QED BY <3>3, <3>4, IndUniqueProposal DEF UniqueProposal, Proposed
  <2> HIDE DEF B, C, D
  <2> QED BY <1>1, <1>2, <1>3, <1>4, <2>3, <2>4, <2>5
<1> QED BY <1>5, <1>6

\* A finalized block is the only notarized and the only finalized block of
\* its height, at every replica, on the fast and on the slow path.
THEOREM FinalityIsAgreed == Spec => []FinalityAgreement
BY IndFinalityAgreement, Invariance, PTL
=============================================================================
