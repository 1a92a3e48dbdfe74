-------------------------- MODULE StreamletProofs ---------------------------
(***************************************************************************)
(* A replica of Streamlet in the environment of MCStreamlet: what is       *)
(* notarized is a tree, the replica panics only before three blocks are    *)
(* notarized, and no view is committed twice, for any number of replicas,  *)
(* any blocks and any number of messages.                                  *)
(***************************************************************************)
EXTENDS MCStreamlet, ForestProofs

-----------------------------------------------------------------------------
(* The inductive invariant. *)

\* The ancestors of the first block that was notarized
Before(chain) == {Ancestors(chain[1])[k] : k \in Nat \ {0}}

\* All views that are notarized were left.
ChainInv(chain, view, B) ==
  \A i \in DOMAIN chain :
    /\ chain[i] \in B /\ chain[i].height < view
    /\ \A j \in 1..i - 1 : chain[j].height < chain[i].height
    /\ i > 1 => \E j \in 1..i - 1 : chain[i].prev = chain[j]

\* The views of the committed blocks differ.  They are not above the lowest level, except
\* ancestors of the first notarized block, to which no later commit comes back.
CommitInv(C, chain, lowest) ==
  /\ lowest = 0 => C = <<>>
  /\ lowest > 0 => chain # <<>> /\ chain[1].height <= lowest
  /\ \A i \in DOMAIN C : /\ C[i].height <= lowest \/ C[i] \in Before(chain)
                         /\ \A j \in DOMAIN C : C[i].height = C[j].height => i = j

Good(t, B) ==
  /\ t \in State
  /\ StoreOf(t.bc, B)
  /\ ChainInv(t.notarizedChain, t.curView, B)
  /\ CommitInv(t.committed, t.notarizedChain, t.bc.lowest)
  /\ t.bufferedBlocks \subseteq B /\ IsFiniteSet(t.bufferedBlocks)
  /\ t.bufferedQCs \subseteq B
  /\ t.bufferedNotarizedBlock \subseteq B /\ IsFiniteSet(t.bufferedNotarizedBlock)
  /\ t.halted => Len(t.notarizedChain) < 3

SInv == Good(s, blocks) /\ StreamletTree(blocks)

-----------------------------------------------------------------------------
(* What is committed. *)

\* What a block is
LEMMA ProposedBlock ==
  ASSUME NEW B, StreamletTree(B), NEW b \in B
  PROVE  /\ b \in Block /\ b # Genesis /\ b \in Identifier
         /\ b.height \in Nat /\ b.height \in 1..MaxHeight /\ b.height \in Level \ {0}
         /\ HeightOf(b) = b.height /\ HeightOf(Genesis) = 0
         /\ b.prev \in Identifier /\ b.prev \in B \cup {Genesis}
         /\ b.height <= 1 => b.prev = Genesis
         /\ IsTree(B) /\ B \subseteq Block
<1>1. IsTree(B) /\ B \subseteq Block /\ (b.height = 1 => b.prev = Genesis)
  BY DEF StreamletTree, IsTree
<1>2. /\ b \in Block /\ b # Genesis /\ b \in Identifier
      /\ b.height \in Nat /\ b.height \in 1..MaxHeight /\ b.height \in Level \ {0}
      /\ HeightOf(b) = b.height
      /\ b.prev \in Identifier /\ b.prev \in B \cup {Genesis}
  BY <1>1, TreeBlock
<1> QED BY <1>1, <1>2 DEF HeightOf

\* A notarized block is no ancestor of the first one.
LEMMA ChainIsNotBefore ==
  ASSUME NEW B, StreamletTree(B), NEW chain \in Seq(Block), NEW v, ChainInv(chain, v, B),
         NEW m \in DOMAIN chain
  PROVE  chain[m] \notin Before(chain)
<1> SUFFICES ASSUME chain[m] \in Before(chain) PROVE FALSE
  OBVIOUS
<1> DEFINE p == Ancestors(chain[1])
<1>1. PICK q \in Nat \ {0} : chain[m] = p[q]
  BY DEF Before
<1>2. /\ IsTree(B) /\ 1 \in DOMAIN chain /\ chain[1] \in B /\ \A i \in DOMAIN chain : chain[i] \in B
  BY DEF StreamletTree, ChainInv
<1>3. p[0] = chain[1] /\ \A k \in Nat : p[k + 1] = Parent(p[k])
  BY <1>2, TreeBlock, AncestorsAre
<1>4. \A j \in 0..q : p[j] \in B
  BY <1>1, <1>2, AncestorsMade
<1> HIDE DEF p
<1> DEFINE P == {p[j] : j \in 0 .. q - 1}
           C == {chain[i] : i \in DOMAIN chain}
<1>5. p[q] \in C /\ \A j \in 0 .. q - 1 : p[j] \in P
  BY <1>1
<1>6. ASSUME NEW j \in 0 .. q - 1 PROVE p[j] \in B /\ p[j].prev \in P \cup C
  <2>1. p[j] \in B /\ p[j].prev = p[j + 1]
    BY <1>2, <1>3, <1>4, TreeBlock
  <2>2. j + 1 = q \/ j + 1 \in 0 .. q - 1
    OBVIOUS
  <2> HIDE DEF P, C
  <2> QED BY <1>5, <2>1, <2>2
<1>7. ASSUME NEW i \in DOMAIN chain PROVE chain[i] \in B /\ chain[i].prev \in P \cup C
  <2>1. CASE i > 1
    <3>1. \A j \in 1 .. i - 1 : j \in DOMAIN chain
      BY <2>1
    <3> QED BY <2>1, <3>1 DEF ChainInv
  <2>2. CASE ~(i > 1)
    <3>1. i = 1 /\ 0 \in 0 .. q - 1
      BY <2>2
    <3> HIDE DEF P, C
    <3> QED BY <1>2, <1>3, <1>6, <3>1
  <2> QED BY <2>1, <2>2
<1>8. P \cup C \subseteq B /\ \A x \in P \cup C : x.prev \in P \cup C
  <2>1. ASSUME NEW x \in P \cup C PROVE x \in B /\ x.prev \in P \cup C
    BY <1>6, <1>7
  <2> QED BY <2>1
<1>9. chain[m] \in P \cup C
  OBVIOUS
<1> HIDE DEF P, C
<1> QED BY <1>2, <1>8, <1>9, NoEndlessWay

\* CommitBlock walks down the notarized chain, and further only as long as nothing of the
\* chain was committed.
LEMMA CommittedDescend ==
  ASSUME NEW B, StreamletTree(B), NEW f, StoreOf(f, B),
         NEW chain \in Seq(Block), NEW v, ChainInv(chain, v, B),
         NEW m \in DOMAIN chain, chain[m] \in f.full, NEW D, D = CommittedBlocks(f, chain[m])
  PROVE  /\ D \in Seq(Block)
         /\ \A i \in DOMAIN D :
              /\ D[i] \in B /\ D[i].height > f.lowest /\ D[i].height \in Nat
              /\ \/ \E k \in 1..m : D[i] = chain[k]
                 \/ D[i] \in Before(chain) /\ f.lowest < chain[1].height
              /\ \A j \in DOMAIN D : D[i].height = D[j].height => i = j
<1> DEFINE b == chain[m]
           a == Ancestors(b)
           p == Ancestors(chain[1])
<1>1. /\ IsTree(B) /\ f.full \subseteq Block /\ IsFiniteSet(f.full) /\ b \in Block /\ b \in B
      /\ chain[1] \in Block /\ chain[1] \in B /\ 1 \in DOMAIN chain /\ \A x \in f.full : x \in B
  BY TreeBlock DEF StoreOf, StreamletTree, ChainInv
<1>2. PICK n \in Nat : /\ D = [i \in 1..n |-> a[i - 1]]
                       /\ \A i \in 0 .. n - 1 : a[i] \in f.full /\ a[i].height > f.lowest
  BY <1>1, CommittedAre
<1>3. a[0] = b /\ \A i \in Nat : a[i + 1] = Parent(a[i])
  BY <1>1, AncestorsAre
<1>4. p[0] = chain[1] /\ \A i \in Nat : p[i + 1] = Parent(p[i])
  BY <1>1, AncestorsAre
<1>5. \A i, j \in 0 .. n - 1 : a[i].height = a[j].height => i = j
  <2>1. \A i \in 0 .. n - 1 : Ancestors(b)[i] \in B
    BY <1>1, <1>2
  <2> HIDE DEF b
  <2> QED BY <1>1, <2>1, WayBack DEF a
<1> HIDE DEF a, p, b
<1>6. \A i \in 0 .. n - 1 : a[i] \in B /\ a[i] \in Block /\ a[i].height \in Nat
  BY <1>1, <1>2, TreeBlock
<1> DEFINE In(x) == \E k \in 1..m : x = chain[k]
           Beneath(x) == (\E q \in Nat \ {0} : x = p[q]) /\ f.lowest < chain[1].height
           S == {k \in Nat : k < n => In(a[k]) \/ Beneath(a[k])}
<1>7. Nat \subseteq S
  <2>1. 0 \in S
    <3>1. m \in 1..m /\ a[0] = chain[m]
      <4>1. m \in 1..m
        OBVIOUS
      <4>2. a[0] = chain[m]
        BY Zenon, <1>3 DEF b
      <4> QED BY <4>1, <4>2
    <3>2. In(a[0])
      BY <3>1
    <3> HIDE DEF In, Beneath
    <3> QED BY <3>2
  <2>2. ASSUME NEW k \in Nat, k \in S, k + 1 < n PROVE In(a[k + 1]) \/ Beneath(a[k + 1])
    <3>1. k \in 0 .. n - 1 /\ k < n
      BY <2>2
    <3>2. a[k + 1] = a[k].prev /\ a[k].height > f.lowest /\ a[k + 1] = Parent(a[k])
      BY <1>1, <1>2, <1>3, <1>6, <3>1, TreeBlock
    <3>3. CASE In(a[k])
      <4>1. PICK i \in 1..m : a[k] = chain[i]
        BY <3>3
      <4>2. CASE i > 1
        <5>1. i \in DOMAIN chain
          OBVIOUS
        <5>2. PICK j \in 1 .. i - 1 : chain[i].prev = chain[j]
          BY <4>2, <5>1 DEF ChainInv
        <5>3. j \in 1..m
          OBVIOUS
        <5> QED BY <3>2, <4>1, <5>2, <5>3
      <4>3. CASE ~(i > 1)
        <5>1. i = 1
          BY <4>3
        <5>2. a[k + 1] = p[1] /\ 0 + 1 = 1 /\ 1 \in Nat \ {0}
          BY <1>4, <3>2, <4>1, <5>1
        <5>3. f.lowest < chain[1].height
          BY <1>1, <3>2, <4>1, <5>1, TreeBlock DEF StoreOf, Forest, Level
        <5> QED BY <5>2, <5>3
      <4> QED BY <4>2, <4>3
    <3>4. CASE Beneath(a[k])
      <4>1. PICK q \in Nat \ {0} : a[k] = p[q]
        BY <3>4
      <4>2. a[k + 1] = p[q + 1] /\ q + 1 \in Nat \ {0}
        BY <1>4, <3>2, <4>1
      <4>3. \E i \in Nat \ {0} : a[k + 1] = p[i]
        BY <4>2
      <4>4. f.lowest < chain[1].height
        BY <3>4
      <4>5. Beneath(a[k + 1])
        BY <4>3, <4>4
      <4> QED BY <4>5
    <3> QED BY <2>2, <3>1, <3>3, <3>4
  <2> HIDE DEF In, Beneath
  <2>3. \A k \in Nat : k \in S => k + 1 \in S
    BY <2>2
  <2> HIDE DEF S
  <2> QED BY <2>1, <2>3, SetInduction
<1>8. \A i \in 1..n : i - 1 \in 0 .. n - 1 /\ i - 1 \in Nat /\ D[i] = a[i - 1]
  BY <1>2
<1>9. D \in Seq(Block) /\ DOMAIN D = 1..n
  BY <1>2, <1>6, <1>8
<1>10. ASSUME NEW i \in 1..n
       PROVE  /\ D[i] \in B /\ D[i].height > f.lowest /\ D[i].height \in Nat
              /\ In(D[i]) \/ Beneath(D[i])
              /\ \A j \in 1..n : D[i].height = D[j].height => i = j
  <2>1. In(D[i]) \/ Beneath(D[i])
    <3>1. i - 1 \in S /\ i - 1 < n /\ D[i] = a[i - 1]
      BY <1>7, <1>8
    <3> HIDE DEF In, Beneath
    <3> QED BY <3>1
  <2>2. \A j \in 1..n : D[i].height = D[j].height => i = j
    <3> SUFFICES ASSUME NEW j \in 1..n, D[i].height = D[j].height PROVE i = j
      OBVIOUS
    <3>1. a[i - 1].height = a[j - 1].height /\ i - 1 \in 0 .. n - 1 /\ j - 1 \in 0 .. n - 1
      BY <1>8
    <3>2. i - 1 = j - 1
      BY <1>5, <3>1
    <3> QED BY <3>2
  <2> HIDE DEF In, Beneath
  <2> QED BY <1>2, <1>6, <1>8, <2>1, <2>2
<1>11. \A x : Beneath(x) => x \in Before(chain) /\ f.lowest < chain[1].height
  BY DEF Before, p
<1> HIDE DEF Beneath
<1> QED BY <1>9, <1>10, <1>11

\* What is committed goes on with it.
LEMMA CommitsGoOn ==
  ASSUME NEW B, StreamletTree(B), NEW f, StoreOf(f, B),
         NEW chain \in Seq(Block), NEW v, ChainInv(chain, v, B),
         NEW m \in DOMAIN chain, chain[m] \in f.full,
         NEW C \in Seq(Block), CommitInv(C, chain, f.lowest)
  PROVE  LET E == C \o CommittedBlocks(f, chain[m])
         IN  E \in Seq(Block) /\ CommitInv(E, chain, chain[m].height)
<1> DEFINE b == chain[m]
           D == CommittedBlocks(f, b)
           E == C \o D
           k == Len(C)
           n == Len(D)
           h == chain[1].height
<1>1. /\ D \in Seq(Block)
      /\ \A i \in DOMAIN D :
           /\ D[i] \in B /\ D[i].height > f.lowest /\ D[i].height \in Nat
           /\ \/ \E q \in 1..m : D[i] = chain[q]
              \/ D[i] \in Before(chain) /\ f.lowest < h
           /\ \A j \in DOMAIN D : D[i].height = D[j].height => i = j
  BY CommittedDescend
<1>2. /\ f.lowest \in Nat /\ b.height \in Nat /\ b.height > 0 /\ f.lowest <= b.height
      /\ m \in Nat /\ 1 \in DOMAIN chain /\ h \in Nat
      /\ \A q \in 1..m : q \in DOMAIN chain
  <2>1. m \in Nat /\ 1 \in DOMAIN chain /\ \A q \in 1..m : q \in DOMAIN chain
    OBVIOUS
  <2>2. b \in B /\ chain[1] \in B
    BY <2>1 DEF ChainInv
  <2>3. b.height \in Nat /\ b.height > 0 /\ h \in Nat
    BY <2>2, ProposedBlock
  <2>4. f.lowest \in Nat /\ f.lowest <= b.height
    BY <2>3 DEF StoreOf, Forest, Level
  <2> QED BY <2>1, <2>3, <2>4
<1>3. \A q \in 1..m : chain[q].height <= b.height
  <2> TAKE q \in 1..m
  <2>1. chain[q].height \in Nat /\ (q < m => chain[q].height < b.height)
    <3>1. chain[q] \in B /\ (q < m => chain[q].height < b.height)
      BY <1>2 DEF ChainInv, b
    <3> QED BY <3>1, ProposedBlock
  <2> QED BY <1>2, <2>1
<1> HIDE DEF D, b, h
<1>4. /\ k \in Nat /\ n \in Nat /\ DOMAIN C = 1..k /\ DOMAIN D = 1..n
      /\ E \in Seq(Block) /\ DOMAIN E = 1 .. k + n
      /\ \A i \in 1 .. k + n : E[i] = IF i <= k THEN C[i] ELSE D[i - k]
  BY <1>1
<1>5. \A i \in 1..k : /\ C[i].height \in Nat /\ C[i] \in Block
                      /\ C[i].height <= f.lowest \/ C[i] \in Before(chain)
  BY <1>4, BlockAssumption DEF CommitInv
<1>6. \A i \in 1..k : C[i].height <= b.height \/ C[i] \in Before(chain)
  <2> TAKE i \in 1..k
  <2>1. C[i].height \in Nat /\ (C[i].height <= f.lowest \/ C[i] \in Before(chain))
    BY <1>5
  <2> QED BY <1>2, <2>1
<1>7. \A i \in 1..n : D[i].height <= b.height \/ D[i] \in Before(chain)
  BY <1>1, <1>3, <1>4
<1>8. ASSUME NEW i \in 1..k, NEW j \in 1..n PROVE C[i].height # D[j].height
  <2> SUFFICES ASSUME C[i].height = D[j].height PROVE FALSE
    OBVIOUS
  <2>1. C[i].height \in Nat /\ (C[i].height <= f.lowest \/ C[i] \in Before(chain))
    BY <1>5
  <2>2. D[j] \in B /\ D[j].height > f.lowest /\ D[j].height \in Nat
    BY <1>1, <1>4
  <2>3. C[i] \in Before(chain)
    BY <1>2, <2>1, <2>2
  <2>4. f.lowest # 0
    BY <1>4 DEF CommitInv
  <2>5. h <= f.lowest
    BY <1>2, <2>4 DEF CommitInv, h
  <2>6. PICK q \in 1..m : D[j] = chain[q]
    <3>1. ~(f.lowest < h)
      BY <1>2, <2>5
    <3> QED BY <1>1, <1>4, <3>1
  <2>7. chain[q] \notin Before(chain)
    BY <1>2, ChainIsNotBefore
  <2>8. C[i] \in B
    <3>1. PICK l \in Nat \ {0} : C[i] = Ancestors(chain[1])[l]
      BY <2>3 DEF Before
    <3>2. C[i] # Genesis
      BY <1>5, BlockAssumption
    <3>3. chain[1] \in B /\ IsTree(B)
      BY <1>2 DEF ChainInv, StreamletTree
    <3> QED BY <3>1, <3>2, <3>3, AncestorMade
  <2>9. C[i] = D[j]
    BY <2>2, <2>8 DEF StreamletTree, IsTree
  <2> QED BY <2>3, <2>6, <2>7, <2>9
<1>9. /\ \A i, j \in 1..k : C[i].height = C[j].height => i = j
      /\ \A i, j \in 1..n : D[i].height = D[j].height => i = j
  BY <1>1, <1>4 DEF CommitInv
<1> HIDE DEF E, k, n
<1>10. \A i \in 1 .. k + n : \/ i \in 1..k /\ E[i] = C[i]
                             \/ i - k \in 1..n /\ E[i] = D[i - k]
  BY <1>4
<1>11. ASSUME NEW i \in 1 .. k + n
       PROVE  /\ E[i].height <= b.height \/ E[i] \in Before(chain)
              /\ \A j \in 1 .. k + n : E[i].height = E[j].height => i = j
  <2>1. E[i].height <= b.height \/ E[i] \in Before(chain)
    BY <1>6, <1>7, <1>10
  <2>2. ASSUME NEW j \in 1 .. k + n, E[i].height = E[j].height PROVE i = j
    <3>1. CASE i \in 1..k /\ E[i] = C[i] /\ j \in 1..k /\ E[j] = C[j]
      BY <1>9, <2>2, <3>1
    <3>2. CASE i - k \in 1..n /\ E[i] = D[i - k] /\ j - k \in 1..n /\ E[j] = D[j - k]
      <4>1. i - k = j - k
        BY <1>9, <2>2, <3>2
      <4> QED BY <1>4, <4>1
    <3>3. CASE i \in 1..k /\ E[i] = C[i] /\ j - k \in 1..n /\ E[j] = D[j - k]
      BY <1>8, <2>2, <3>3
    <3>4. CASE i - k \in 1..n /\ E[i] = D[i - k] /\ j \in 1..k /\ E[j] = C[j]
      BY <1>8, <2>2, <3>4
    <3> QED BY <1>10, <3>1, <3>2, <3>3, <3>4
  <2> QED BY <2>1, <2>2
<1>12. chain # <<>> /\ chain[1].height <= b.height
  <2>1. 1 \in 1..m /\ chain # <<>>
    BY <1>2
  <2> QED BY <1>3, <2>1
<1>13. CommitInv(E, chain, b.height)
  <2>1. b.height # 0 /\ DOMAIN E = 1 .. k + n
    BY <1>2, <1>4
  <2> QED BY <1>11, <1>12, <2>1 DEF CommitInv
<1> QED BY <1>4, <1>13 DEF D, E, b

\* A sequence of blocks of different views is as long as it has views.
LEMMA DifferentViews ==
  ASSUME NEW C \in Seq(Block), NEW chain, NEW l, CommitInv(C, chain, l)
  PROVE  Len(C) = Cardinality({b.height : b \in Range(C)})
<1> DEFINE n == Len(C)
           H == {b.height : b \in Range(C)}
           f == [i \in 1..n |-> C[i].height]
<1>1. n \in Nat /\ DOMAIN C = 1..n
  OBVIOUS
<1> HIDE DEF n
<1>2. H = {C[i].height : i \in 1..n}
  BY <1>1 DEF Range
<1> HIDE DEF H
<1>3. f \in Injection(1..n, H)
  BY <1>1, <1>2 DEF CommitInv, Injection, IsInjective
<1>4. f \in Surjection(1..n, H)
  BY <1>2 DEF Surjection
<1>5. ExistsBijection(1..n, H)
  BY <1>3, <1>4 DEF ExistsBijection, Bijection
<1>6. Cardinality(H) = n
  BY <1>1, <1>5, FS_CountingElements
<1> QED BY <1>6 DEF H, n

-----------------------------------------------------------------------------
(* Parts of the state. *)

\* Fields that the invariant is not about
LEMMA SetOther ==
  ASSUME NEW B, StreamletTree(B), NEW t, Good(t, B), NEW u,
         \/ \E x \in Seq(Nat) : u = [t EXCEPT !.newViewChan = x]
         \/ \E x \in SUBSET (Nat \X Replica) : u = [t EXCEPT !.timeouts = x]
         \/ \E x \in SUBSET Nat : u = [t EXCEPT !.advancing = x]
         \/ \E x \in SUBSET (Block \X Replica) : u = [t EXCEPT !.votes = x]
         \/ \E x \in SUBSET Block : u = [t EXCEPT !.echoedBlock = x]
         \/ \E x \in [Replica -> Seq(Message)] : u = [t EXCEPT !.out = x]
         \/ \E x \in Seq(Block) : u = [t EXCEPT !.voted = x]
  PROVE  Good(u, B) /\ u.halted = t.halted /\ u.notarizedChain = t.notarizedChain
<1> DEFINE Same == /\ u \in State
                   /\ u.bc = t.bc /\ u.notarizedChain = t.notarizedChain
                   /\ u.curView = t.curView /\ u.committed = t.committed
                   /\ u.bufferedBlocks = t.bufferedBlocks /\ u.bufferedQCs = t.bufferedQCs
                   /\ u.bufferedNotarizedBlock = t.bufferedNotarizedBlock
                   /\ u.halted = t.halted
<1>1. t \in State
  BY DEF Good
<1>2. CASE \E x \in Seq(Nat) : u = [t EXCEPT !.newViewChan = x]
  <2>1. Same
    BY <1>1, <1>2 DEF State
  <2> QED BY <2>1 DEF Good
<1>3. CASE \E x \in SUBSET (Nat \X Replica) : u = [t EXCEPT !.timeouts = x]
  <2>1. Same
    BY <1>1, <1>3 DEF State
  <2> QED BY <2>1 DEF Good
<1>4. CASE \E x \in SUBSET Nat : u = [t EXCEPT !.advancing = x]
  <2>1. Same
    BY <1>1, <1>4 DEF State
  <2> QED BY <2>1 DEF Good
<1>5. CASE \E x \in SUBSET (Block \X Replica) : u = [t EXCEPT !.votes = x]
  <2>1. Same
    BY <1>1, <1>5 DEF State
  <2> QED BY <2>1 DEF Good
<1>6. CASE \E x \in SUBSET Block : u = [t EXCEPT !.echoedBlock = x]
  <2>1. Same
    BY <1>1, <1>6 DEF State
  <2> QED BY <2>1 DEF Good
<1>7. CASE \E x \in [Replica -> Seq(Message)] : u = [t EXCEPT !.out = x]
  <2>1. Same
    BY <1>1, <1>7 DEF State
  <2> QED BY <2>1 DEF Good
<1>8. CASE \E x \in Seq(Block) : u = [t EXCEPT !.voted = x]
  <2>1. Same
    BY <1>1, <1>8 DEF State
  <2> QED BY <2>1 DEF Good
<1> QED BY <1>2, <1>3, <1>4, <1>5, <1>6, <1>7, <1>8

\* The buffers
LEMMA SetBuffers ==
  ASSUME NEW B, StreamletTree(B), NEW t, Good(t, B), NEW u,
         \/ \E x \in SUBSET B : IsFiniteSet(x) /\ u = [t EXCEPT !.bufferedBlocks = x]
         \/ \E x \in SUBSET B : u = [t EXCEPT !.bufferedQCs = x]
         \/ \E x \in SUBSET B : IsFiniteSet(x) /\ u = [t EXCEPT !.bufferedNotarizedBlock = x]
  PROVE  Good(u, B) /\ u.halted = t.halted
<1> DEFINE Same == /\ u \in State
                   /\ u.bc = t.bc /\ u.notarizedChain = t.notarizedChain
                   /\ u.curView = t.curView /\ u.committed = t.committed
                   /\ u.halted = t.halted
<1>1. t \in State /\ B \subseteq Block
  BY ProposedBlock DEF Good
<1>2. CASE \E x \in SUBSET B : IsFiniteSet(x) /\ u = [t EXCEPT !.bufferedBlocks = x]
  <2>1. PICK x \in SUBSET B : IsFiniteSet(x) /\ u = [t EXCEPT !.bufferedBlocks = x]
    BY <1>2
  <2>2. /\ Same /\ u.bufferedBlocks = x /\ u.bufferedQCs = t.bufferedQCs
        /\ u.bufferedNotarizedBlock = t.bufferedNotarizedBlock
    BY <1>1, <2>1 DEF State
  <2> QED BY <2>1, <2>2 DEF Good
<1>3. CASE \E x \in SUBSET B : u = [t EXCEPT !.bufferedQCs = x]
  <2>1. PICK x \in SUBSET B : u = [t EXCEPT !.bufferedQCs = x]
    BY <1>3
  <2>2. /\ Same /\ u.bufferedBlocks = t.bufferedBlocks /\ u.bufferedQCs = x
        /\ u.bufferedNotarizedBlock = t.bufferedNotarizedBlock
    BY <1>1, <2>1 DEF State
  <2> QED BY <2>1, <2>2 DEF Good
<1>4. CASE \E x \in SUBSET B : IsFiniteSet(x) /\ u = [t EXCEPT !.bufferedNotarizedBlock = x]
  <2>1. PICK x \in SUBSET B : IsFiniteSet(x) /\ u = [t EXCEPT !.bufferedNotarizedBlock = x]
    BY <1>4
  <2>2. /\ Same /\ u.bufferedBlocks = t.bufferedBlocks /\ u.bufferedQCs = t.bufferedQCs
        /\ u.bufferedNotarizedBlock = x
    BY <1>1, <2>1 DEF State
  <2> QED BY <2>1, <2>2 DEF Good
<1> QED BY <1>2, <1>3, <1>4

\* A panic before three blocks are notarized
LEMMA SetHalted ==
  ASSUME NEW B, StreamletTree(B), NEW t, Good(t, B), Len(t.notarizedChain) < 3, NEW u, u = [t EXCEPT !.halted = TRUE]
  PROVE  Good(u, B)
<1>1. /\ u \in State
      /\ u.bc = t.bc /\ u.notarizedChain = t.notarizedChain
      /\ u.curView = t.curView /\ u.committed = t.committed
      /\ u.bufferedBlocks = t.bufferedBlocks /\ u.bufferedQCs = t.bufferedQCs
      /\ u.bufferedNotarizedBlock = t.bufferedNotarizedBlock
  BY DEF Good, State
<1> QED BY <1>1 DEF Good

\* A later view
LEMMA AdvanceKeeps ==
  ASSUME NEW B, StreamletTree(B), NEW t, Good(t, B), NEW v \in Nat
  PROVE  Good(AdvanceView(t, v), B)
<1> DEFINE u == [t EXCEPT !.curView = v + 1, !.newViewChan = Append(@, v + 1)]
<1>1. t \in State /\ t.curView \in Nat /\ t.notarizedChain \in Seq(Block)
  BY DEF Good, State
<1>2. CASE v < t.curView
  BY <1>2 DEF AdvanceView
<1>3. CASE ~(v < t.curView)
  <2>1. AdvanceView(t, v) = u
    BY <1>3 DEF AdvanceView
  <2> DEFINE q == Append(t.newViewChan, v + 1)
  <2>2. q \in Seq(Nat) /\ v + 1 \in Nat
    BY <1>1 DEF State
  <2>3. u = [t EXCEPT !.curView = v + 1, !.newViewChan = q]
    OBVIOUS
  <2> HIDE DEF q, u
  <2>4. /\ u \in State
        /\ u.bc = t.bc /\ u.notarizedChain = t.notarizedChain
        /\ u.curView = v + 1 /\ u.committed = t.committed
        /\ u.bufferedBlocks = t.bufferedBlocks /\ u.bufferedQCs = t.bufferedQCs
        /\ u.bufferedNotarizedBlock = t.bufferedNotarizedBlock
        /\ u.halted = t.halted
    BY <1>1, <2>2, <2>3 DEF State
  <2>5. \A i \in DOMAIN t.notarizedChain : t.notarizedChain[i].height \in Nat
    BY <1>1, BlockAssumption
  <2>6. ChainInv(t.notarizedChain, v + 1, B)
    BY <1>1, <1>3, <2>2, <2>5 DEF Good, ChainInv
  <2> QED BY <2>1, <2>4, <2>6 DEF Good
<1> QED BY <1>2, <1>3

\* A message to all others
LEMMA BroadcastKeeps ==
  ASSUME NEW B, StreamletTree(B), NEW t, Good(t, B), NEW m \in Message, NEW r \in Replica
  PROVE  /\ Good(Broadcast(r, t, m), B) /\ Broadcast(r, t, m).halted = t.halted
         /\ Broadcast(r, t, m).bc = t.bc
<1> DEFINE o == [q \in Replica |-> IF q = r THEN t.out[q] ELSE Append(t.out[q], m)]
<1>1. t \in State /\ t.out \in [Replica -> Seq(Message)]
  BY DEF Good, State
<1>2. o \in [Replica -> Seq(Message)]
  BY <1>1
<1>3. Broadcast(r, t, m) = [t EXCEPT !.out = o]
  BY <1>1 DEF Broadcast, State
<1> HIDE DEF o
<1>4. [t EXCEPT !.out = o].bc = t.bc
  BY <1>1 DEF State
<1> QED BY <1>2, <1>3, <1>4, SetOther

\* A message that is sent on once
LEMMA EchoKeeps ==
  ASSUME NEW B, StreamletTree(B), NEW t, Good(t, B), NEW m \in Message, NEW b \in Block, NEW r \in Replica
  PROVE  /\ Good(Echo(r, t, b, m), B) /\ Echo(r, t, b, m).halted = t.halted
         /\ Echo(r, t, b, m).bc = t.bc
<1> DEFINE E == t.echoedBlock \cup {b}
           u == [t EXCEPT !.echoedBlock = E]
<1>1. E \in SUBSET Block /\ t \in State
  BY DEF Good, State
<1>2. Echo(r, t, b, m) = t \/ Echo(r, t, b, m) = Broadcast(r, u, m)
  BY DEF Echo
<1> HIDE DEF E
<1>3. Good(u, B) /\ u.halted = t.halted
  BY <1>1, SetOther
<1>4. u.bc = t.bc
  BY <1>1 DEF State
<1> HIDE DEF u
<1> QED BY <1>2, <1>3, <1>4, BroadcastKeeps

-----------------------------------------------------------------------------
(* The handlers. *)

\* The calls that the handlers make
CallName == {"block", "vote", "broadcast", "certificate", "bufferedQC", "bufferedBlock",
             "waitingBlock", "deleteBlock", "waitingQC", "deleteQC"}
Calls(B) == [to : CallName, block : B]

\* What a handler may return
Doing(B) == {x \in [state : State, calls : Seq(Calls(B))] : Good(x.state, B)}

\* A handler that returns calls, or none
LEMMA DoKeeps ==
  ASSUME NEW B, StreamletTree(B), NEW t, Good(t, B)
  PROVE  Return(t) \in Doing(B) /\ \A q \in Seq(Calls(B)) : Do(t, q) \in Doing(B)
BY DEF Return, Do, Doing, Good

\* The calls there are for b
LEMMA CallIs == \A B : \A b \in B : \A name \in CallName : Call(name, b) \in Calls(B)
BY DEF Call, Calls

\* The same call for each block of a set
LEMMA CallsAre ==
  ASSUME NEW B, NEW W, W \subseteq B, IsFiniteSet(W), NEW name \in CallName
  PROVE  SetToSeq({Call(name, c) : c \in W}) \in Seq(Calls(B))
<1> DEFINE C == {Call(name, c) : c \in W}
           f == [c \in W |-> Call(name, c)]
<1>1. f \in Surjection(W, C)
  BY DEF Surjection
<1>2. IsFiniteSet(C)
  BY <1>1, FS_Surjection
<1>3. C \subseteq Calls(B)
  BY CallIs
<1> HIDE DEF C
<1>4. PICK n \in Nat : ExistsBijection(1..n, C)
  BY <1>2, FS_NatBijection
<1>5. Cardinality(C) = n
  BY <1>4, FS_CountingElements
<1>6. \E g \in [1..n -> C] : IsInjective(g)
  BY <1>4 DEF ExistsBijection, Bijection, Injection
<1>7. SetToSeq(C) \in [1..n -> C]
  BY <1>5, <1>6 DEF SetToSeq
<1>8. SetToSeq(C) \in Seq(Calls(B))
  BY <1>3, <1>7
<1> QED BY <1>8 DEF C

\* A map with one more entry, and what is under an identifier
LEMMA PutFinite ==
  ASSUME NEW B, StreamletTree(B), NEW M \in SUBSET B, IsFiniteSet(M), NEW c \in B
  PROVE  /\ Put(M, c) \in SUBSET B /\ IsFiniteSet(Put(M, c))
         /\ \A id : Under(M, id) \subseteq M /\ IsFiniteSet(Under(M, id))
<1>1. IsFiniteSet({d \in M : d.prev # c.prev})
  BY FS_Subset
<1>2. IsFiniteSet(Put(M, c))
  BY <1>1, FS_AddElement DEF Put
<1>3. \A id : Under(M, id) \subseteq M /\ IsFiniteSet(Under(M, id))
  BY FS_Subset DEF Under
<1> QED BY <1>2, <1>3 DEF Put

\* After a block has been stored it is voted for, or it waits.
LEMMA DecideKeeps ==
  ASSUME NEW B, StreamletTree(B), NEW t, Good(t, B), NEW b \in B
  PROVE  Decide(t, b) \in Doing(B)
<1> DEFINE W == Put(t.bufferedBlocks, b)
           p == [t EXCEPT !.bufferedBlocks = W]
           h == [t EXCEPT !.halted = TRUE]
           v == IF b \in Range(t.voted) THEN t.voted ELSE Append(t.voted, b)
           u == [t EXCEPT !.voted = v]
           q == <<Call("vote", b), Call("broadcast", b),
                  Call("bufferedQC", b), Call("bufferedBlock", b)>>
<1>1. /\ t \in State /\ t.voted \in Seq(Block) /\ b \in Block
      /\ t.bufferedBlocks \in SUBSET B /\ IsFiniteSet(t.bufferedBlocks)
  BY ProposedBlock DEF Good, State
<1>2. Remember(t, b) = u
  BY <1>1 DEF Remember, State
<1>3. \/ Decide(t, b) = Return(h) /\ t.notarizedChain = <<>>
      \/ Decide(t, b) = Return(p)
      \/ Decide(t, b) = Do(u, q)
  BY <1>2 DEF Decide, Panics
<1>4. W \in SUBSET B /\ IsFiniteSet(W)
  BY <1>1, PutFinite
<1> HIDE DEF W
<1>5. Good(p, B)
  BY <1>4, SetBuffers
<1>6. t.notarizedChain = <<>> => Good(h, B)
  <2> SUFFICES ASSUME t.notarizedChain = <<>> PROVE Good(h, B)
    OBVIOUS
  <2>1. Len(t.notarizedChain) < 3
    OBVIOUS
  <2> QED BY <2>1, SetHalted
<1>7. v \in Seq(Block)
  BY <1>1
<1> HIDE DEF v
<1>8. Good(u, B)
  BY <1>7, SetOther
<1>9. q \in Seq(Calls(B))
  <2>1. /\ Call("vote", b) \in Calls(B) /\ Call("broadcast", b) \in Calls(B)
        /\ Call("bufferedQC", b) \in Calls(B) /\ Call("bufferedBlock", b) \in Calls(B)
    BY CallIs DEF CallName
  <2> QED BY <2>1
<1> HIDE DEF h, p, u, q
<1> QED BY <1>3, <1>5, <1>6, <1>8, <1>9, DoKeeps

\* A block that arrives is dropped, buffered or stored.
LEMMA BlockKeeps ==
  ASSUME NEW B, StreamletTree(B), NEW r \in Replica, NEW t, Good(t, B), NEW b \in B
  PROVE  ProcessBlock(r, t, b) \in Doing(B)
<1> DEFINE W == Put(t.bufferedBlocks, b)
           p == [t EXCEPT !.bufferedBlocks = W]
           u == Echo(r, t, b, BlockMsg(b))
           f == AddVertex(u.bc, b, 0)
           v == [u EXCEPT !.bc = f]
<1>1. \/ ProcessBlock(r, t, b) = Return(t)
      \/ ProcessBlock(r, t, b) = Return(p)
      \/ /\ ProcessBlock(r, t, b) = Decide(v, b)
         /\ ~HasVertex(t.bc, b) /\ (HasVertex(t.bc, b.prev) \/ b.height <= 1)
  <2>1. b.height \in Nat
    BY ProposedBlock
  <2>2. \A w : [w EXCEPT !.bc = AddVertex(@, b, 0)] = [w EXCEPT !.bc = AddVertex(w.bc, b, 0)]
    OBVIOUS
  <2> HIDE DEF u, p
  <2> QED BY <2>1, <2>2 DEF ProcessBlock, Then, u, p
<1>2. Return(t) \in Doing(B)
  BY DoKeeps
<1>3. Return(p) \in Doing(B)
  <2>1. t.bufferedBlocks \in SUBSET B /\ IsFiniteSet(t.bufferedBlocks)
    BY DEF Good
  <2>2. W \in SUBSET B /\ IsFiniteSet(W)
    BY <2>1, PutFinite
  <2> HIDE DEF W
  <2>3. Good(p, B)
    BY <2>2, SetBuffers
  <2> HIDE DEF p
  <2> QED BY <2>3, DoKeeps
<1>4. ASSUME ~HasVertex(t.bc, b), HasVertex(t.bc, b.prev) \/ b.height <= 1
      PROVE  Decide(v, b) \in Doing(B)
  <2>1. b \in Block
    BY ProposedBlock
  <2>2. BlockMsg(b) \in Message
    BY <2>1 DEF BlockMsg, Message
  <2>3. Good(u, B) /\ u.bc = t.bc
    BY <2>1, <2>2, EchoKeeps
  <2> HIDE DEF u
  <2>4. u \in State /\ StoreOf(u.bc, B)
    BY <2>3 DEF Good
  <2>5. StoreOf(f, B) /\ f.lowest = u.bc.lowest
    <3>1. 0 \in Level /\ IsTree(B) /\ (0 = HeightOf(b.prev) \/ HasVertex(u.bc, b.prev))
      BY <1>4, <2>3, ProposedBlock, BlockAssumption DEF Level
    <3> QED BY <1>4, <2>3, <2>4, <3>1, StoreAdds
  <2> HIDE DEF f
  <2>6. f \in Forest
    BY <2>5 DEF StoreOf
  <2>7. /\ v \in State /\ v.bc = f /\ v.notarizedChain = u.notarizedChain
        /\ v.curView = u.curView /\ v.committed = u.committed
        /\ v.bufferedBlocks = u.bufferedBlocks /\ v.bufferedQCs = u.bufferedQCs
        /\ v.bufferedNotarizedBlock = u.bufferedNotarizedBlock /\ v.halted = u.halted
    BY <2>4, <2>6 DEF State
  <2> HIDE DEF v
  <2>8. Good(v, B)
    BY <2>3, <2>5, <2>7 DEF Good
  <2> QED BY <2>8, DecideKeeps
<1> HIDE DEF p, v
<1> QED BY <1>1, <1>2, <1>3, <1>4

\* A vote is sent on and counted.
LEMMA VoteKeeps ==
  ASSUME NEW B, StreamletTree(B), NEW r \in Replica, NEW t, Good(t, B), NEW b \in B, NEW q \in Replica
  PROVE  ProcessVote(r, t, b, q) \in Doing(B)
<1> DEFINE u == Echo(r, t, b, VoteMsg(b, q))
           x == AddVote(u, b, q)
           V == u.votes \cup {<<b, q>>}
           v == [u EXCEPT !.votes = V]
           calls == IF x.isBuilt THEN <<Call("certificate", b)>> ELSE <<>>
<1>1. ProcessVote(r, t, b, q) = Do(x.state, calls)
  <2> HIDE DEF u
  <2> QED BY DEF ProcessVote, Then, u
<1>2. b \in Block /\ VoteMsg(b, q) \in Message
  BY ProposedBlock DEF VoteMsg, Message
<1>3. Good(u, B)
  BY <1>2, EchoKeeps
<1> HIDE DEF u
<1>4. V \in SUBSET (Block \X Replica)
  BY <1>2, <1>3 DEF Good, State
<1>5. x.state \in {u, v}
  BY DEF AddVote
<1> HIDE DEF V
<1>6. Good(v, B)
  BY <1>3, <1>4, SetOther
<1> HIDE DEF v, x
<1>7. calls \in Seq(Calls(B))
  <2>1. Call("certificate", b) \in Calls(B)
    BY CallIs DEF CallName
  <2> QED BY <2>1
<1> HIDE DEF calls
<1> QED BY <1>1, <1>3, <1>5, <1>6, <1>7, DoKeeps

\* The second of the last three blocks is committed, and what waited is called for.
LEMMA CommitKeeps ==
  ASSUME NEW B, StreamletTree(B), NEW t, Good(t, B), ~t.halted, NEW c \in B,
         Len(t.notarizedChain) >= 3
  PROVE  Commit(t, c) \in Doing(B)
<1> DEFINE chain == t.notarizedChain
           m == Len(chain) - 1
           b == chain[m]
           u == CommitBlock(t, b)
           E == u.echoedBlock \ (Range(u.committed) \ Range(t.committed))
           v == [u EXCEPT !.echoedBlock = E]
           q == <<Call("waitingBlock", c), Call("waitingQC", c)>>
<1>1. Commit(t, c) = IF ~CanCommit(t, b) THEN Return(t) ELSE Do(v, q)
  <2>1. [u EXCEPT !.echoedBlock = @ \ (Range(u.committed) \ Range(t.committed))] = v
    OBVIOUS
  <2> HIDE DEF u, v
  <2> QED BY <2>1 DEF Commit, Then, u
<1>2. CASE ~CanCommit(t, b)
  BY <1>1, <1>2, DoKeeps
<1>3. CASE CanCommit(t, b)
  <2>1. /\ t \in State /\ StoreOf(t.bc, B) /\ CommitInv(t.committed, chain, t.bc.lowest)
        /\ t.committed \in Seq(Block) /\ b \in t.bc.full /\ b \in B
        /\ chain \in Seq(Block) /\ ChainInv(chain, t.curView, B) /\ IsTree(B)
    BY <1>3, ProposedBlock DEF CanCommit, HasVertex, Good, State, StoreOf, StreamletTree
  <2>2. PruneReturns(t.bc, b.height)
    BY <2>1, PruneComesBack
  <2> DEFINE D == CommittedBlocks(t.bc, b)
             C == t.committed \o D
             f == PruneUpToLevel(t.bc, b.height)
             V == {w \in t.votes : w[1] \notin Range(D)}
  <2>13. m \in DOMAIN chain
    BY <2>1
  <2>3. C \in Seq(Block) /\ CommitInv(C, chain, b.height)
    <3> HIDE DEF m, chain
    <3> QED BY <2>1, <2>13, CommitsGoOn
  <2> HIDE DEF b
  <2>4. StoreOf(f, B) /\ f.lowest = b.height
    BY <2>1, StorePrunes
  <2>5. V \in SUBSET (Block \X Replica)
    BY <2>1 DEF State
  <2>6. u = [t EXCEPT !.votes = V, !.committed = C, !.bc = f]
    BY <1>3, <2>2 DEF CommitBlock
  <2> HIDE DEF u, D, C, f, V
  <2>7. f \in Forest
    BY <2>4 DEF StoreOf
  <2>8. /\ u \in State /\ u.bc = f /\ u.notarizedChain = t.notarizedChain
        /\ u.curView = t.curView /\ u.committed = C
        /\ u.bufferedBlocks = t.bufferedBlocks /\ u.bufferedQCs = t.bufferedQCs
        /\ u.bufferedNotarizedBlock = t.bufferedNotarizedBlock /\ u.halted = t.halted
    BY <2>1, <2>3, <2>5, <2>6, <2>7 DEF State
  <2>9. Good(u, B)
    BY <2>3, <2>4, <2>8 DEF Good
  <2>10. E \in SUBSET Block
    BY <2>8 DEF State
  <2> HIDE DEF E
  <2>11. Good(v, B)
    BY <2>9, <2>10, SetOther
  <2> HIDE DEF v
  <2>12. q \in Seq(Calls(B))
    <3>1. Call("waitingBlock", c) \in Calls(B) /\ Call("waitingQC", c) \in Calls(B)
      BY CallIs DEF CallName
    <3> QED BY <3>1
  <2> HIDE DEF q
  <2> QED BY <1>1, <1>3, <2>11, <2>12, DoKeeps
<1> QED BY <1>2, <1>3

\* A certificate goes to the end of the chain and its view is left, both at once, or it
\* waits, or its parent is looked for in a chain that is too short.
LEMMA CertificateKeeps ==
  ASSUME NEW B, StreamletTree(B), NEW t, Good(t, B), ~t.halted, NEW c \in B
  PROVE  processCertificate(t, c) \in Doing(B)
<1> DEFINE Q == t.bufferedQCs \cup {c}
           p == [t EXCEPT !.bufferedQCs = Q]
           chain == t.notarizedChain
           A == Append(chain, c)
           a == [t EXCEPT !.notarizedChain = A]
           v == AdvanceView(a, c.height)
           z == IF c.height >= 3 /\ commitRule(v.notarizedChain) THEN Commit(v, c) ELSE Return(v)
           h == [t EXCEPT !.halted = TRUE]
           M == Put(t.bufferedNotarizedBlock, c)
           w == [t EXCEPT !.bufferedNotarizedBlock = M]
           canAppend == chain = <<>> \/ c.prev \in Range(chain)
<1>1. \/ processCertificate(t, c) \in {Return(t), Return(p), Return(w)}
      \/ processCertificate(t, c) = Return(h) /\ Len(chain) < 3
      \/ processCertificate(t, c) = z /\ canAppend /\ ~(c.height < t.curView)
  <2> DEFINE x == updateNotarizedChain(t, c)
             y == IF x.ok THEN [x EXCEPT !.state = AdvanceView(@, c.height)] ELSE x
             end == IF y.ok /\ c.height >= 3 /\ commitRule(y.state.notarizedChain)
                    THEN Commit(y.state, c) ELSE Return(y.state)
  <2>1. \/ processCertificate(t, c) \in {Return(t), Return(p)}
        \/ processCertificate(t, c) = end /\ ~(c.height < t.curView)
    <3> HIDE DEF x, y, p
    <3> QED BY DEF processCertificate, Then, p, x, y
  <2>2. CASE canAppend
    <3>1. x = [state |-> a, ok |-> TRUE]
      BY <2>2 DEF updateNotarizedChain
    <3> HIDE DEF x, a
    <3>2. y = [state |-> v, ok |-> TRUE]
      BY <3>1
    <3> HIDE DEF y, v
    <3>3. end = z
      BY <3>2
    <3> QED BY <2>1, <2>2, <3>3
  <2>3. CASE ~canAppend /\ Len(chain) < 3
    <3>1. x = [state |-> h, ok |-> FALSE]
      BY <2>3 DEF updateNotarizedChain
    <3> HIDE DEF x, h
    <3>2. end = Return(h)
      BY <3>1
    <3> HIDE DEF end
    <3> QED BY <2>1, <2>3, <3>2
  <2>4. CASE ~canAppend /\ ~(Len(chain) < 3)
    <3>1. x = [state |-> w, ok |-> FALSE]
      BY <2>4 DEF updateNotarizedChain
    <3> HIDE DEF x, w
    <3>2. end = Return(w)
      BY <3>1
    <3> HIDE DEF end
    <3> QED BY <2>1, <3>2
  <2> QED BY <2>2, <2>3, <2>4
<1>2. Return(t) \in Doing(B)
  BY DoKeeps
<1>3. Return(p) \in Doing(B)
  <2>1. Q \in SUBSET B
    BY DEF Good
  <2> HIDE DEF Q
  <2>2. Good(p, B)
    BY <2>1, SetBuffers
  <2> HIDE DEF p
  <2> QED BY <2>2, DoKeeps
<1>4. Return(w) \in Doing(B)
  <2>1. t.bufferedNotarizedBlock \in SUBSET B /\ IsFiniteSet(t.bufferedNotarizedBlock)
    BY DEF Good
  <2>2. M \in SUBSET B /\ IsFiniteSet(M)
    BY <2>1, PutFinite
  <2> HIDE DEF M
  <2>3. Good(w, B)
    BY <2>2, SetBuffers
  <2> HIDE DEF w
  <2> QED BY <2>3, DoKeeps
<1>5. Len(chain) < 3 => Return(h) \in Doing(B)
  <2> SUFFICES ASSUME Len(chain) < 3 PROVE Return(h) \in Doing(B)
    OBVIOUS
  <2>1. Good(h, B)
    BY SetHalted
  <2> HIDE DEF h
  <2> QED BY <2>1, DoKeeps
<1>6. ASSUME canAppend, ~(c.height < t.curView) PROVE z \in Doing(B)
  <2> DEFINE n == Len(chain)
             W == Append(t.newViewChan, c.height + 1)
  <2>1. /\ t \in State /\ chain \in Seq(Block) /\ t.curView \in Nat
        /\ c \in Block /\ c.height \in Nat /\ t.newViewChan \in Seq(Nat)
    BY ProposedBlock DEF Good, State
  <2>2. /\ n \in Nat /\ DOMAIN chain = 1..n /\ A \in Seq(Block) /\ DOMAIN A = 1 .. n + 1
        /\ A[n + 1] = c /\ \A i \in 1..n : A[i] = chain[i]
    BY <2>1
  <2>3. W \in Seq(Nat) /\ c.height + 1 \in Nat
    BY <2>1
  <2> HIDE DEF A
  <2>4. a \in State /\ a.curView = t.curView /\ a.newViewChan = t.newViewChan
    BY <2>1, <2>2 DEF State
  <2>5. v = [a EXCEPT !.curView = c.height + 1, !.newViewChan = W]
    BY <1>6, <2>4 DEF AdvanceView
  <2> HIDE DEF W
  <2>6. /\ v \in State
        /\ v.bc = t.bc /\ v.notarizedChain = A
        /\ v.curView = c.height + 1 /\ v.committed = t.committed
        /\ v.bufferedBlocks = t.bufferedBlocks /\ v.bufferedQCs = t.bufferedQCs
        /\ v.bufferedNotarizedBlock = t.bufferedNotarizedBlock
        /\ v.halted = t.halted
    BY ZenonT(40), <2>1, <2>2, <2>3, <2>5 DEF State
  <2>7. ChainInv(A, c.height + 1, B)
    <3>1. ChainInv(chain, t.curView, B)
      BY DEF Good
    <3> HIDE DEF chain, n
    <3>2. \A k \in 1..n : /\ chain[k] \in B /\ chain[k].height \in Nat
                           /\ chain[k].height < t.curView /\ chain[k].height < c.height
      <4> TAKE k \in 1..n
      <4>1. chain[k] \in B /\ chain[k].height \in Nat /\ chain[k].height < t.curView
        BY <2>1, <2>2, <3>1, BlockAssumption DEF ChainInv
      <4> QED BY <1>6, <2>1, <4>1
    <3> SUFFICES ASSUME NEW i \in 1 .. n + 1
                 PROVE  /\ A[i] \in B /\ A[i].height < c.height + 1
                        /\ \A j \in 1 .. i - 1 : A[j].height < A[i].height
                        /\ i > 1 => \E j \in 1 .. i - 1 : A[i].prev = A[j]
      BY <2>2 DEF ChainInv
    <3>5. \A j \in 1 .. i - 1 : j \in 1..n /\ A[j] = chain[j]
      BY <2>2
    <3>3. CASE i \in 1..n
      <4>1. A[i] = chain[i] /\ A[i] \in B /\ A[i].height < c.height + 1
        BY <2>1, <2>2, <3>2, <3>3
      <4>2. /\ \A j \in 1 .. i - 1 : chain[j].height < chain[i].height
            /\ i > 1 => \E j \in 1 .. i - 1 : chain[i].prev = chain[j]
        BY <2>2, <3>1, <3>3 DEF ChainInv
      <4> QED BY <3>5, <4>1, <4>2
    <3>4. CASE i = n + 1
      <4>1. A[i] = c /\ A[i] \in B /\ A[i].height < c.height + 1
        BY <2>1, <2>2, <3>4
      <4>2. ASSUME i > 1 PROVE \E j \in 1 .. i - 1 : A[i].prev = A[j]
        <5>1. n > 0 /\ i - 1 = n
          BY <2>2, <3>4, <4>2
        <5>2. c.prev \in Range(chain)
          BY <1>6, <2>1, <2>2, <5>1 DEF chain
        <5>3. PICK j \in 1..n : c.prev = chain[j]
          BY <2>2, <5>2 DEF Range
        <5> QED BY <3>5, <4>1, <5>1, <5>3
      <4> QED BY <3>2, <3>5, <4>1, <4>2
    <3> QED BY <2>2, <3>3, <3>4
  <2>9. CommitInv(t.committed, A, t.bc.lowest)
    <3>1. CommitInv(t.committed, chain, t.bc.lowest) /\ t.bc.lowest \in Nat
      BY DEF Good, StoreOf, Forest, Level
    <3>2. CASE chain = <<>>
      <4>1. t.committed = <<>> /\ t.bc.lowest = 0
        BY <3>1, <3>2 DEF CommitInv
      <4> QED BY <4>1 DEF CommitInv
    <3>3. CASE chain # <<>>
      <4>1. A[1] = chain[1] /\ A # <<>>
        BY <2>1, <2>2, <3>3
      <4>2. Before(A) = Before(chain)
        BY <4>1 DEF Before
      <4> QED BY <3>1, <3>3, <4>1, <4>2 DEF CommitInv
    <3> QED BY <3>2, <3>3
  <2> HIDE DEF v
  <2>8. Good(v, B)
    BY <2>6, <2>7, <2>9 DEF Good
  <2>10. commitRule(v.notarizedChain) => Len(v.notarizedChain) >= 3
    BY DEF commitRule
  <2> QED BY <2>6, <2>8, <2>10, CommitKeeps, DoKeeps
<1> HIDE DEF p, w, h, z, chain, canAppend
<1> QED BY <1>1, <1>2, <1>3, <1>4, <1>5, <1>6

\* A call leads to a good state, and to more calls.
LEMMA MakeKeeps ==
  ASSUME NEW B, StreamletTree(B), NEW r \in Replica, NEW t, Good(t, B), ~t.halted, NEW c \in Calls(B)
  PROVE  Make(r, t, c.to, c.block) \in Doing(B)
<1> DEFINE b == c.block
           children == Under(t.bufferedBlocks, b)
           waiting == Under(t.bufferedNotarizedBlock, b)
           toBlocks == SetToSeq({Call("block", d) : d \in children})
           x == Make(r, t, c.to, c.block)
<1>1. b \in B /\ b \in Block /\ c.to \in CallName
  BY ProposedBlock DEF Calls
<1>2. /\ t.bufferedBlocks \in SUBSET B /\ IsFiniteSet(t.bufferedBlocks)
      /\ t.bufferedNotarizedBlock \in SUBSET B /\ IsFiniteSet(t.bufferedNotarizedBlock)
      /\ t.bufferedQCs \in SUBSET B
  BY DEF Good
<1>3. /\ children \subseteq B /\ IsFiniteSet(children)
      /\ waiting \subseteq B /\ IsFiniteSet(waiting)
  BY <1>1, <1>2, PutFinite
<1> HIDE DEF children, waiting
<1>4. toBlocks \in Seq(Calls(B))
  BY <1>3, CallsAre DEF CallName
<1> HIDE DEF toBlocks
<1>5. CASE c.to = "block"
  BY <1>1, <1>5, BlockKeeps DEF Make
<1>6. CASE c.to = "vote"
  BY <1>1, <1>6, VoteKeeps DEF Make
<1>7. CASE c.to = "broadcast"
  <2>1. x = Return(Broadcast(r, t, VoteMsg(b, r)))
    BY <1>7 DEF Make
  <2>2. VoteMsg(b, r) \in Message
    BY <1>1 DEF VoteMsg, Message
  <2> QED BY <2>1, <2>2, BroadcastKeeps, DoKeeps
<1>8. CASE c.to = "certificate"
  BY <1>1, <1>8, CertificateKeeps DEF Make
<1>9. CASE c.to = "bufferedQC"
  <2>1. x = IF b \in t.bufferedQCs THEN processCertificate(t, b) ELSE Return(t)
    BY <1>9 DEF Make
  <2> QED BY <1>1, <2>1, CertificateKeeps, DoKeeps
<1>10. CASE c.to = "bufferedBlock"
  <2>1. x = Do(t, toBlocks \o <<>>)
    BY <1>10 DEF Make, toBlocks, children
  <2>2. toBlocks \o <<>> \in Seq(Calls(B))
    BY <1>4
  <2> QED BY <2>1, <2>2, DoKeeps
<1>11. CASE c.to = "waitingBlock"
  <2> DEFINE q == <<Call("deleteBlock", b)>>
  <2>1. x = Do(t, toBlocks \o q)
    BY <1>11 DEF Make, toBlocks, children
  <2>2. q \in Seq(Calls(B))
    <3>1. Call("deleteBlock", b) \in Calls(B)
      BY <1>1, CallIs DEF CallName
    <3> QED BY <3>1
  <2> HIDE DEF q
  <2>3. toBlocks \o q \in Seq(Calls(B))
    BY <1>4, <2>2
  <2> QED BY <2>1, <2>3, DoKeeps
<1>12. CASE c.to = "deleteBlock"
  <2> DEFINE R == t.bufferedBlocks \ children
             u == [t EXCEPT !.bufferedBlocks = R]
  <2>1. x = Return(u)
    BY <1>12 DEF Make, children
  <2>2. R \in SUBSET B /\ IsFiniteSet(R)
    BY <1>2, FS_Subset
  <2> HIDE DEF R
  <2>3. Good(u, B)
    BY <2>2, SetBuffers
  <2> QED BY <2>1, <2>3, DoKeeps
<1>13. CASE c.to = "waitingQC"
  <2> DEFINE p == SetToSeq({Call("certificate", d) : d \in waiting})
             q == SetToSeq({Call("deleteQC", d) : d \in waiting})
  <2>1. x = Do(t, p \o q)
    BY <1>13 DEF Make, waiting
  <2>2. p \in Seq(Calls(B)) /\ q \in Seq(Calls(B))
    BY <1>3, CallsAre DEF CallName
  <2> HIDE DEF p, q
  <2>3. p \o q \in Seq(Calls(B))
    BY <2>2
  <2> QED BY <2>1, <2>3, DoKeeps
<1>14. CASE c.to = "deleteQC"
  <2> DEFINE Q == t.bufferedQCs \ {b}
             u == [t EXCEPT !.bufferedQCs = Q]
  <2>1. x = Return(u)
    BY <1>14 DEF Make
  <2>2. Q \in SUBSET B
    BY <1>2
  <2> HIDE DEF Q
  <2>3. Good(u, B)
    BY <2>2, SetBuffers
  <2> QED BY <2>1, <2>3, DoKeeps
<1> QED
  BY <1>1, <1>5, <1>6, <1>7, <1>8, <1>9, <1>10, <1>11, <1>12, <1>13, <1>14 DEF CallName

\* All calls are made.
LEMMA RunKeeps ==
  ASSUME NEW B, StreamletTree(B), NEW r \in Replica, NEW start \in Doing(B)
  PROVE  Good(Run(r, start), B)
<1> DEFINE Step(y) == IF y.calls = <<>> \/ y.state.halted THEN y
                      ELSE LET c == Head(y.calls)
                               Push(z) == Do(z.state, z.calls \o Tail(y.calls))
                           IN  Then(Make(r, y.state, c.to, c.block), Push)
           Def(f) == [n \in Nat |-> IF n = 0 THEN start ELSE Then(f[n - 1], Step)]
           after == CHOOSE f : f = Def(f)
           k == 12 * (1 + Cardinality(start.state.bufferedBlocks))
<1>1. ASSUME NEW y \in Doing(B) PROVE Step(y) \in Doing(B)
  <2> DEFINE t == y.state
             z == Make(r, y.state, Head(y.calls).to, Head(y.calls).block)
             q == z.calls \o Tail(y.calls)
  <2>1. CASE y.calls = <<>> \/ y.state.halted
    BY <2>1
  <2>2. CASE ~(y.calls = <<>> \/ y.state.halted)
    <3>1. Good(t, B) /\ y.calls \in Seq(Calls(B))
      BY DEF Doing
    <3>2. Head(y.calls) \in Calls(B) /\ Tail(y.calls) \in Seq(Calls(B))
      BY <2>2, <3>1
    <3>3. Step(y) = Do(z.state, q)
      BY <2>2 DEF Then
    <3>4. z \in Doing(B)
      BY <2>2, <3>1, <3>2, MakeKeeps
    <3> HIDE DEF z
    <3>5. Good(z.state, B) /\ z.calls \in Seq(Calls(B))
      BY <3>4 DEF Doing
    <3>6. q \in Seq(Calls(B))
      BY <3>2, <3>5
    <3> HIDE DEF q
    <3> QED BY <3>3, <3>5, <3>6, DoKeeps
  <2> QED BY <2>1, <2>2
<1>2. Run(r, start) = after[k].state
  BY DEF Run
<1>3. \A x : Then(x, Step) = Step(x)
  <2> HIDE DEF Step
  <2> QED BY DEF Then
<1> HIDE DEF Step
<1>4. \A n \in Nat : after[n] \in Doing(B)
  <2> DEFINE step == [x \in Doing(B) |-> Step(x)]
  <2>1. step \in [Doing(B) -> Doing(B)]
    BY <1>1
  <2>2. PICK g : IsIteration(g, Doing(B), step, start)
    <3> HIDE DEF step
    <3> QED BY <2>1, IterationExists
  <2>3. /\ g \in [Nat -> Doing(B)] /\ g[0] = start
        /\ \A n \in Nat : n # 0 => g[n] = Step(g[n - 1])
    BY <2>2 DEF IsIteration
  <2>4. g = Def(g)
    BY <1>3, <2>3
  <2>5. after = Def(after)
    <3> HIDE DEF Def
    <3> QED BY <2>4
  <2> HIDE DEF after
  <2>6. after[0] = start /\ \A n \in Nat : after[n + 1] = Step(after[n])
    <3>1. Def(after) = [n \in Nat |-> IF n = 0 THEN start ELSE Step(after[n - 1])]
      BY <1>3
    <3> HIDE DEF Def
    <3>2. \A n \in Nat : after[n] = IF n = 0 THEN start ELSE Step(after[n - 1])
      BY <2>5, <3>1
    <3> QED BY <3>2
  <2> DEFINE S == {n \in Nat : after[n] \in Doing(B)}
  <2>7. 0 \in S /\ \A n \in Nat : n \in S => n + 1 \in S
    BY <1>1, <2>6
  <2>8. Nat \subseteq S
    <3> HIDE DEF S
    <3> QED BY <2>7, SetInduction
  <2> QED BY <2>8
<1> HIDE DEF after
<1>5. k \in Nat
  <2>1. IsFiniteSet(start.state.bufferedBlocks)
    BY DEF Doing, Good
  <2> QED BY <2>1, FS_CardinalityType
<1> HIDE DEF k
<1> QED BY <1>2, <1>4, <1>5 DEF Doing

\* A block or a vote is handled.
LEMMA HandleKeeps ==
  ASSUME NEW B, StreamletTree(B), NEW r \in Replica, NEW t, Good(t, B), NEW b \in B, NEW q \in Replica
  PROVE  Good(HandleBlock(r, t, b), B) /\ Good(HandleVote(r, t, b, q), B)
BY BlockKeeps, VoteKeeps, RunKeeps DEF HandleBlock, HandleVote

\* A timeout is handled.
LEMMA TmoKeeps ==
  ASSUME NEW B, StreamletTree(B), NEW t, Good(t, B), NEW view \in Nat, NEW q \in Replica
  PROVE  Good(ProcessRemoteTmo(t, view, q), B)
<1> DEFINE T == t.timeouts \cup {<<view, q>>}
           u == [t EXCEPT !.timeouts = T]
           x == AcceptTmo(t, view, q)
           A == x.state.advancing \cup {x.tc}
           v == [x.state EXCEPT !.advancing = A]
<1>1. T \in SUBSET (Nat \X Replica)
  BY DEF Good, State
<1>2. x.state \in {t, u} /\ x.tc \in Nat
  BY DEF AcceptTmo, AddTmo, NoTC
<1>3. ProcessRemoteTmo(t, view, q) \in {x.state, v}
  <2> HIDE DEF x
  <2> QED BY DEF ProcessRemoteTmo, processTC, Then, x
<1> HIDE DEF x, T
<1>4. Good(u, B)
  BY <1>1, SetOther
<1> HIDE DEF u
<1>5. Good(x.state, B)
  BY <1>2, <1>4
<1>6. A \in SUBSET Nat
  BY <1>2, <1>5 DEF Good, State
<1> HIDE DEF A
<1>7. Good(v, B)
  BY <1>5, <1>6, SetOther
<1> QED BY <1>3, <1>5, <1>7

\* The timer announces a timeout for the current view.
LEMMA LocalTmoKeeps ==
  ASSUME NEW B, StreamletTree(B), NEW r \in Replica, NEW t, Good(t, B)
  PROVE  Good(ProcessLocalTmo(r, t), B)
<1> DEFINE m == TmoMsg(t.curView, Genesis)
           u == Broadcast(r, t, m)
<1>1. t.curView \in Nat
  BY DEF Good, State
<1>2. m \in Message
  BY <1>1 DEF TmoMsg, Message, Identifier
<1>3. ProcessLocalTmo(r, t) = ProcessRemoteTmo(u, t.curView, r)
  BY DEF ProcessLocalTmo
<1> HIDE DEF m
<1>4. Good(u, B)
  BY <1>2, BroadcastKeeps
<1> HIDE DEF u
<1> QED BY <1>1, <1>3, <1>4, TmoKeeps

-----------------------------------------------------------------------------
(* The replica and what reaches it. *)

\* The replica as it starts
LEMMA NewIsGood ==
  ASSUME NEW B, StreamletTree(B)
  PROVE  Good(NewStreamlet, B)
<1> DEFINE f == NewLevelledForest
           o == [q \in Replica |-> <<>>]
           t == [curView        |-> NewPacemaker.curView,
                 newViewChan    |-> NewPacemaker.newViewChan,
                 timeouts       |-> NewPacemaker.timeouts,
                 advancing      |-> {},
                 notarizedChain |-> <<>>,
                 votes          |-> {},
                 bufferedBlocks |-> {},
                 bufferedQCs    |-> {},
                 bufferedNotarizedBlock |-> {},
                 echoedBlock    |-> {},
                 bc             |-> f,
                 committed      |-> <<>>,
                 halted         |-> FALSE,
                 out            |-> o,
                 proposed       |-> {},
                 voted          |-> <<>>]
<1>1. f \in Forest /\ f.lowest = 0 /\ f.full = {} /\ \A l \in Level : f.atLevel[l] = <<>>
  BY BlockAssumption DEF NewLevelledForest, Forest, Level
<1> HIDE DEF f
<1>2. StoreOf(f, B)
  <2>1. 0 \in Level /\ Range(<<>>) = {} /\ IsFiniteSet({})
    BY BlockAssumption, FS_EmptySet DEF Level, Range
  <2> QED BY <1>1, <2>1 DEF StoreOf
<1>3. o \in [Replica -> Seq(Message)]
  OBVIOUS
<1> HIDE DEF o
<1>4. t \in State
  BY <1>1, <1>3 DEF State, NewPacemaker
<1>5. /\ t.bc = f /\ t.notarizedChain = <<>> /\ t.committed = <<>> /\ ~t.halted
      /\ t.bufferedBlocks = {} /\ t.bufferedQCs = {} /\ t.bufferedNotarizedBlock = {}
  OBVIOUS
<1>6. NewStreamlet = AdvanceView(t, 0)
  BY DEF NewStreamlet, f, o
<1> HIDE DEF t
<1>7. DOMAIN <<>> = {} /\ IsFiniteSet({})
  BY FS_EmptySet
<1>8. Good(t, B)
  <2>1. t.bc.lowest = 0
    BY <1>1, <1>5
  <2> QED BY <1>2, <1>4, <1>5, <1>7, <2>1 DEF Good, ChainInv, CommitInv
<1> QED BY <1>6, <1>8, AdvanceKeeps

\* What is sent, and the views that were entered, are forgotten.
LEMMA BecomesGood ==
  ASSUME NEW B, StreamletTree(B), Good(s, B), NEW t, Good(t, B), Becomes(t)
  PROVE  Good(s', B)
<1> DEFINE u == [t EXCEPT !.out = s.out]
<1>1. s.out \in [Replica -> Seq(Message)] /\ s.newViewChan \in Seq(Nat)
  BY DEF Good, State
<1>2. s' = [u EXCEPT !.newViewChan = s.newViewChan]
  BY DEF Becomes
<1>3. Good(u, B)
  BY <1>1, SetOther
<1> HIDE DEF u
<1> QED BY <1>1, <1>2, <1>3, SetOther

\* What may arrive
Arrival(B) == [type : {"vote"}, block : B] \cup [type : {"tmo"}, view : Nat]

\* Many messages are handled, one after the other.
LEMMA AllArriveKeeps ==
  ASSUME NEW B, StreamletTree(B), Good(s, B), NEW Q, \A q \in Q : q \in Nat \ {0} => q \in Replica,
         NEW m \in Arrival(B), AllArrive(Q, m)
  PROVE  Good(s', B)
<1> DEFINE D == {t \in State : Good(t, B)}
           One(q, t) == IF q \in Q THEN Receive(t, q, m) ELSE t
           Def(f) == [q \in Nat |->
                        LET Add(t) == IF q \in Q THEN Receive(t, q, m) ELSE t
                        IN  IF q = 0 THEN s ELSE Then(f[q - 1], Add)]
           after == CHOOSE f : f = Def(f)
<1>1. Becomes(after[N])
  BY DEF AllArrive
<1>2. ASSUME NEW q \in Nat \ {0}, NEW t \in D PROVE One(q, t) \in D
  <2>1. Good(t, B) /\ (q \in Q => q \in Replica)
    OBVIOUS
  <2>2. CASE m.type = "vote"
    <3>1. m.block \in B
      BY <2>2 DEF Arrival
    <3>2. q \in Q => Good(HandleVote(Self, t, m.block, q), B)
      BY <2>1, <3>1, HandleKeeps, SelfAssumption
    <3> QED BY <2>1, <2>2, <3>2 DEF Receive, Good
  <2>3. CASE m.type # "vote"
    <3>1. m.view \in Nat
      BY <2>3 DEF Arrival
    <3>2. q \in Q => Good(ProcessRemoteTmo(t, m.view, q), B)
      BY <2>1, <3>1, TmoKeeps
    <3> QED BY <2>1, <2>3, <3>2 DEF Receive, Good
  <2> QED BY <2>2, <2>3
<1>3. \A f : Def(f) = [q \in Nat |-> IF q = 0 THEN s ELSE One(q, f[q - 1])]
  BY DEF Then
<1> HIDE DEF One, Def
<1>4. s \in D
  BY DEF Good
<1> HIDE DEF D
<1>5. \E f \in [Nat -> D] : f = Def(f)
  <2> DEFINE step == [p \in Nat \X D |-> IF p[1] = 0 THEN p[2] ELSE One(p[1], p[2])]
  <2>1. step \in [Nat \X D -> D]
    BY <1>2
  <2>2. PICK f : IsCountedIteration(f, D, step, s)
    <3> HIDE DEF step
    <3> QED BY <1>4, <2>1, CountedIterationExists
  <2>3. /\ f \in [Nat -> D] /\ f[0] = s
        /\ \A n \in Nat : n # 0 => f[n] = step[<<n, f[n - 1]>>]
    BY <2>2 DEF IsCountedIteration
  <2>4. ASSUME NEW n \in Nat, n # 0 PROVE f[n] = One(n, f[n - 1])
    <3>1. n - 1 \in Nat /\ <<n, f[n - 1]>> \in Nat \X D
      BY <2>3, <2>4
    <3> QED BY <2>3, <2>4, <3>1
  <2> HIDE DEF step
  <2>5. f = [q \in Nat |-> IF q = 0 THEN s ELSE One(q, f[q - 1])]
    BY <2>3, <2>4
  <2> QED BY <1>3, <2>3, <2>5
<1>6. after = Def(after)
  BY <1>5
<1> HIDE DEF after
<1>7. after[0] = s /\ \A n \in Nat : after[n + 1] = One(n + 1, after[n])
  <2>1. after = [q \in Nat |-> IF q = 0 THEN s ELSE One(q, after[q - 1])]
    BY <1>3, <1>6
  <2> QED BY <2>1
<1> DEFINE S == {n \in Nat : after[n] \in D}
<1>8. Nat \subseteq S
  <2>1. 0 \in S
    BY <1>4, <1>7
  <2>2. ASSUME NEW n \in Nat, n \in S PROVE n + 1 \in S
    <3>1. n + 1 \in Nat \ {0}
      OBVIOUS
    <3> QED BY <1>2, <1>7, <2>2, <3>1
  <2> HIDE DEF S
  <2> QED BY <2>1, <2>2, SetInduction
<1>9. Good(after[N], B)
  BY <1>8, NAssumption DEF D
<1> QED BY <1>1, <1>9, BecomesGood

LEMMA InitImpliesSInv == Init => SInv
<1> SUFFICES ASSUME Init PROVE SInv
  OBVIOUS
<1>1. StreamletTree(blocks)
  BY SelfAssumption DEF Init
<1>2. Good(NewStreamlet, blocks)
  BY <1>1, NewIsGood
<1> QED BY <1>1, <1>2 DEF Init, SInv

LEMMA NextPreservesSInv == SInv /\ [Next]_vars => SInv'
<1> SUFFICES ASSUME SInv, [Next]_vars PROVE SInv'
  OBVIOUS
<1>1. Good(s, blocks) /\ StreamletTree(blocks) /\ Self \in Replica /\ TmoViews \subseteq Nat
  BY SelfAssumption DEF SInv
<1>2. SUFFICES Good(s', blocks) /\ blocks' = blocks
  BY <1>1 DEF SInv
<1>3. CASE UNCHANGED vars
  BY <1>1, <1>3 DEF vars
<1>4. CASE Next
  <2>1. blocks' = blocks
    BY <1>4 DEF Next
  <2>2. CASE BlockArrives
    <3>1. PICK b \in blocks : Becomes(HandleBlock(Self, s, b))
      BY <1>1, <2>2 DEF BlockArrives, Arriving
    <3>2. Good(HandleBlock(Self, s, b), blocks)
      BY <1>1, HandleKeeps
    <3> QED BY <1>1, <2>1, <3>1, <3>2, BecomesGood
  <2>3. CASE VotesArrive
    <3>1. PICK b \in blocks, Q \in {Most, {N - 1}} :
            AllArrive(Q, [type |-> "vote", block |-> b])
      BY <1>1, <2>3 DEF VotesArrive, Arriving
    <3>2. \A q \in Q : q \in Nat \ {0} => q \in Replica
      BY <3>1, NAssumption DEF Most, Replica
    <3>3. [type |-> "vote", block |-> b] \in Arrival(blocks)
      BY DEF Arrival
    <3> QED BY <1>1, <2>1, <3>1, <3>2, <3>3, AllArriveKeeps
  <2>4. CASE TmosArrive
    <3>1. PICK view \in TmoViews : AllArrive(Most, [type |-> "tmo", view |-> view])
      BY <2>4 DEF TmosArrive
    <3>2. \A q \in Most : q \in Nat \ {0} => q \in Replica
      BY NAssumption DEF Most, Replica
    <3>3. [type |-> "tmo", view |-> view] \in Arrival(blocks)
      BY <1>1, <3>1 DEF Arrival
    <3> QED BY <1>1, <2>1, <3>1, <3>2, <3>3, AllArriveKeeps
  <2>5. CASE LocalTmo
    <3>1. Becomes(ProcessLocalTmo(Self, s))
      BY <2>5 DEF LocalTmo
    <3>2. Good(ProcessLocalTmo(Self, s), blocks)
      BY <1>1, LocalTmoKeeps
    <3> QED BY <1>1, <2>1, <3>1, <3>2, BecomesGood
  <2>6. CASE AdvanceLater
    <3> DEFINE A(view) == s.advancing \ {view}
    <3>1. PICK view \in s.advancing :
            Becomes(AdvanceView([s EXCEPT !.advancing = A(view)], view))
      BY <2>6 DEF AdvanceLater
    <3>2. view \in Nat /\ A(view) \in SUBSET Nat
      BY <1>1 DEF Good, State
    <3> HIDE DEF A
    <3> DEFINE u == [s EXCEPT !.advancing = A(view)]
    <3>3. Good(u, blocks)
      BY <1>1, <3>2, SetOther
    <3>4. Becomes(AdvanceView(u, view))
      BY <3>1
    <3> HIDE DEF u
    <3>5. Good(AdvanceView(u, view), blocks)
      BY <1>1, <3>2, <3>3, AdvanceKeeps
    <3> QED BY <1>1, <2>1, <3>4, <3>5, BecomesGood
  <2> QED BY <1>4, <2>2, <2>3, <2>4, <2>5, <2>6 DEF Next
<1> QED BY <1>3, <1>4

-----------------------------------------------------------------------------
(* The theorems. *)

\* The inductive invariant
THEOREM StreamletInvariance == Spec => []SInv
<1>1. Init => SInv
  BY InitImpliesSInv
<1>2. SInv /\ [Next]_vars => SInv'
  BY NextPreservesSInv
<1> QED BY <1>1, <1>2, PTL DEF Spec

\* The notarized chain is a tree whose views ascend, since updateNotarizedChain adds
\* nothing of a view that was left, and leaves the view of what it adds.
THEOREM NotarizedIsTree == Spec => []NotarizedTree
<1>1. SInv => NotarizedTree
  <2> SUFFICES ASSUME SInv PROVE NotarizedTree
    OBVIOUS
  <2> DEFINE chain == s.notarizedChain
  <2>1. chain \in Seq(Block) /\ ChainInv(chain, s.curView, blocks)
    BY DEF SInv, Good, State
  <2>2. \A i \in DOMAIN chain : i > 1 => /\ chain[i].height > chain[i - 1].height
                                        /\ \E j \in 1..i - 1 : chain[i].prev = chain[j]
    <3> SUFFICES ASSUME NEW i \in DOMAIN chain, i > 1
                 PROVE  /\ chain[i].height > chain[i - 1].height
                        /\ \E j \in 1..i - 1 : chain[i].prev = chain[j]
      OBVIOUS
    <3>1. /\ \A j \in 1..i - 1 : chain[j].height < chain[i].height
          /\ \E j \in 1..i - 1 : chain[i].prev = chain[j]
      BY <2>1 DEF ChainInv
    <3>2. i \in Nat /\ i - 1 \in 1..i - 1 /\ i - 1 \in DOMAIN chain
      BY <2>1
    <3>3. chain[i].height \in Nat /\ chain[i - 1].height \in Nat
      <4>1. chain[i] \in blocks /\ chain[i - 1] \in blocks /\ StreamletTree(blocks)
        BY <2>1, <3>2 DEF ChainInv, SInv
      <4> QED BY <4>1, ProposedBlock
    <3> QED BY <3>1, <3>2, <3>3
  <2> QED BY <2>2 DEF NotarizedTree
<1> QED BY <1>1, StreamletInvariance, PTL

\* The replica panics only before three blocks are notarized: later on a parent is
\* looked for in a chain that is long enough, there is a block to compare a new one
\* with, and PruneUpToLevel finds a block in every container it comes to.
THEOREM PanicsAreEarly == Spec => []PanicsOnlyEarly
<1>1. SInv => PanicsOnlyEarly
  BY DEF SInv, Good, PanicsOnlyEarly
<1> QED BY <1>1, StreamletInvariance, PTL

\* CommitBlock never returns a block of a view that was committed before, on whatever
\* branch: it stops at LowestLevel.  Committed blocks above it are ancestors of the first
\* notarized block, which no block notarized later is.
THEOREM CommitsOnce == Spec => []CommittedOnce
<1>1. SInv => CommittedOnce
  <2> SUFFICES ASSUME SInv PROVE CommittedOnce
    OBVIOUS
  <2>1. s.committed \in Seq(Block) /\ CommitInv(s.committed, s.notarizedChain, s.bc.lowest)
    BY DEF SInv, Good, State
  <2> QED BY <2>1, DifferentViews DEF CommittedOnce
<1> QED BY <1>1, StreamletInvariance, PTL
=============================================================================
