---------------------------- MODULE LedgerProofs ----------------------------
(***************************************************************************)
(* Proofs about what the replicas of Replica ship: LedgerInv, NoGap and    *)
(* the refinement of TotalOrder, for both algorithms and every value of    *)
(* the constants.  They rest on ReplicaProofs: finalized blocks of one     *)
(* height are equal.  Then when nothing finalized is lost, and at the end, *)
(* what holds of a replica that hears the others in order.                 *)
(***************************************************************************)
EXTENDS ReplicaProofs, ForestProofs

-----------------------------------------------------------------------------
(* The loop of TryToShip. *)

\* Shipping from the queue stays in every set that shipping one block stays in.
LEMMA ShipRoundsStay ==
  ASSUME NEW D, NEW l \in D, \A x \in D : ShipOne(x) \subseteq D, NEW n \in Nat
  PROVE  ShipRounds(l)[n] \subseteq D
<1> DEFINE step == [X \in SUBSET D |-> UNION {ShipOne(x) : x \in X}]
           Def(f) == [k \in Nat |-> IF k = 0 THEN {l}
                                    ELSE UNION {ShipOne(x) : x \in f[k - 1]}]
<1>1. step \in [SUBSET D -> SUBSET D] /\ {l} \in SUBSET D
  OBVIOUS
<1>2. PICK g : IsIteration(g, SUBSET D, step, {l})
  <2> HIDE DEF step
  <2> QED BY <1>1, IterationExists
<1>3. /\ g \in [Nat -> SUBSET D] /\ g[0] = {l}
      /\ \A k \in Nat : k # 0 => g[k] = UNION {ShipOne(x) : x \in g[k - 1]}
  BY <1>2 DEF IsIteration
<1>4. g = Def(g)
  BY <1>3
<1>5. ShipRounds(l) = CHOOSE f : f = Def(f)
  BY DEF ShipRounds
<1>6. ShipRounds(l) = Def(ShipRounds(l))
  <2> HIDE DEF Def
  <2> QED BY <1>4, <1>5
<1> DEFINE a == ShipRounds(l)
<1>7. a = Def(a)
  BY <1>6
<1> HIDE DEF a
<1> DEFINE S == {k \in Nat : a[k] \subseteq D}
<1>8. 0 \in S
  BY <1>7
<1>9. ASSUME NEW k \in Nat, k \in S
      PROVE  k + 1 \in S
  <2>1. a[k + 1] = UNION {ShipOne(x) : x \in a[k]}
    BY <1>7
  <2> QED BY <1>9, <2>1
<1>10. Nat \subseteq S
  <2> HIDE DEF S
  <2> QED BY <1>8, <1>9, SetInduction
<1> QED BY <1>10 DEF a

-----------------------------------------------------------------------------
(* The ledger of one replica. *)

Ledger == [bc : Forest, lastShipped : Identifier, shipQueue : SUBSET Block,
           committed : Seq(Block), halted : BOOLEAN]

\* Nothing is stored below the lowest level.
ForestInv(f) ==
  /\ IsFiniteSet(f.full)
  /\ \A k \in Level : k < f.lowest => f.atLevel[k] = <<>>
  /\ f.full \subseteq ContainersAt(f, f.lowest .. MaxHeight)

\* What LedgerInv says of a ledger, and what it takes to keep it; final is
\* what the replica has finalized.
LedgerOK(l, final) ==
  /\ l \in Ledger /\ ForestInv(l.bc)
  /\ IsFiniteSet(l.shipQueue) /\ l.shipQueue \subseteq final
  /\ \A i \in DOMAIN l.committed :
       /\ l.committed[i].height = i
       /\ l.committed[i].prev = IF i = 1 THEN Genesis ELSE l.committed[i - 1]
       /\ l.committed[i] \in final
  /\ l.lastShipped = IF l.committed = <<>> THEN Genesis ELSE Last(l.committed)
  /\ l.bc.lowest = Len(l.committed)

\* A container stands one level below the height of its block at most.
Levelled(f) ==
  \A k \in Level : \A id \in Range(f.atLevel[k]) : HeightOf(id) <= k + 1

\* Nothing finalized is lost, and nothing stands so low that the next block
\* shipped would prune it.
Kept(l, final) ==
  /\ Levelled(l.bc)
  /\ final \subseteq Range(l.committed) \cup l.bc.full \cup l.shipQueue

\* No parent is higher than its child.
Even(B) == \A b \in B : HeightOf(b.prev) <= b.height

\* Blocks of which no two have the same height and none is its own parent or
\* skips a height.
Linked(final) ==
  /\ final \subseteq Block
  /\ \A b, c \in final : b.height = c.height => b = c
  /\ \A b \in final : b.prev # b /\ b.height <= HeightOf(b.prev) + 1

\* m has shipped what l has, and perhaps more.
Extends(l, m) ==
  /\ Len(l.committed) <= Len(m.committed)
  /\ \A i \in 1..Len(l.committed) : m.committed[i] = l.committed[i]

\* A container is created at the level asked for, or is there already.
LEMMA GetOrCreate ==
  ASSUME NEW f \in Forest, NEW id \in Identifier, NEW level \in Level,
         \A k \in Level : k < f.lowest => f.atLevel[k] = <<>>, f.lowest <= level,
         NEW g, g = getOrCreateVertexContainer(f, id, level)
  PROVE  /\ g \in Forest /\ g.full = f.full /\ g.lowest = f.lowest
         /\ \A k \in Level : k < g.lowest => g.atLevel[k] = <<>>
         /\ \A k \in Level : Range(f.atLevel[k]) \subseteq Range(g.atLevel[k])
         /\ id \in ContainersAt(g, g.lowest .. MaxHeight)
<1>1. /\ f.atLevel \in [Level -> Seq(Identifier)] /\ f.full \in SUBSET Block
      /\ f.lowest \in Level /\ level \in Nat /\ f.lowest \in Nat /\ MaxHeight \in Nat
      /\ level <= MaxHeight
  BY BlockAssumption DEF Forest, Level
<1>2. CASE id \in ContainersAt(f, Level)
  <2>1. g = f
    BY <1>2 DEF getOrCreateVertexContainer
  <2>2. PICK k \in Level : id \in Range(f.atLevel[k])
    BY <1>2 DEF ContainersAt
  <2>3. f.atLevel[k] # <<>>
    BY <2>2 DEF Range
  <2>4. k \in f.lowest .. MaxHeight
    BY <1>1, <2>3 DEF Level
  <2>5. id \in ContainersAt(f, f.lowest .. MaxHeight)
    BY <2>2, <2>4 DEF ContainersAt
  <2> QED BY <2>1, <2>5
<1>3. CASE id \notin ContainersAt(f, Level)
  <2> DEFINE q == Append(f.atLevel[level], id)
  <2>1. g = [f EXCEPT !.atLevel = [f.atLevel EXCEPT ![level] = q]]
    BY <1>3 DEF getOrCreateVertexContainer, Forest
  <2>2. f.atLevel[level] \in Seq(Identifier)
    BY <1>1
  <2>3. /\ q \in Seq(Identifier)
        /\ Range(f.atLevel[level]) \subseteq Range(q) /\ id \in Range(q)
    <3> DEFINE p == f.atLevel[level]
    <3>1. /\ DOMAIN p = 1..Len(p) /\ DOMAIN q = 1..Len(p) + 1 /\ Len(p) \in Nat
          /\ \A i \in 1..Len(p) : q[i] = p[i]
          /\ q[Len(p) + 1] = id /\ q \in Seq(Identifier)
      BY <2>2
    <3> HIDE DEF p, q
    <3>2. Range(p) \subseteq Range(q)
      BY <3>1 DEF Range
    <3>3. id \in Range(q)
      BY <3>1 DEF Range
    <3> QED BY <3>1, <3>2, <3>3 DEF p
  <2> HIDE DEF q
  <2>4. /\ g.full = f.full /\ g.lowest = f.lowest
        /\ g.atLevel = [f.atLevel EXCEPT ![level] = q]
        /\ g \in Forest
    BY <1>1, <2>1, <2>3 DEF Forest
  <2>5. \A k \in Level : g.atLevel[k] = IF k = level THEN q ELSE f.atLevel[k]
    BY <1>1, <2>4
  <2>6. \A k \in Level : k < g.lowest => g.atLevel[k] = <<>>
    BY <1>1, <2>4, <2>5 DEF Level
  <2>7. level \in g.lowest .. MaxHeight /\ id \in Range(g.atLevel[level])
    BY <1>1, <2>3, <2>4, <2>5 DEF Level
  <2>8. id \in ContainersAt(g, g.lowest .. MaxHeight)
    BY <2>7 DEF ContainersAt
  <2>9. \A k \in Level : Range(f.atLevel[k]) \subseteq Range(g.atLevel[k])
    BY <2>3, <2>5
  <2> QED BY <2>4, <2>6, <2>8, <2>9
<1> QED BY <1>2, <1>3

\* Adding a block keeps the forest in order.
LEMMA AddVertexKeeps ==
  ASSUME NEW f \in Forest, ForestInv(f), NEW b \in Block
  PROVE  LET g == AddVertex(f, b, ParentLevel(b))
         IN  g \in Forest /\ ForestInv(g) /\ g.lowest = f.lowest
<1>1. /\ b.height \in Level /\ b.height \in Nat /\ b.height >= 1 /\ ParentLevel(b) \in Level
      /\ b \in Identifier /\ b.prev \in Identifier /\ f.lowest \in Level
      /\ f.lowest \in Nat /\ ParentLevel(b) \in Nat /\ f.full \in SUBSET Block
  BY BlockAssumption DEF Forest, Level, Identifier, ParentLevel
<1>2. CASE b.height < f.lowest \/ HasVertex(f, b)
  BY <1>2 DEF AddVertex
<1>3. CASE ~(b.height < f.lowest \/ HasVertex(f, b))
  <2> DEFINE g == getOrCreateVertexContainer(f, b, b.height)
             h == [g EXCEPT !.full = @ \cup {b}]
             k == registerWithParent(h, b, ParentLevel(b))
  <2>1. AddVertex(f, b, ParentLevel(b)) = k
    BY <1>3 DEF AddVertex
  <2>2. f.lowest <= b.height /\ \A n \in Level : n < f.lowest => f.atLevel[n] = <<>>
    BY <1>1, <1>3 DEF ForestInv
  <2>3. /\ g \in Forest /\ g.full = f.full /\ g.lowest = f.lowest
        /\ \A n \in Level : n < g.lowest => g.atLevel[n] = <<>>
        /\ \A n \in Level : Range(f.atLevel[n]) \subseteq Range(g.atLevel[n])
        /\ b \in ContainersAt(g, g.lowest .. MaxHeight)
    <3> HIDE DEF g
    <3> QED BY <1>1, <2>2, GetOrCreate DEF g
  <2> HIDE DEF g
  <2>4. f.lowest .. MaxHeight \subseteq Level
    BY <1>1, BlockAssumption DEF Level
  <2>5. f.full \cup {b} \subseteq ContainersAt(g, g.lowest .. MaxHeight)
    BY <2>3, <2>4 DEF ForestInv, ContainersAt
  <2>6. IsFiniteSet(f.full \cup {b})
    BY FS_AddElement DEF ForestInv
  <2>7. /\ h \in Forest /\ h.full = f.full \cup {b} /\ h.lowest = f.lowest
        /\ h.atLevel = g.atLevel
    BY <1>1, <2>3 DEF Forest
  <2> HIDE DEF h
  <2>8. ForestInv(h)
    BY <2>3, <2>5, <2>6, <2>7 DEF ForestInv, ContainersAt
  <2>9. CASE k = h
    BY <2>1, <2>7, <2>8, <2>9
  <2>10. CASE k # h
    <3> DEFINE j == getOrCreateVertexContainer(h, b.prev, ParentLevel(b))
    <3>1. ~(ParentLevel(b) < h.lowest) /\ k = j
      BY <2>10 DEF registerWithParent
    <3>2. h.lowest <= ParentLevel(b) /\ \A n \in Level : n < h.lowest => h.atLevel[n] = <<>>
      BY <1>1, <2>7, <2>8, <3>1 DEF ForestInv
    <3> HIDE DEF k
    <3>3. /\ j \in Forest /\ j.full = h.full /\ j.lowest = h.lowest
          /\ \A n \in Level : n < j.lowest => j.atLevel[n] = <<>>
          /\ \A n \in Level : Range(h.atLevel[n]) \subseteq Range(j.atLevel[n])
      <4> DEFINE pl == ParentLevel(b)
      <4>1. h \in Forest /\ b.prev \in Identifier /\ pl \in Level /\ h.lowest <= pl
        BY <1>1, <2>7, <3>2
      <4>2. j = getOrCreateVertexContainer(h, b.prev, pl)
        OBVIOUS
      <4> HIDE DEF j, pl
      <4> QED BY SMTT(30), <3>2, <4>1, <4>2, GetOrCreate
    <3> HIDE DEF j
    <3>4. ASSUME NEW x \in j.full
          PROVE  x \in ContainersAt(j, j.lowest .. MaxHeight)
      <4>1. x \in ContainersAt(h, h.lowest .. MaxHeight)
        BY <2>8, <3>3, <3>4 DEF ForestInv
      <4>2. PICK n \in h.lowest .. MaxHeight : x \in Range(h.atLevel[n])
        BY <4>1 DEF ContainersAt
      <4>3. n \in Level /\ n \in j.lowest .. MaxHeight
        BY <2>4, <2>7, <3>3
      <4> QED BY <3>3, <4>2, <4>3 DEF ContainersAt
    <3>5. ForestInv(j)
      BY <2>8, <3>3, <3>4 DEF ForestInv
    <3> QED BY <2>1, <2>7, <3>1, <3>3, <3>5
  <2> QED BY <2>9, <2>10
<1> QED BY <1>2, <1>3

\* Pruning up to a level above the lowest one keeps the forest in order.
LEMMA PruneKeeps ==
  ASSUME NEW f \in Forest, ForestInv(f), NEW level \in Level, f.lowest <= level
  PROVE  LET g == PruneUpToLevel(f, level)
         IN  g \in Forest /\ ForestInv(g) /\ g.lowest = level
<1> DEFINE g == PruneUpToLevel(f, level)
           pruned == f.lowest .. level - 1
<1>1. /\ f.atLevel \in [Level -> Seq(Identifier)] /\ f.full \in SUBSET Block
      /\ f.lowest \in Nat /\ level \in Nat /\ MaxHeight \in Nat /\ level <= MaxHeight
  BY BlockAssumption DEF Forest, Level
<1>2. /\ g.full = f.full \ ContainersAt(f, pruned) /\ g.lowest = level
      /\ g.atLevel = [k \in Level |-> IF k \in pruned THEN <<>> ELSE f.atLevel[k]]
      /\ g = [atLevel |-> g.atLevel, full |-> g.full, lowest |-> g.lowest]
  BY DEF PruneUpToLevel
<1> HIDE DEF g
<1>3. g.atLevel \in [Level -> Seq(Identifier)]
  BY <1>1, <1>2
<1>4. g \in Forest
  BY <1>1, <1>2, <1>3 DEF Forest
<1>5. IsFiniteSet(g.full)
  BY <1>2, FS_Subset DEF ForestInv
<1>6. \A k \in Level : k < level => g.atLevel[k] = <<>>
  BY <1>1, <1>2 DEF ForestInv, Level
<1>7. g.full \subseteq ContainersAt(g, level .. MaxHeight)
  <2> SUFFICES ASSUME NEW x \in g.full PROVE x \in ContainersAt(g, level .. MaxHeight)
    OBVIOUS
  <2>1. x \in f.full /\ x \notin ContainersAt(f, pruned)
    BY <1>2
  <2>2. PICK k \in f.lowest .. MaxHeight : x \in Range(f.atLevel[k])
    BY <2>1 DEF ForestInv, ContainersAt
  <2>3. k \notin pruned
    BY <2>1, <2>2 DEF ContainersAt
  <2>4. k \in level .. MaxHeight /\ k \in Level
    BY <1>1, <2>3 DEF Level
  <2>5. g.atLevel[k] = f.atLevel[k]
    BY <1>2, <2>3, <2>4
  <2> QED BY <2>2, <2>4, <2>5 DEF ContainersAt
<1>8. ForestInv(g)
  BY <1>2, <1>5, <1>6, <1>7 DEF ForestInv
<1> QED BY <1>2, <1>4, <1>8 DEF g

\* Creating a container one level below its block at most keeps all of them so.
LEMMA GetOrCreateLevelled ==
  ASSUME NEW f \in Forest, Levelled(f), NEW id \in Identifier, NEW level \in Level,
         HeightOf(id) <= level + 1
  PROVE  Levelled(getOrCreateVertexContainer(f, id, level))
<1> DEFINE g == getOrCreateVertexContainer(f, id, level)
           q == Append(f.atLevel[level], id)
<1>1. CASE id \in ContainersAt(f, Level)
  BY <1>1 DEF getOrCreateVertexContainer
<1>2. CASE id \notin ContainersAt(f, Level)
  <2>1. f.atLevel[level] \in Seq(Identifier) /\ DOMAIN f.atLevel = Level
    BY DEF Forest
  <2>2. g.atLevel = [f.atLevel EXCEPT ![level] = q]
    BY <1>2 DEF getOrCreateVertexContainer, Forest
  <2>3. \A x \in Range(q) : x \in Range(f.atLevel[level]) \/ x = id
    <3> DEFINE p == f.atLevel[level]
    <3>1. /\ DOMAIN p = 1..Len(p) /\ DOMAIN q = 1..Len(p) + 1 /\ Len(p) \in Nat
          /\ \A i \in 1..Len(p) : q[i] = p[i]
          /\ q[Len(p) + 1] = id
      BY <2>1
    <3> HIDE DEF p, q
    <3> QED BY <3>1 DEF Range, p
  <2> HIDE DEF q, g
  <2>4. \A k \in Level : g.atLevel[k] = IF k = level THEN q ELSE f.atLevel[k]
    BY <2>1, <2>2
  <2>5. Levelled(g)
    BY <2>3, <2>4 DEF Levelled
  <2> QED BY <2>5 DEF g
<1> QED BY <1>1, <1>2

\* A block whose parent is not above it is stored without such a container.
LEMMA AddVertexLevelled ==
  ASSUME NEW f \in Forest, ForestInv(f), Levelled(f), NEW b \in Block,
         HeightOf(b.prev) <= b.height
  PROVE  LET g == AddVertex(f, b, ParentLevel(b))
         IN  Levelled(g) /\ f.full \subseteq g.full
<1>1. /\ b.height \in Level /\ b.height \in Nat /\ b.height >= 1
      /\ ParentLevel(b) \in Level /\ ParentLevel(b) = b.height - 1
      /\ b \in Identifier /\ b.prev \in Identifier /\ b # Genesis
      /\ f.lowest \in Nat /\ f.full \in SUBSET Block
  BY BlockAssumption DEF Forest, Level, Identifier, ParentLevel
<1>2. CASE b.height < f.lowest \/ HasVertex(f, b)
  BY <1>2 DEF AddVertex
<1>3. CASE ~(b.height < f.lowest \/ HasVertex(f, b))
  <2> DEFINE g == getOrCreateVertexContainer(f, b, b.height)
             h == [g EXCEPT !.full = @ \cup {b}]
             j == getOrCreateVertexContainer(h, b.prev, ParentLevel(b))
  <2>1. AddVertex(f, b, ParentLevel(b)) \in {h, j}
    BY <1>3 DEF AddVertex, registerWithParent
  <2>2. HeightOf(b) <= b.height + 1 /\ HeightOf(b.prev) <= ParentLevel(b) + 1
    BY <1>1 DEF HeightOf
  <2>3. g \in Forest /\ g.full = f.full
    BY <1>1, <1>3, GetOrCreate DEF ForestInv
  <2>4. Levelled(g)
    BY <1>1, <2>2, GetOrCreateLevelled
  <2> HIDE DEF g
  <2>5. h \in Forest /\ h.full = f.full \cup {b} /\ h.atLevel = g.atLevel
    BY <1>1, <2>3 DEF Forest
  <2>6. Levelled(h)
    BY <2>4, <2>5 DEF Levelled
  <2> HIDE DEF h
  <2>7. Levelled(j)
    BY <1>1, <2>2, <2>5, <2>6, GetOrCreateLevelled
  <2>8. j.full = h.full
    BY <2>5 DEF getOrCreateVertexContainer, Forest
  <2> HIDE DEF j
  <2> QED BY <2>1, <2>5, <2>6, <2>7, <2>8
<1> QED BY <1>2, <1>3

\* CommitBlock returns one block if its parent is not stored above the lowest
\* level.
LEMMA OneCommitted ==
  ASSUME NEW f \in Forest, IsFiniteSet(f.full), NEW b \in f.full, b.height > f.lowest,
         ~(HasVertex(f, b.prev) /\ b.prev.height > f.lowest)
  PROVE  CommittedBlocks(f, b) = <<b>>
<1> DEFINE a == Ancestors(b)
           Taken(i) == HasVertex(f, a[i]) /\ a[i].height > f.lowest
           T == {k \in 1 .. Cardinality(f.full) : \A i \in 0 .. k - 1 : Taken(i)}
           n == Cardinality(T)
<1>1. CommittedBlocks(f, b) = [i \in 1..n |-> a[i - 1]]
  BY DEF CommittedBlocks
<1>2. b \in Block /\ b # Genesis
  BY BlockAssumption DEF Forest
<1>3. a[0] = b /\ a[1] = b.prev
  <2>1. a[0] = b /\ a[0 + 1] = Parent(a[0])
    BY <1>2, AncestorsAre
  <2> QED BY <1>2, <2>1 DEF Parent
<1>4. Taken(0) /\ ~Taken(1)
  BY <1>3 DEF HasVertex
<1>5. Cardinality(f.full) \in Nat /\ Cardinality(f.full) # 0
  BY FS_CardinalityType, FS_EmptySet
<1> HIDE DEF Taken
<1>6. 1 \in T
  BY <1>4, <1>5
<1>7. \A k \in T : k = 1
  BY <1>4
<1> HIDE DEF T
<1>8. T = {1}
  BY <1>6, <1>7
<1>9. n = 1
  BY <1>8, FS_Singleton
<1> HIDE DEF n, a
<1> QED BY <1>1, <1>3, <1>9

\* Shipping a finalized block adds it as the next one of the chain.
LEMMA ShipKeeps ==
  ASSUME NEW final, Linked(final), NEW l, LedgerOK(l, final), NEW id \in final
  PROVE  LedgerOK(Ship(l, id), final) /\ Extends(l, Ship(l, id))
<1>1. /\ l \in Ledger /\ l.bc \in Forest /\ ForestInv(l.bc) /\ l.committed \in Seq(Block)
      /\ l.lastShipped \in Identifier /\ l.shipQueue \in SUBSET Block
  BY DEF LedgerOK, Ledger
<1>2. id \in Block /\ id.height \in Nat /\ id.height >= 1 /\ id.height \in Level /\ id # Genesis
  BY BlockAssumption DEF Linked, Level
<1> DEFINE c == l.committed
<1>3. Len(c) \in Nat /\ DOMAIN c = 1..Len(c) /\ (c = <<>> <=> Len(c) = 0)
  BY <1>1
<1>4. l.bc.lowest = Len(c)
  BY DEF LedgerOK
<1>5. CASE ~CanShip(l, id)
  BY <1>5, <1>3 DEF Ship, Extends
<1>6. CASE CanShip(l, id) /\ ~PruneReturns(l.bc, id.height)
  <2> DEFINE m == [l EXCEPT !.halted = TRUE]
  <2>1. Ship(l, id) = m
    BY <1>6 DEF Ship
  <2>2. /\ m \in Ledger /\ m.bc = l.bc /\ m.shipQueue = l.shipQueue
        /\ m.committed = l.committed /\ m.lastShipped = l.lastShipped
    BY <1>1 DEF Ledger
  <2> HIDE DEF m
  <2>3. LedgerOK(m, final)
    BY <2>2 DEF LedgerOK
  <2>4. Extends(l, m)
    BY <1>3, <2>2 DEF Extends
  <2> QED BY <2>1, <2>3, <2>4
<1>7. CASE CanShip(l, id) /\ PruneReturns(l.bc, id.height)
  <2>1. id \in l.bc.full /\ id.prev = l.lastShipped /\ id.height >= Len(c)
    BY <1>4, <1>7 DEF CanShip, HasVertex
  <2>2. l.lastShipped = IF c = <<>> THEN Genesis ELSE c[Len(c)]
    BY DEF LedgerOK, Last
  <2>3. c # <<>> => c[Len(c)] \in final /\ c[Len(c)].height = Len(c)
    BY <1>3 DEF LedgerOK
  <2>4. HeightOf(id.prev) = Len(c)
    <3>1. CASE c = <<>>
      BY <1>3, <2>1, <2>2, <3>1 DEF HeightOf
    <3>2. CASE c # <<>>
      <4>1. c[Len(c)] # Genesis
        BY <2>3, <3>2, BlockAssumption DEF Linked
      <4> QED BY <2>1, <2>2, <2>3, <3>2, <4>1 DEF HeightOf
    <3> QED BY <3>1, <3>2
  <2>5. id.height # Len(c)
    <3> SUFFICES ASSUME id.height = Len(c) PROVE FALSE
      OBVIOUS
    <3>1. c # <<>>
      BY <1>2, <1>3
    <3>2. c[Len(c)] = id
      BY <2>3, <3>1 DEF Linked
    <3> QED BY <2>1, <2>2, <3>1, <3>2 DEF Linked
  <2>6. id.height = Len(c) + 1
    BY <1>2, <1>3, <2>1, <2>4, <2>5 DEF Linked
  <2>7. ~(HasVertex(l.bc, id.prev) /\ id.prev.height > l.bc.lowest)
    <3>1. Genesis \notin l.bc.full
      BY <1>1, BlockAssumption DEF Forest
    <3> QED BY <1>3, <1>4, <2>4, <3>1 DEF HasVertex, HeightOf
  <2>8. CommittedBlocks(l.bc, id) = <<id>>
    BY <1>1, <1>3, <1>4, <2>1, <2>6, <2>7, OneCommitted DEF ForestInv
  <2> DEFINE d == c \o <<id>>
             g == PruneUpToLevel(l.bc, id.height)
             m == [l EXCEPT !.committed = d, !.bc = g, !.lastShipped = id,
                            !.shipQueue = l.shipQueue \ {id}]
  <2>9. Ship(l, id) = m
    BY <1>1, <1>7, <2>8 DEF Ship, Ledger
  <2>10. g \in Forest /\ ForestInv(g) /\ g.lowest = id.height
    BY <1>1, <1>2, <1>3, <1>4, <2>6, PruneKeeps
  <2>11. /\ d \in Seq(Block) /\ Len(d) = Len(c) + 1 /\ DOMAIN d = 1 .. Len(c) + 1
         /\ \A i \in 1..Len(c) : d[i] = c[i]
         /\ d[Len(c) + 1] = id
    BY <1>1, <1>2, <1>3
  <2> HIDE DEF g, d
  <2>12. /\ m \in Ledger /\ m.committed = d /\ m.bc = g /\ m.lastShipped = id
         /\ m.shipQueue = l.shipQueue \ {id}
    BY <1>1, <1>2, <2>10, <2>11 DEF Ledger, Identifier
  <2> HIDE DEF m
  <2>13. IsFiniteSet(m.shipQueue) /\ m.shipQueue \subseteq final
    <3>1. IsFiniteSet(l.shipQueue) /\ l.shipQueue \subseteq final
      BY DEF LedgerOK
    <3>2. m.shipQueue \in SUBSET l.shipQueue
      BY <2>12
    <3> QED BY <3>1, <3>2, FS_Subset
  <2>14. ASSUME NEW i \in DOMAIN d
         PROVE  /\ d[i].height = i
                /\ d[i].prev = IF i = 1 THEN Genesis ELSE d[i - 1]
                /\ d[i] \in final
    <3>1. CASE i \in 1..Len(c)
      <4>1. /\ c[i].height = i /\ c[i].prev = IF i = 1 THEN Genesis ELSE c[i - 1]
            /\ c[i] \in final
        BY <1>3, <3>1 DEF LedgerOK
      <4>2. i # 1 => i - 1 \in 1..Len(c)
        BY <1>3, <3>1
      <4> QED BY <2>11, <3>1, <4>1, <4>2
    <3>2. CASE i = Len(c) + 1
      <4>1. i = 1 => c = <<>>
        BY <1>3, <3>2
      <4>2. i # 1 => c # <<>> /\ Len(c) \in 1..Len(c) /\ i - 1 = Len(c)
        BY <1>3, <3>2
      <4> QED BY <2>1, <2>2, <2>6, <2>11, <3>2, <4>1, <4>2
    <3> QED BY <1>3, <2>11, <3>1, <3>2
  <2>15. m.lastShipped = IF m.committed = <<>> THEN Genesis ELSE Last(m.committed)
    <3>1. d # <<>>
      BY <1>3, <2>11
    <3> QED BY <2>11, <2>12, <3>1 DEF Last
  <2>16. m.bc.lowest = Len(m.committed)
    BY <2>6, <2>10, <2>11, <2>12
  <2>17. LedgerOK(m, final)
    BY <2>10, <2>12, <2>13, <2>14, <2>15, <2>16 DEF LedgerOK
  <2>18. Extends(l, m)
    BY <1>3, <2>11, <2>12 DEF Extends
  <2> QED BY <2>9, <2>17, <2>18
<1> QED BY <1>5, <1>6, <1>7

\* Shipping a block prunes only blocks that are not above it: if they are
\* finalized they were shipped.
LEMMA ShipKept ==
  ASSUME NEW final, Linked(final), NEW l, LedgerOK(l, final), Kept(l, final), NEW id \in final
  PROVE  Kept(Ship(l, id), final)
<1> DEFINE m == Ship(l, id)
           f == l.bc
           pruned == f.lowest .. id.height - 1
<1>1. /\ l \in Ledger /\ f \in Forest /\ id \in Block /\ id.height \in Level
      /\ l.committed \in Seq(Block) /\ \A x \in final : x \in Block /\ x.height \in Nat
      /\ \A x \in final : x.height >= 1 /\ x # Genesis
  BY BlockAssumption DEF LedgerOK, Ledger, Linked, Level
<1>2. CASE ~CanShip(l, id)
  BY <1>2 DEF Ship
<1>3. CASE CanShip(l, id) /\ ~PruneReturns(f, id.height)
  <2>1. m.bc = f /\ m.shipQueue = l.shipQueue /\ m.committed = l.committed
    BY <1>1, <1>3 DEF Ship, Ledger
  <2> QED BY <2>1 DEF Kept
<1>4. CASE CanShip(l, id) /\ PruneReturns(f, id.height)
  <2>1. /\ m.bc = PruneUpToLevel(f, id.height) /\ m.shipQueue = l.shipQueue \ {id}
    BY <1>1, <1>4 DEF Ship, Ledger
  <2>2. LedgerOK(m, final) /\ Extends(l, m)
    BY ShipKeeps
  <2> HIDE DEF m
  <2>3. /\ m.bc.full = f.full \ ContainersAt(f, pruned) /\ m.bc.lowest = id.height
        /\ m.bc.atLevel = [k \in Level |-> IF k \in pruned THEN <<>> ELSE f.atLevel[k]]
    BY <2>1 DEF PruneUpToLevel
  <2>4. m.committed \in Seq(Block) /\ Len(m.committed) = id.height
    BY <2>2, <2>3 DEF LedgerOK, Ledger
  <2>5. Levelled(m.bc)
    BY <2>3 DEF Levelled, Kept, Range
  <2>6. ASSUME NEW x \in final, x.height <= id.height
        PROVE  x \in Range(m.committed)
    <3> DEFINE c == m.committed
    <3>1. x.height \in DOMAIN c
      BY <1>1, <2>4, <2>6
    <3>2. c[x.height].height = x.height /\ c[x.height] \in final
      BY <2>2, <3>1 DEF LedgerOK
    <3>3. c[x.height] = x
      BY <3>2 DEF Linked
    <3> QED BY <3>1, <3>3 DEF Range
  <2>7. ASSUME NEW x \in final, ~(x.height <= id.height)
        PROVE  x \in m.bc.full \cup m.shipQueue
    <3>1. x \notin Range(l.committed)
      <4> SUFFICES ASSUME NEW i \in DOMAIN l.committed, x = l.committed[i] PROVE FALSE
        BY DEF Range
      <4>1. x.height = i
        BY DEF LedgerOK
      <4>2. i <= Len(l.committed) /\ Len(l.committed) <= id.height
        BY <1>1, <2>2, <2>4 DEF Extends
      <4> QED BY <1>1, <2>7, <4>1, <4>2 DEF Level
    <3>2. x \notin ContainersAt(f, pruned)
      <4> SUFFICES ASSUME NEW k \in pruned, x \in Range(f.atLevel[k]) PROVE FALSE
        BY DEF ContainersAt
      <4>1. k \in Level /\ k \in Nat /\ k <= id.height - 1 /\ id.height \in Nat
        <5>1. f.lowest \in Nat /\ id.height \in Nat /\ id.height <= MaxHeight
              /\ MaxHeight \in Nat
          BY <1>1, BlockAssumption DEF Forest, Level
        <5> QED BY <5>1 DEF Level
      <4>2. HeightOf(x) <= k + 1 /\ HeightOf(x) = x.height
        BY <1>1, <4>1 DEF Kept, Levelled, HeightOf
      <4> QED BY <1>1, <2>7, <4>1, <4>2
    <3>3. x # id
      BY <1>1, <2>7
    <3> QED BY <2>1, <2>3, <3>1, <3>2, <3>3 DEF Kept
  <2>8. Kept(m, final)
    BY <2>5, <2>6, <2>7 DEF Kept
  <2> QED BY <2>8 DEF m
<1> QED BY <1>2, <1>3, <1>4

\* Growth of what was shipped is transitive.
LEMMA ExtendsTrans ==
  ASSUME NEW k, NEW l, NEW m, k.committed \in Seq(Block), l.committed \in Seq(Block),
         m.committed \in Seq(Block), Extends(k, l), Extends(l, m)
  PROVE  Extends(k, m)
<1>1. Len(k.committed) \in Nat /\ Len(l.committed) \in Nat /\ Len(m.committed) \in Nat
  OBVIOUS
<1> QED BY <1>1 DEF Extends

\* So does shipping what is queued, in whatever order.
LEMMA ShipQueueKeeps ==
  ASSUME NEW final, Linked(final), NEW l, LedgerOK(l, final), NEW m \in ShipQueue(l)
  PROVE  LedgerOK(m, final) /\ Extends(l, m)
<1> DEFINE D == {x \in Ledger : LedgerOK(x, final) /\ Extends(l, x)}
<1>1. l.committed \in Seq(Block)
  BY DEF LedgerOK, Ledger
<1>2. l \in D
  BY <1>1 DEF LedgerOK, Extends
<1>3. ASSUME NEW x \in D, NEW y \in ShipOne(x)
      PROVE  y \in D
  <2>1. CASE y = x
    BY <2>1
  <2>2. CASE \E id \in x.shipQueue : y = Ship(x, id)
    <3>1. PICK id \in x.shipQueue : y = Ship(x, id)
      BY <2>2
    <3>2. id \in final /\ LedgerOK(x, final) /\ Extends(l, x)
      BY DEF LedgerOK
    <3>3. LedgerOK(y, final) /\ Extends(x, y)
      BY <3>1, <3>2, ShipKeeps
    <3>4. y \in Ledger /\ x.committed \in Seq(Block) /\ y.committed \in Seq(Block)
      BY <3>2, <3>3 DEF LedgerOK, Ledger
    <3> QED BY <1>1, <3>2, <3>3, <3>4, ExtendsTrans
  <2> QED BY <2>1, <2>2 DEF ShipOne
<1>4. Cardinality(l.shipQueue) \in Nat
  BY FS_CardinalityType DEF LedgerOK
<1>5. m \in ShipRounds(l)[Cardinality(l.shipQueue)]
  BY DEF ShipQueue
<1>6. m \in D
  <2> HIDE DEF D
  <2> QED BY <1>2, <1>3, <1>4, <1>5, ShipRoundsStay
<1> QED BY <1>6

\* What is shipped from the queue is not lost either.
LEMMA ShipQueueKept ==
  ASSUME NEW final, Linked(final), NEW l, LedgerOK(l, final), Kept(l, final),
         NEW m \in ShipQueue(l)
  PROVE  Kept(m, final)
<1> DEFINE D == {x \in Ledger : LedgerOK(x, final) /\ Kept(x, final)}
<1>1. l \in D
  BY DEF LedgerOK
<1>2. ASSUME NEW x \in D, NEW y \in ShipOne(x)
      PROVE  y \in D
  <2>1. CASE y = x
    BY <2>1
  <2>2. CASE \E id \in x.shipQueue : y = Ship(x, id)
    <3>1. PICK id \in x.shipQueue : y = Ship(x, id)
      BY <2>2
    <3>2. id \in final
      BY DEF LedgerOK
    <3>3. LedgerOK(y, final) /\ Kept(y, final)
      BY <3>1, <3>2, ShipKeeps, ShipKept
    <3> QED BY <3>3 DEF LedgerOK
  <2> QED BY <2>1, <2>2 DEF ShipOne
<1>3. Cardinality(l.shipQueue) \in Nat
  BY FS_CardinalityType DEF LedgerOK
<1>4. m \in ShipRounds(l)[Cardinality(l.shipQueue)]
  BY DEF ShipQueue
<1>5. m \in D
  <2> HIDE DEF D
  <2> QED BY <1>1, <1>2, <1>3, <1>4, ShipRoundsStay
<1> QED BY <1>5

\* And so does TryToShip.
LEMMA TryToShipKeeps ==
  ASSUME NEW final, Linked(final), NEW l, LedgerOK(l, final), NEW id \in final,
         NEW m \in TryToShip(l, id)
  PROVE  LedgerOK(m, final) /\ Extends(l, m)
<1>1. l \in Ledger /\ l.committed \in Seq(Block) /\ l.shipQueue \in SUBSET Block
  BY DEF LedgerOK, Ledger
<1>2. CASE m = l
  BY <1>1, <1>2 DEF Extends
<1>3. CASE m = [l EXCEPT !.shipQueue = @ \cup {id}]
  <2>1. /\ m \in Ledger /\ m.bc = l.bc /\ m.shipQueue = l.shipQueue \cup {id}
        /\ m.committed = l.committed /\ m.lastShipped = l.lastShipped
    BY <1>1, <1>3 DEF Ledger, Linked
  <2>2. IsFiniteSet(m.shipQueue) /\ m.shipQueue \subseteq final
    BY <2>1, FS_AddElement DEF LedgerOK
  <2>3. LedgerOK(m, final)
    BY <2>1, <2>2 DEF LedgerOK
  <2> QED BY <1>1, <2>1, <2>3 DEF Extends
<1>4. CASE m \in ShipQueue(Ship(l, id))
  <2> DEFINE x == Ship(l, id)
  <2>1. LedgerOK(x, final) /\ Extends(l, x)
    BY ShipKeeps
  <2> HIDE DEF x
  <2>2. LedgerOK(m, final) /\ Extends(x, m)
    BY <1>4, <2>1, ShipQueueKeeps DEF x
  <2>3. x.committed \in Seq(Block) /\ m.committed \in Seq(Block)
    BY <2>1, <2>2 DEF LedgerOK, Ledger
  <2> QED BY <1>1, <2>1, <2>2, <2>3, ExtendsTrans
<1> QED BY <1>2, <1>3, <1>4 DEF TryToShip

\* A block that is finalized anew is stored, shipped or queued.
LEMMA TryToShipKept ==
  ASSUME NEW final, Linked(final), NEW l, LedgerOK(l, final), NEW id \in final,
         Kept(l, final \ {id}), ~l.halted, NEW m \in TryToShip(l, id)
  PROVE  Kept(m, final)
<1>1. l \in Ledger
  BY DEF LedgerOK
<1>2. CASE ~HasVertex(l.bc, id)
  <2>1. m = [l EXCEPT !.shipQueue = @ \cup {id}]
    BY <1>2 DEF TryToShip
  <2>2. m.bc = l.bc /\ m.shipQueue = l.shipQueue \cup {id} /\ m.committed = l.committed
    BY <1>1, <2>1 DEF Ledger
  <2> QED BY <2>2 DEF Kept
<1>3. CASE HasVertex(l.bc, id)
  <2>1. Kept(l, final)
    BY <1>3 DEF Kept, HasVertex
  <2>2. m = l \/ m \in ShipQueue(Ship(l, id))
    BY <1>3 DEF TryToShip
  <2>3. LedgerOK(Ship(l, id), final) /\ Kept(Ship(l, id), final)
    BY <2>1, ShipKeeps, ShipKept
  <2> QED BY <2>1, <2>2, <2>3, ShipQueueKept
<1> QED BY <1>2, <1>3

-----------------------------------------------------------------------------
(* The handlers: what they do to the ledger and to the head. *)

StateFields ==
  {"nShares", "fastVotes", "fShares", "headHeight", "headId", "sentNRank",
   "sentNSharesNo", "sentNShareId", "sentFShare", "isNotarized", "isFinalized",
   "echoedBlock", "curHeight", "newHeightChan", "sent", "ledger"}

\* A record with the fields of a state, whatever they hold.
IsState(s) == s = [x \in StateFields |-> s[x]]

\* The head is notarized or genesis, and no height is announced that is more
\* than one above it.
HeadInv(s) ==
  /\ s.headHeight \in Nat /\ s.curHeight \in Nat
  /\ \/ s.headId = Genesis /\ s.headHeight = 0
     \/ s.headId \in s.isNotarized /\ s.headId \in Block /\ s.headHeight = s.headId.height
  /\ s.curHeight <= s.headHeight + 1

\* Nothing finalized gets lost from s to t, where blocks of W are stored.
Keeps(W, s, t) ==
  /\ Even(W) /\ Linked(t.isFinalized)
  /\ LedgerOK(s.ledger, s.isFinalized) /\ Kept(s.ledger, s.isFinalized)
  => Kept(t.ledger, t.isFinalized)

\* What every handler does to the ledger and the head, if it stores blocks of W.
Moves(W, s, t) ==
  /\ IsState(t)
  /\ s.isFinalized \subseteq t.isFinalized
  /\ HeadInv(s) => HeadInv(t)
  /\ Keeps(W, s, t)
  /\ Linked(t.isFinalized) /\ LedgerOK(s.ledger, s.isFinalized) =>
       LedgerOK(t.ledger, t.isFinalized) /\ Extends(s.ledger, t.ledger)

\* Less that is finalized is linked too.
LEMMA LinkedSubset ==
  ASSUME NEW S, NEW T, Linked(T), S \subseteq T
  PROVE  Linked(S)
BY DEF Linked

\* A ledger is not concerned by more that is finalized.
LEMMA LedgerWider ==
  ASSUME NEW l, NEW S, NEW T, LedgerOK(l, S), S \subseteq T
  PROVE  LedgerOK(l, T) /\ Extends(l, l)
<1>1. l.committed \in Seq(Block)
  BY DEF LedgerOK, Ledger
<1> QED BY <1>1 DEF LedgerOK, Extends

\* One thing done after the other.
LEMMA MovesTrans ==
  ASSUME NEW W, NEW s, NEW t, NEW u, Moves(W, s, t), Moves(W, t, u)
  PROVE  Moves(W, s, u)
<1>1. ASSUME Linked(u.isFinalized), LedgerOK(s.ledger, s.isFinalized)
      PROVE  LedgerOK(u.ledger, u.isFinalized) /\ Extends(s.ledger, u.ledger)
  <2>1. LedgerOK(t.ledger, t.isFinalized) /\ Extends(s.ledger, t.ledger)
    BY <1>1, LinkedSubset DEF Moves
  <2>2. LedgerOK(u.ledger, u.isFinalized) /\ Extends(t.ledger, u.ledger)
    BY <1>1, <2>1 DEF Moves
  <2>3. /\ s.ledger.committed \in Seq(Block) /\ t.ledger.committed \in Seq(Block)
        /\ u.ledger.committed \in Seq(Block)
    BY <1>1, <2>1, <2>2 DEF LedgerOK, Ledger
  <2> QED BY <2>1, <2>2, <2>3, ExtendsTrans
<1>2. Keeps(W, s, u)
  <2> SUFFICES ASSUME Even(W), Linked(u.isFinalized), LedgerOK(s.ledger, s.isFinalized),
                      Kept(s.ledger, s.isFinalized)
               PROVE  Kept(u.ledger, u.isFinalized)
    BY DEF Keeps
  <2>1. Linked(t.isFinalized)
    BY LinkedSubset DEF Moves
  <2>2. LedgerOK(t.ledger, t.isFinalized) /\ Kept(t.ledger, t.isFinalized)
    BY <2>1 DEF Moves, Keeps
  <2> QED BY <2>2 DEF Moves, Keeps
<1> QED BY <1>1, <1>2 DEF Moves

\* t differs from s in neither ledger nor head.
Quiet(s, t) ==
  /\ IsState(t)
  /\ t.ledger = s.ledger /\ t.isFinalized = s.isFinalized /\ t.isNotarized = s.isNotarized
  /\ t.headId = s.headId /\ t.headHeight = s.headHeight /\ t.curHeight = s.curHeight

\* Nothing that concerns ledger or head.
LEMMA QuietMoves ==
  ASSUME NEW W, NEW s, NEW t, Quiet(s, t)
  PROVE  Moves(W, s, t)
<1>1. HeadInv(s) => HeadInv(t)
  BY DEF Quiet, HeadInv
<1>2. LedgerOK(s.ledger, s.isFinalized) =>
        LedgerOK(t.ledger, t.isFinalized) /\ Extends(s.ledger, t.ledger)
  BY LedgerWider DEF Quiet
<1>3. Keeps(W, s, t)
  BY DEF Quiet, Keeps
<1> QED BY <1>1, <1>2, <1>3 DEF Moves, Quiet

\* Finalizing a block ships what it makes ready.
LEMMA FinalizeMoves ==
  ASSUME NEW W, NEW s, IsState(s), NEW b, NEW t \in Finalize(s, b)
  PROVE  Moves(W, s, t)
<1>1. CASE t = s
  BY <1>1, QuietMoves DEF Quiet
<1>2. CASE ~s.ledger.halted /\ \E l \in TryToShip(s.ledger, b) :
             t = [s EXCEPT !.isFinalized = @ \cup {b}, !.ledger = l]
  <2>1. PICK l \in TryToShip(s.ledger, b) :
          t = [s EXCEPT !.isFinalized = @ \cup {b}, !.ledger = l]
    BY <1>2
  <2>2. /\ IsState(t) /\ t.ledger = l /\ t.isFinalized = s.isFinalized \cup {b}
        /\ t.isNotarized = s.isNotarized /\ t.headId = s.headId
        /\ t.headHeight = s.headHeight /\ t.curHeight = s.curHeight
    BY <2>1 DEF IsState, StateFields
  <2>3. HeadInv(s) => HeadInv(t)
    BY <2>2 DEF HeadInv
  <2>4. ASSUME Linked(t.isFinalized), LedgerOK(s.ledger, s.isFinalized)
        PROVE  LedgerOK(t.ledger, t.isFinalized) /\ Extends(s.ledger, t.ledger)
    <3>1. LedgerOK(s.ledger, t.isFinalized) /\ b \in t.isFinalized
      BY <2>2, <2>4, LedgerWider
    <3> QED BY <2>1, <2>2, <2>4, <3>1, TryToShipKeeps
  <2>5. Keeps(W, s, t)
    <3> SUFFICES ASSUME Linked(t.isFinalized), LedgerOK(s.ledger, s.isFinalized),
                        Kept(s.ledger, s.isFinalized)
                 PROVE  Kept(t.ledger, t.isFinalized)
      BY DEF Keeps
    <3>1. LedgerOK(s.ledger, t.isFinalized) /\ b \in t.isFinalized
      BY <2>2, LedgerWider
    <3>2. Kept(s.ledger, t.isFinalized \ {b})
      BY <2>2 DEF Kept
    <3> QED BY <1>2, <2>1, <2>2, <3>1, <3>2, TryToShipKept
  <2> QED BY <2>2, <2>3, <2>4, <2>5 DEF Moves
<1> QED BY <1>1, <1>2 DEF Finalize

\* A finalization share, which may finalize.
LEMMA ProcessFinalizationShareMoves ==
  ASSUME NEW W, NEW s, IsState(s), NEW b, NEW v, NEW t \in ProcessFinalizationShare(s, v, b)
  PROVE  Moves(W, s, t)
<1> DEFINE u == [s EXCEPT !.fShares = @ \cup {<<b, v>>}]
<1>1. Quiet(s, s) /\ Quiet(s, u)
  BY DEF Quiet, IsState, StateFields
<1>2. t = s \/ t = u \/ t \in Finalize(u, b)
  BY DEF ProcessFinalizationShare
<1> HIDE DEF u
<1>3. CASE t \in Finalize(u, b)
  BY <1>1, <1>3, QuietMoves, FinalizeMoves, MovesTrans DEF Quiet
<1> QED BY <1>1, <1>2, <1>3, QuietMoves

\* The finalization share of the replica itself.
LEMMA SendFShareMoves ==
  ASSUME NEW W, NEW s, IsState(s), NEW b, NEW r, NEW t \in SendFShare(r, s, b)
  PROVE  Moves(W, s, t)
<1> DEFINE u == Broadcast([s EXCEPT !.sentFShare = @ \cup {b.height}], FShareMsg(b))
<1>1. Quiet(s, s) /\ Quiet(s, u)
  BY DEF Quiet, IsState, StateFields, Broadcast
<1>2. t = s \/ t \in ProcessFinalizationShare(u, r, b)
  BY DEF SendFShare
<1> HIDE DEF u
<1>3. CASE t \in ProcessFinalizationShare(u, r, b)
  BY <1>1, <1>3, QuietMoves, ProcessFinalizationShareMoves, MovesTrans DEF Quiet
<1> QED BY <1>1, <1>2, <1>3, QuietMoves

\* A notarized block above the head becomes the head.
LEMMA NotarizeMoves ==
  ASSUME NEW W, NEW s, IsState(s), NEW b \in Block, NEW r, NEW t \in Notarize(r, s, b)
  PROVE  Moves(W, s, t)
<1> DEFINE x == [s EXCEPT !.isNotarized = @ \cup {b}]
           y == [x EXCEPT !.headHeight = b.height, !.headId = b]
           u == IF x.headHeight < b.height THEN HeightIncreased(y, b.height + 1) ELSE x
<1>1. t \in SendFShare(r, u, b)
  BY DEF Notarize
<1>2. /\ IsState(x) /\ x.ledger = s.ledger /\ x.isFinalized = s.isFinalized
      /\ x.isNotarized = s.isNotarized \cup {b} /\ x.headId = s.headId
      /\ x.headHeight = s.headHeight /\ x.curHeight = s.curHeight
  BY DEF IsState, StateFields
<1>3. /\ IsState(y) /\ y.ledger = s.ledger /\ y.isFinalized = s.isFinalized
      /\ y.isNotarized = s.isNotarized \cup {b} /\ y.headId = b
      /\ y.headHeight = b.height /\ y.curHeight = s.curHeight
  BY DEF IsState, StateFields
<1> HIDE DEF x, y
<1>4. \/ ~(s.headHeight < b.height) /\ u = x
      \/ s.headHeight < b.height /\ b.height + 1 <= s.curHeight /\ u = y
      \/ /\ s.headHeight < b.height
         /\ u = [y EXCEPT !.curHeight = b.height + 1,
                          !.newHeightChan = Append(@, b.height + 1)]
  BY <1>2, <1>3 DEF HeightIncreased
<1>5. b.height \in Nat
  BY BlockAssumption
<1>6. Moves(W, s, u)
  <2>1. CASE ~(s.headHeight < b.height) /\ u = x
    <3>1. HeadInv(s) => HeadInv(u)
      BY <1>2, <2>1 DEF HeadInv
    <3> QED BY <1>2, <2>1, <3>1, LedgerWider DEF Moves, Keeps
  <2>2. CASE s.headHeight < b.height /\ b.height + 1 <= s.curHeight /\ u = y
    <3>1. HeadInv(s) => HeadInv(u)
      BY <1>3, <1>5, <2>2 DEF HeadInv
    <3> QED BY <1>3, <2>2, <3>1, LedgerWider DEF Moves, Keeps
  <2>3. CASE /\ s.headHeight < b.height
             /\ u = [y EXCEPT !.curHeight = b.height + 1,
                              !.newHeightChan = Append(@, b.height + 1)]
    <3>1. /\ IsState(u) /\ u.ledger = s.ledger /\ u.isFinalized = s.isFinalized
          /\ u.isNotarized = s.isNotarized \cup {b} /\ u.headId = b
          /\ u.headHeight = b.height /\ u.curHeight = b.height + 1
      BY <1>3, <2>3 DEF IsState, StateFields
    <3>2. HeadInv(s) => HeadInv(u)
      BY <1>5, <3>1 DEF HeadInv
    <3> QED BY <3>1, <3>2, LedgerWider DEF Moves, Keeps
  <2> QED BY <1>4, <2>1, <2>2, <2>3
<1> HIDE DEF u
<1>7. Moves(W, u, t)
  BY <1>1, <1>6, SendFShareMoves DEF Moves
<1> QED BY <1>6, <1>7, MovesTrans

\* A notarization share of Banyan may notarize and finalize.
LEMMA BanyanProcessNotarizationShareMoves ==
  ASSUME NEW W, NEW s, IsState(s), NEW b \in Block, NEW r, NEW v, NEW fast,
         NEW t \in BanyanProcessNotarizationShare(r, s, v, b, fast)
  PROVE  Moves(W, s, t)
<1> DEFINE a == AddNShareBanyan(s, v, b, fast)
           U == IF b \notin s.isNotarized /\ IsNotarizedBanyan(a, b)
                THEN Notarize(r, a, b) ELSE {a}
<1>1. Quiet(s, s) /\ Quiet(s, a)
  BY DEF Quiet, IsState, StateFields, AddNShareBanyan
<1>2. t = s \/ t \in U \/ \E x \in U : t \in Finalize(x, b)
  BY DEF BanyanProcessNotarizationShare
<1> HIDE DEF a
<1>3. ASSUME NEW x \in U
      PROVE  Moves(W, s, x)
  <2>1. CASE x = a
    BY <1>1, <2>1, QuietMoves
  <2>2. CASE x \in Notarize(r, a, b)
    BY <1>1, <2>2, QuietMoves, NotarizeMoves, MovesTrans DEF Quiet
  <2> QED BY <2>1, <2>2
<1> HIDE DEF U
<1>4. CASE \E x \in U : t \in Finalize(x, b)
  BY <1>3, <1>4, FinalizeMoves, MovesTrans DEF Moves
<1> QED BY <1>1, <1>2, <1>3, <1>4, QuietMoves

\* A notarization share of ICC may notarize.
LEMMA IccProcessNotarizationShareMoves ==
  ASSUME NEW W, NEW s, IsState(s), NEW b \in Block, NEW r, NEW v,
         NEW t \in IccProcessNotarizationShare(r, s, v, b)
  PROVE  Moves(W, s, t)
<1> DEFINE a == [s EXCEPT !.nShares = @ \cup {<<b, v>>}]
<1>1. Quiet(s, s) /\ Quiet(s, a)
  BY DEF Quiet, IsState, StateFields
<1>2. t = s \/ t = a \/ t \in Notarize(r, a, b)
  BY DEF IccProcessNotarizationShare
<1> HIDE DEF a
<1>3. CASE t \in Notarize(r, a, b)
  BY <1>1, <1>3, QuietMoves, NotarizeMoves, MovesTrans DEF Quiet
<1> QED BY <1>1, <1>2, <1>3, QuietMoves

\* The notarization share of the replica itself.
LEMMA SendNShareMoves ==
  ASSUME NEW W, NEW s, IsState(s), NEW b \in Block, NEW r,
         NEW t \in BanyanSendNShare(r, s, b) \cup IccSendNShare(r, s, b)
  PROVE  Moves(W, s, t)
<1> DEFINE h == b.height
           fast == b.rank = 0 /\ s.sentNSharesNo[h] = 0
           u == Broadcast([s EXCEPT !.sentNSharesNo[h] = @ + 1,
                                    !.sentNRank[h]     = b.rank,
                                    !.sentNShareId[h]  = b], NShareMsg(b, fast))
           w == Broadcast([s EXCEPT !.sentNSharesNo[h] = @ + 1, !.sentNShareId[h] = b],
                          NShareMsg(b, FALSE))
<1>1. Quiet(s, s) /\ Quiet(s, u) /\ Quiet(s, w)
  BY DEF Quiet, IsState, StateFields, Broadcast
<1>2. \/ t = s
      \/ t \in BanyanProcessNotarizationShare(r, u, r, b, fast)
      \/ t \in IccProcessNotarizationShare(r, w, r, b)
  BY DEF BanyanSendNShare, IccSendNShare
<1> HIDE DEF u, w, fast
<1>3. CASE t \in BanyanProcessNotarizationShare(r, u, r, b, fast)
  BY <1>1, <1>3, QuietMoves, BanyanProcessNotarizationShareMoves, MovesTrans DEF Quiet
<1>4. CASE t \in IccProcessNotarizationShare(r, w, r, b)
  BY <1>1, <1>4, QuietMoves, IccProcessNotarizationShareMoves, MovesTrans DEF Quiet
<1> QED BY <1>1, <1>2, <1>3, <1>4, QuietMoves

\* A block that was queued is finalized: it may be shipped when it is stored.
LEMMA StoreBlockMoves ==
  ASSUME NEW W, NEW s, IsState(s), NEW b \in Block, b \in W, NEW t \in StoreBlock(s, b)
  PROVE  Moves(W, s, t)
<1> DEFINE e == IF b \notin s.echoedBlock /\ b.height > s.headHeight
                THEN Broadcast([s EXCEPT !.echoedBlock = @ \cup {b}], BlockMsg(b))
                ELSE s
           l == [e.ledger EXCEPT !.bc = AddVertex(@, b, ParentLevel(b))]
<1>1. Quiet(s, e)
  BY DEF Quiet, IsState, StateFields, Broadcast
<1>2. PICK x \in (IF b \in l.shipQueue THEN TryToShip(l, b) ELSE {l}) :
        t = [e EXCEPT !.ledger = x]
  BY DEF StoreBlock
<1> HIDE DEF e
<1>3. /\ IsState(t) /\ t.ledger = x /\ t.isFinalized = e.isFinalized
      /\ t.isNotarized = e.isNotarized /\ t.headId = e.headId
      /\ t.headHeight = e.headHeight /\ t.curHeight = e.curHeight
  BY <1>1, <1>2 DEF IsState, StateFields, Quiet
<1>4. HeadInv(e) => HeadInv(t)
  BY <1>3 DEF HeadInv
<1>5. ASSUME Linked(t.isFinalized), LedgerOK(e.ledger, e.isFinalized)
      PROVE  /\ LedgerOK(t.ledger, t.isFinalized) /\ Extends(e.ledger, t.ledger)
             /\ Keeps(W, e, t)
  <2> DEFINE g == AddVertex(e.ledger.bc, b, ParentLevel(b))
  <2>1. e.ledger \in Ledger /\ e.ledger.bc \in Forest /\ ForestInv(e.ledger.bc)
    BY <1>5 DEF LedgerOK, Ledger
  <2>2. g \in Forest /\ ForestInv(g) /\ g.lowest = e.ledger.bc.lowest
    BY <2>1, AddVertexKeeps
  <2> HIDE DEF g
  <2>3. /\ l \in Ledger /\ l.bc = g /\ l.shipQueue = e.ledger.shipQueue
        /\ l.committed = e.ledger.committed /\ l.lastShipped = e.ledger.lastShipped
    BY <2>1, <2>2 DEF Ledger, g
  <2>8. Even(W) /\ Kept(e.ledger, e.isFinalized) => Kept(l, t.isFinalized)
    <3>1. Even(W) => HeightOf(b.prev) <= b.height
      BY DEF Even
    <3>2. Even(W) /\ Levelled(e.ledger.bc) => Levelled(g) /\ e.ledger.bc.full \subseteq g.full
      BY <2>1, <3>1, AddVertexLevelled DEF g
    <3> HIDE DEF l
    <3> QED BY <1>3, <2>3, <3>2 DEF Kept
  <2> HIDE DEF l
  <2>4. LedgerOK(l, t.isFinalized)
    BY <1>3, <1>5, <2>2, <2>3 DEF LedgerOK
  <2>5. LedgerOK(x, t.isFinalized) /\ Extends(l, x)
    <3>1. CASE b \in l.shipQueue
      <4>1. b \in t.isFinalized /\ x \in TryToShip(l, b)
        BY <1>2, <2>4, <3>1 DEF LedgerOK
      <4> QED BY <1>5, <2>4, <4>1, TryToShipKeeps
    <3>2. CASE b \notin l.shipQueue
      BY <1>2, <2>4, <3>2, LedgerWider
    <3> QED BY <3>1, <3>2
  <2>6. Kept(l, t.isFinalized) => Kept(x, t.isFinalized)
    <3>1. CASE b \in l.shipQueue /\ ~l.halted
      <4>1. b \in t.isFinalized /\ x \in TryToShip(l, b)
        BY <1>2, <2>4, <3>1 DEF LedgerOK
      <4>2. Kept(l, t.isFinalized) => Kept(l, t.isFinalized \ {b})
        BY DEF Kept
      <4> QED BY <1>5, <2>4, <3>1, <4>1, <4>2, TryToShipKept
    <3>2. CASE b \notin l.shipQueue \/ l.halted
      BY <1>2, <3>2 DEF TryToShip
    <3> QED BY <3>1, <3>2
  <2>7. Keeps(W, e, t)
    BY <1>3, <2>8, <2>6 DEF Keeps
  <2> QED BY <1>3, <2>3, <2>5, <2>7 DEF Extends
<1>6. Moves(W, e, t)
  BY <1>3, <1>4, <1>5 DEF Moves, Keeps
<1> QED BY <1>1, <1>6, QuietMoves, MovesTrans

\* A block is stored, shipped if it was waited for, and voted for.
LEMMA ProcessBlockMoves ==
  ASSUME NEW W, NEW s, IsState(s), NEW b \in Block, b \in W, NEW r,
         NEW t \in ProcessBlock(r, s, b)
  PROVE  Moves(W, s, t)
<1>1. CASE t = s
  BY <1>1, QuietMoves DEF Quiet
<1>2. CASE t # s
  <2>1. PICK x \in StoreBlock(s, b) :
          \E y \in BanyanSendNShare(r, x, b) \cup IccSendNShare(r, x, b) :
            t \in SendFShare(r, y, b) \/ t = y
    BY <1>2 DEF ProcessBlock, IccProcessBlock, BanyanProcessBlock
  <2>2. PICK y \in BanyanSendNShare(r, x, b) \cup IccSendNShare(r, x, b) :
          t \in SendFShare(r, y, b) \/ t = y
    BY <2>1
  <2>3. Moves(W, s, x)
    BY StoreBlockMoves
  <2>4. Moves(W, x, y)
    BY <2>3, SendNShareMoves DEF Moves
  <2>5. Moves(W, s, y)
    BY <2>3, <2>4, MovesTrans
  <2>6. CASE t \in SendFShare(r, y, b)
    <3>1. Moves(W, y, t)
      BY <2>4, <2>6, SendFShareMoves DEF Moves
    <3> QED BY <2>5, <3>1, MovesTrans
  <2> QED BY <2>2, <2>5, <2>6
<1> QED BY <1>1, <1>2


-----------------------------------------------------------------------------
(* The whole system. *)

\* No proposal is its own parent or skips a height.
NoSkip == \A b \in Proposed : b.prev # b /\ b.height <= HeightOf(b.prev) + 1

\* The heads, the ledgers and the proposals are in order.
ChainInv ==
  /\ \A r \in Replica : HeadInv(rs[r]) /\ LedgerOK(rs[r].ledger, rs[r].isFinalized)
  /\ NoSkip

AllLinked == \A r \in Replica : Linked(rs[r].isFinalized)

\* What is notarized or finalized was proposed: somebody has voted for it.
LEMMA CertifiedProposed ==
  ASSUME IndInv, NEW r \in Replica, NEW b \in rs[r].isNotarized \cup rs[r].isFinalized
  PROVE  b \in Block /\ b \in Proposed /\ \E v \in Replica : b \in Cast(rs[v].sent)
<1>1. N \in Nat /\ N > 0 /\ F \in Nat /\ P \in Nat /\ (N * 2) \div 3 \in Nat /\ P < N
  <2>1. (N * 2) \div 3 \in Nat /\ (N * 2) \div 3 < N
    BY ReplicaAssumption, SMT
  <2> QED BY <2>1, ReplicaAssumption, QuorumAssumption
<1>2. b \in Block /\ (Voters(b) # {} \/ Bound(b) # {})
  <2>1. CASE b \in rs[r].isNotarized
    <3>1. b \in Block /\ Cardinality(Voters(b)) \in Nat /\ Cardinality(Voters(b)) # 0
      BY <1>1, <2>1, NotarizedQuorum
    <3> QED BY <3>1, FS_EmptySet
  <2>2. CASE b \in rs[r].isFinalized
    <3>1. b \in Block /\ Cardinality(Bound(b)) \in Nat /\ Cardinality(Bound(b)) # 0
      BY <1>1, <2>2, FinalizedQuorum
    <3> QED BY <3>1, FS_EmptySet
  <2> QED BY <2>1, <2>2
<1>3. PICK v \in Replica : b \in Cast(rs[v].sent) \cup FCast(rs[v].sent) \cup FastCast(rs[v].sent)
  BY <1>2 DEF Voters, Bound
<1>4. b \in Cast(rs[v].sent) /\ b \in BlocksIn(rs[v].sent)
  BY <1>3, LogFacts
<1> QED BY <1>2, <1>4 DEF Proposed

\* So what a replica has finalized is linked.
LEMMA FinalLinked == IndInv /\ NoSkip => AllLinked
<1> SUFFICES ASSUME IndInv, NoSkip, NEW r \in Replica
             PROVE  Linked(rs[r].isFinalized)
  BY DEF AllLinked
<1>1. \A b, c \in rs[r].isFinalized : b.height = c.height => b = c
  BY IndFinalityAgreement DEF FinalityAgreement
<1> QED BY <1>1, CertifiedProposed DEF Linked, NoSkip

\* In a step one replica runs handlers.
LEMMA StepMoves ==
  ASSUME IndInv, Next
  PROVE  \E r \in Replica : /\ \A q \in Replica \ {r} : rs'[q] = rs[q]
                            /\ Moves(Proposed', rs[r], rs'[r])
<1>1. DOMAIN rs = Replica /\ \A q \in Replica : rs[q] \in State({rs[q].ledger})
  BY DEF IndInv, TypeOK
<1>2. \A q \in Replica : IsState(rs[q]) /\ rs[q].sent \in Seq(Message)
  BY <1>1, StateTypes DEF IsState, StateFields, State
<1>3. ASSUME NEW r \in Replica, NEW s, Quiet(rs[r], s), NEW height, NEW rank,
             Propose(r, s, height, rank), ProposalSent(r, height, rank)
      PROVE  (\A q \in Replica \ {r} : rs'[q] = rs[q]) /\ Moves(Proposed', rs[r], rs'[r])
  <2> DEFINE b == MakeProposal(r, s, height, rank)
             u == Broadcast(s, BlockMsg(b))
  <2>1. PICK t \in proposeIfLeader(r, s, height, rank) : rs' = [rs EXCEPT ![r] = t]
    BY <1>3 DEF Propose
  <2>2. rs'[r] = t /\ \A q \in Replica \ {r} : rs'[q] = rs[q]
    BY <1>1, <2>1
  <2>3. CASE IsLeader(r, height, rank)
    <3>1. b \in Block /\ t \in ProcessBlock(r, u, b)
      BY <1>3, <2>1, <2>3 DEF Propose, WithinBounds, proposeIfLeader
    <3>4. b \in Proposed'
      <4>1. b = MakeProposal(r, rs[r], height, rank)
        BY <1>3 DEF MakeProposal, Quiet
      <4> QED BY <1>3, <2>3, <4>1 DEF ProposalSent
    <3> HIDE DEF b
    <3>2. Quiet(rs[r], u)
      BY <1>3 DEF Quiet, IsState, StateFields, Broadcast
    <3> HIDE DEF u
    <3>3. Moves(Proposed', u, t)
      BY <3>1, <3>2, <3>4, ProcessBlockMoves DEF Quiet
    <3> QED BY <2>2, <3>2, <3>3, QuietMoves, MovesTrans
  <2>4. CASE ~IsLeader(r, height, rank)
    <3>1. t = s
      BY <2>1, <2>4 DEF proposeIfLeader
    <3> QED BY <1>3, <2>2, <3>1, QuietMoves
  <2> QED BY <2>3, <2>4
<1>4. PICK r \in Replica : \/ \E v \in Replica \ {r} : Deliver(r, v)
                           \/ Query(r)
                           \/ FirstProposal(r)
                           \/ NewHeight(r)
                           \/ Timeout(r)
  BY DEF Next
<1>5. Quiet(rs[r], rs[r])
  BY <1>2 DEF Quiet
<1>6. CASE \E v \in Replica \ {r} : Deliver(r, v)
  <2>1. PICK v \in Replica \ {r} : \E i \in DOMAIN rs[v].sent :
          \E t \in Handle(r, rs[r], v, rs[v].sent[i]) : rs' = [rs EXCEPT ![r] = t]
    BY <1>6 DEF Deliver
  <2>a. PICK i \in DOMAIN rs[v].sent :
          \E t \in Handle(r, rs[r], v, rs[v].sent[i]) : rs' = [rs EXCEPT ![r] = t]
    BY <2>1
  <2> DEFINE m == rs[v].sent[i]
  <2>b. PICK t \in Handle(r, rs[r], v, m) : rs' = [rs EXCEPT ![r] = t]
    BY <2>a
  <2>2. rs'[r] = t /\ \A q \in Replica \ {r} : rs'[q] = rs[q]
    BY <1>1, <2>b
  <2>3. m \in Message /\ t \in Handle(r, rs[r], v, m)
    BY <1>2, <2>b
  <2> HIDE DEF m
  <2>4. /\ m.block \in Block
        /\ \/ t \in ProcessBlock(r, rs[r], m.block) /\ m.type = "block"
           \/ t \in ProcessNotarizationShare(r, rs[r], v, m.block, m.fast)
           \/ t \in ProcessFinalizationShare(rs[r], v, m.block)
    BY <2>3 DEF Message, Handle
  <2>5. Moves(Proposed', rs[r], t)
    <3>1. CASE t \in ProcessBlock(r, rs[r], m.block) /\ m.type = "block"
      <4>1. m.block \in BlocksIn(rs[v].sent)
        BY <3>1 DEF BlocksIn, m
      <4>2. m.block \in Proposed'
        BY <2>2, <4>1 DEF Proposed
      <4> QED BY <1>2, <2>4, <3>1, <4>2, ProcessBlockMoves
    <3>2. CASE t \in ProcessNotarizationShare(r, rs[r], v, m.block, m.fast)
      <4>1. \/ t \in BanyanProcessNotarizationShare(r, rs[r], v, m.block, m.fast)
            \/ t \in IccProcessNotarizationShare(r, rs[r], v, m.block)
        BY <3>2 DEF ProcessNotarizationShare
      <4> QED BY <1>2, <2>4, <4>1, BanyanProcessNotarizationShareMoves,
                 IccProcessNotarizationShareMoves
    <3>3. CASE t \in ProcessFinalizationShare(rs[r], v, m.block)
      BY <1>2, <3>3, ProcessFinalizationShareMoves
    <3> QED BY <2>4, <3>1, <3>2, <3>3
  <2> QED BY <2>2, <2>5
<1>7. CASE Query(r)
  BY <1>5, <1>7, QuietMoves DEF Query
<1>8. CASE FirstProposal(r)
  BY <1>3, <1>5, <1>8, FirstProposalInd DEF FirstProposal
<1>9. CASE NewHeight(r)
  <2> DEFINE s == [rs[r] EXCEPT !.newHeightChan = Tail(@)]
  <2>1. Quiet(rs[r], s)
    BY <1>2 DEF Quiet, IsState, StateFields
  <2>2. Propose(r, s, Head(rs[r].newHeightChan), 0)
    BY <1>9 DEF NewHeight
  <2> HIDE DEF s
  <2>3. ProposalSent(r, Head(rs[r].newHeightChan), 0)
    BY <1>9, NewHeightInd
  <2> QED BY <1>3, <2>1, <2>2, <2>3
<1>10. CASE Timeout(r)
  BY <1>3, <1>5, <1>10, TimeoutInd DEF Timeout
<1> QED BY <1>4, <1>6, <1>7, <1>8, <1>9, <1>10


\* Every step keeps the heads, the ledgers and the proposals in order, and one
\* replica at most ships anything.
LEMMA ChainNext ==
  ASSUME IndInv, ChainInv, Next
  PROVE  /\ ChainInv'
         /\ \E r \in Replica : /\ \A q \in Replica \ {r} : rs'[q] = rs[q]
                               /\ Extends(rs[r].ledger, rs'[r].ledger)
<1>1. IndInv' /\ NewBlocks
  BY NextInd
<1>2. NoSkip'
  <2> SUFFICES ASSUME NEW b \in Proposed'
               PROVE  b.prev # b /\ b.height <= HeightOf(b.prev) + 1
    BY DEF NoSkip
  <2>1. CASE b \in Proposed
    BY <2>1 DEF ChainInv, NoSkip
  <2>2. CASE \E r \in Replica : ProposesOn(r, b)
    <3>1. PICK r \in Replica : ProposesOn(r, b)
      BY <2>2
    <3>2. b \in Block /\ b # Genesis /\ b.height \in Nat /\ b.rank \in Nat
      <4>1. PICK v \in Replica : b \in BlocksIn(rs'[v].sent)
        BY DEF Proposed
      <4>2. rs'[v] \in State({rs'[v].ledger})
        BY <1>1 DEF IndInv, TypeOK
      <4>3. b \in Block
        BY <4>1, <4>2, StateTypes, LogTypes
      <4> QED BY <4>3, BlockAssumption, ReplicaAssumption
    <3>3. HeadInv(rs[r])
      BY DEF ChainInv
    <3>4. CASE rs[r].headId = Genesis /\ rs[r].headHeight = 0
      BY <3>1, <3>2, <3>3, <3>4 DEF ProposesOn, HeadInv, HeightOf
    <3>5. CASE /\ rs[r].headId \in rs[r].isNotarized /\ rs[r].headId \in Block
               /\ rs[r].headHeight = rs[r].headId.height
      <4>1. b.prev \in Proposed /\ b.prev # Genesis
        BY <3>1, <3>5, CertifiedProposed, BlockAssumption DEF ProposesOn
      <4>2. b.height <= HeightOf(b.prev) + 1
        BY <3>1, <3>2, <3>3, <3>5, <4>1 DEF ProposesOn, HeadInv, HeightOf
      <4>3. b.prev # b
        <5> SUFFICES ASSUME b.prev = b PROVE FALSE
          OBVIOUS
        <5>1. PICK q \in Replica : b \in BlocksIn(rs[q].sent)
          BY <4>1 DEF Proposed
        <5>2. b \in BlocksIn(rs[r].sent) /\ b.proposer = r
          BY <3>1, <5>1 DEF IndInv, ProposesOn
        <5>3. b.height < b.height \/ b.rank < b.rank
          BY <3>1, <5>2 DEF ProposesOn, Made
        <5> QED BY <3>2, <5>3
      <4> QED BY <4>2, <4>3
    <3> QED BY <3>3, <3>4, <3>5 DEF HeadInv
  <2> QED BY <1>1, <2>1, <2>2 DEF NewBlocks
<1>3. AllLinked'
  <2>1. IndInv' /\ NoSkip' => AllLinked'
    BY FinalLinked, PTL
  <2> QED BY <1>1, <1>2, <2>1
<1>4. PICK r \in Replica : /\ \A q \in Replica \ {r} : rs'[q] = rs[q]
                           /\ Moves(Proposed', rs[r], rs'[r])
  BY StepMoves
<1>5. /\ HeadInv(rs'[r]) /\ LedgerOK(rs'[r].ledger, rs'[r].isFinalized)
      /\ Extends(rs[r].ledger, rs'[r].ledger)
  BY <1>3, <1>4 DEF ChainInv, Moves, AllLinked
<1>6. \A q \in Replica : HeadInv(rs'[q]) /\ LedgerOK(rs'[q].ledger, rs'[q].isFinalized)
  <2> TAKE q \in Replica
  <2>1. CASE q = r
    BY <1>5, <2>1
  <2>2. CASE q # r
    BY <1>4, <2>2 DEF ChainInv
  <2> QED BY <2>1, <2>2
<1>7. ChainInv'
  BY <1>2, <1>6 DEF ChainInv
<1> QED BY <1>4, <1>5, <1>7

\* An empty ledger.
LEMMA NewLedgerOK == LedgerOK(NewLedger, {})
<1>1. 0 \in Level /\ <<>> \in Seq(Identifier) /\ <<>> \in Seq(Block) /\ Len(<<>>) = 0
  BY BlockAssumption DEF Level
<1>2. IsFiniteSet({})
  BY FS_EmptySet
<1>3. NewLevelledForest \in Forest /\ ForestInv(NewLevelledForest) /\ NewLevelledForest.lowest = 0
  BY <1>1, <1>2 DEF NewLevelledForest, Forest, ForestInv
<1>4. NewLedger \in Ledger
  BY <1>1, <1>3 DEF NewLedger, Ledger, Identifier
<1>5. /\ NewLedger.bc = NewLevelledForest /\ NewLedger.shipQueue = {}
      /\ NewLedger.committed = <<>> /\ NewLedger.lastShipped = Genesis
  BY DEF NewLedger
<1> QED BY <1>1, <1>2, <1>3, <1>4, <1>5 DEF LedgerOK

\* The initial state: nothing is stored and nothing was proposed.
LEMMA ChainInit == Init => ChainInv
<1> SUFFICES ASSUME Init PROVE ChainInv
  OBVIOUS
<1>1. \A r \in Replica : rs[r] = NewState
  BY DEF Init
<1>2. /\ NewState.headHeight = 0 /\ NewState.headId = Genesis /\ NewState.curHeight = 1
      /\ NewState.ledger = NewLedger /\ NewState.isFinalized = {} /\ NewState.sent = <<>>
  BY DEF NewState
<1>3. HeadInv(NewState)
  BY <1>2 DEF HeadInv
<1>4. Proposed = {}
  BY <1>1, <1>2 DEF Proposed, BlocksIn
<1> QED BY <1>1, <1>2, <1>3, <1>4, NewLedgerOK DEF ChainInv, NoSkip

\* The invariant holds in every state.
THEOREM ChainInvariance == Spec => [](IndInv /\ ChainInv)
<1>1. Init => IndInv /\ ChainInv
  BY InitInd, ChainInit
<1>2. IndInv /\ ChainInv /\ [Next]_vars => (IndInv /\ ChainInv)'
  <2> SUFFICES ASSUME IndInv, ChainInv, [Next]_vars PROVE IndInv' /\ ChainInv'
    OBVIOUS
  <2>1. CASE Next
    BY <2>1, NextInd, ChainNext
  <2>2. CASE UNCHANGED vars
    BY <2>2, NextInd DEF vars, ChainInv, NoSkip, Proposed
  <2> QED BY <2>1, <2>2
<1> QED BY <1>1, <1>2, PTL DEF Spec

\* A proposal never skips a height: a leader proposes on its head at a height
\* that Notarize has announced, one above that head or an earlier one.
THEOREM ProposalsSkipNothing == Spec => []NoGap
<1>1. ChainInv => NoGap
  BY DEF ChainInv, NoSkip, NoGap
<1> QED BY <1>1, ChainInvariance, PTL

\* What a replica has shipped is a chain from genesis without gaps, finalized
\* by that replica, and PruneUpToLevel follows it.
THEOREM LedgersAreChains == Spec => []LedgerInv
<1>1. ChainInv => LedgerInv
  BY DEF ChainInv, LedgerOK, ForestInv, LedgerInv
<1> QED BY <1>1, ChainInvariance, PTL

-----------------------------------------------------------------------------
(* What is finalized is kept. *)

\* No proposal was made on a block above it.  A leader makes such a proposal
\* when its timer fires, or an old height is taken from newHeightChan, after
\* its head has gone further.
NoneAbove == Even(Proposed)

KeptInv == NoneAbove => \A r \in Replica : Kept(rs[r].ledger, rs[r].isFinalized)

\* Proposals are not taken back, and each handler keeps what is finalized.
LEMMA KeptNext ==
  ASSUME IndInv, ChainInv, KeptInv, Next
  PROVE  KeptInv'
<1> SUFFICES ASSUME NoneAbove', NEW q \in Replica
             PROVE  Kept(rs'[q].ledger, rs'[q].isFinalized)
  BY DEF KeptInv
<1>1. IndInv' /\ LogsGrow /\ ChainInv'
  BY NextInd, ChainNext
<1>2. NoneAbove
  <2>1. ASSUME NEW r \in Replica
        PROVE  BlocksIn(rs[r].sent) \subseteq BlocksIn(rs'[r].sent)
    <3>1. rs[r].sent \in Seq(Message) /\ rs'[r].sent \in Seq(Message)
      BY <1>1, StateTypes DEF IndInv, TypeOK
    <3> QED BY <1>1, <3>1, LogGrows DEF LogsGrow
  <2> QED BY <2>1 DEF NoneAbove, Even, Proposed
<1>3. Linked(rs'[q].isFinalized)
  <2>1. IndInv' /\ NoSkip' => AllLinked'
    BY FinalLinked, PTL
  <2> QED BY <1>1, <2>1 DEF ChainInv, AllLinked
<1>4. PICK r \in Replica : /\ \A v \in Replica \ {r} : rs'[v] = rs[v]
                           /\ Moves(Proposed', rs[r], rs'[r])
  BY StepMoves
<1>5. Kept(rs[q].ledger, rs[q].isFinalized) /\ LedgerOK(rs[q].ledger, rs[q].isFinalized)
  BY <1>2 DEF KeptInv, ChainInv
<1>6. CASE q = r
  BY <1>3, <1>4, <1>5, <1>6 DEF Moves, Keeps, NoneAbove
<1>7. CASE q # r
  BY <1>4, <1>5, <1>7
<1> QED BY <1>6, <1>7

\* At first nothing is finalized.
LEMMA KeptInit == Init => KeptInv
<1> SUFFICES ASSUME Init, NEW r \in Replica
             PROVE  Kept(rs[r].ledger, rs[r].isFinalized)
  BY DEF KeptInv
<1>1. rs[r].ledger.bc = NewLevelledForest /\ rs[r].isFinalized = {}
  BY DEF Init, NewState, NewLedger
<1>2. \A k \in Level : NewLevelledForest.atLevel[k] = <<>>
  BY DEF NewLevelledForest
<1> QED BY <1>1, <1>2 DEF Kept, Levelled, Range

\* As long as no leader has proposed on a block above its proposal, a replica
\* loses nothing it has finalized: TryToShip ships it, leaves it stored or
\* queues it, and PruneUpToLevel takes no block away that is above the one
\* shipped, because the container of a parent stands one level below it at
\* most, even if the child came first.
THEOREM NothingFinalizedIsLost == Spec => [](NoneAbove => FinalizedIsKept)
<1>1. Init => KeptInv
  BY KeptInit
<1>2. IndInv /\ ChainInv /\ KeptInv /\ [Next]_vars => KeptInv'
  <2> SUFFICES ASSUME IndInv, ChainInv, KeptInv, [Next]_vars PROVE KeptInv'
    OBVIOUS
  <2>1. CASE Next
    BY <2>1, KeptNext
  <2>2. CASE UNCHANGED vars
    BY <2>2 DEF vars, KeptInv, NoneAbove, Proposed
  <2> QED BY <2>1, <2>2
<1>3. KeptInv => (NoneAbove => FinalizedIsKept)
  BY DEF KeptInv, Kept, FinalizedIsKept
<1> QED BY <1>1, <1>2, <1>3, ChainInvariance, PTL DEF Spec

-----------------------------------------------------------------------------
(* The replicas implement a total order broadcast. *)

\* At a place that two replicas have reached they have shipped the same block.
SamePlaces ==
  \A q, r \in Replica : \A i \in DOMAIN Committed(q) \cap DOMAIN Committed(r) :
    Committed(q)[i] = Committed(r)[i]

\* Blocks shipped are finalized, and the place is the height.
LEMMA ShippedAgree == IndInv /\ ChainInv => SamePlaces
<1> SUFFICES ASSUME IndInv, ChainInv, NEW q \in Replica, NEW r \in Replica,
                    NEW i \in DOMAIN Committed(q) \cap DOMAIN Committed(r)
             PROVE  Committed(q)[i] = Committed(r)[i]
  BY DEF SamePlaces
<1>1. \A x \in {q, r} : Committed(x)[i].height = i /\ Committed(x)[i] \in rs[x].isFinalized
  BY DEF ChainInv, LedgerOK, Committed
<1> QED BY <1>1, IndFinalityAgreement DEF FinalityAgreement

\* A sequence that is equal to another as far as it goes is a prefix of it.
LEMMA PrefixBy ==
  ASSUME NEW s \in Seq(Block), NEW t \in Seq(Block), Len(s) <= Len(t),
         \A i \in 1..Len(s) : t[i] = s[i]
  PROVE  Order!IsPrefix(s, t)
<1>1. /\ Len(SubSeq(s, 1, Len(s))) = Len(s) /\ Len(SubSeq(t, 1, Len(s))) = Len(s)
      /\ SubSeq(s, 1, Len(s)) \in Seq(Block) /\ SubSeq(t, 1, Len(s)) \in Seq(Block)
      /\ \A i \in 1..Len(s) : SubSeq(s, 1, Len(s))[i] = SubSeq(t, 1, Len(s))[i]
  OBVIOUS
<1>2. SubSeq(s, 1, Len(s)) = SubSeq(t, 1, Len(s))
  BY <1>1
<1> QED BY <1>2 DEF Order!IsPrefix

\* A step of the replicas delivers at one of them or at none.
LEMMA OrderNext ==
  ASSUME IndInv, ChainInv, [Next]_vars
  PROVE  Order!Next \/ [r \in Replica |-> Committed(r)]' = [r \in Replica |-> Committed(r)]
<1> DEFINE c == [r \in Replica |-> Committed(r)]
<1>1. CASE UNCHANGED vars
  BY <1>1 DEF vars, Committed
<1>2. CASE Next
  <2>1. PICK r \in Replica : /\ \A q \in Replica \ {r} : rs'[q] = rs[q]
                             /\ Extends(rs[r].ledger, rs'[r].ledger)
    BY <1>2, ChainNext
  <2>2. IndInv' /\ ChainInv'
    BY <1>2, NextInd, ChainNext
  <2>3. SamePlaces'
    <3>1. IndInv' /\ ChainInv' => SamePlaces'
      BY ShippedAgree, PTL
    <3> QED BY <2>2, <3>1
  <2>4. \A q \in Replica : c[q] \in Seq(Block) /\ c'[q] \in Seq(Block)
    BY <2>2 DEF ChainInv, LedgerOK, Ledger, Committed
  <2>5. \A q \in Replica \ {r} : c'[q] = c[q]
    BY <2>1 DEF Committed
  <2>6. Order!IsPrefix(c[r], c'[r])
    <3>1. Len(c[r]) <= Len(c'[r]) /\ \A i \in 1..Len(c[r]) : c'[r][i] = c[r][i]
      BY <2>1 DEF Extends, Committed
    <3> QED BY <2>4, <3>1, PrefixBy
  <2>7. ASSUME NEW q \in Replica \ {r}
        PROVE  Order!IsPrefix(c'[r], c'[q]) \/ Order!IsPrefix(c'[q], c'[r])
    <3>1. \A i \in DOMAIN c'[r] \cap DOMAIN c'[q] : c'[r][i] = c'[q][i]
      BY <2>3 DEF SamePlaces
    <3> DEFINE s == c'[r]
               t == c'[q]
    <3>2. s \in Seq(Block) /\ t \in Seq(Block) /\ \A i \in DOMAIN s \cap DOMAIN t : s[i] = t[i]
      BY <2>4, <3>1
    <3> HIDE DEF s, t
    <3>3. CASE Len(s) <= Len(t)
      BY <3>2, <3>3, PrefixBy DEF s, t
    <3>4. CASE Len(t) <= Len(s)
      BY <3>2, <3>4, PrefixBy DEF s, t
    <3> QED BY <3>2, <3>3, <3>4
  <2>8. CASE c'[r] = c[r]
    BY <2>5, <2>8
  <2>9. CASE c'[r] # c[r]
    <3>1. \A q \in Replica : Order!Comparable(c'[r], c[q])
      BY <2>5, <2>6, <2>7 DEF Order!Comparable
    <3>2. Order!Deliver(r)
      BY <2>5, <2>6, <2>9, <3>1 DEF Order!Deliver, Order!IsStrictPrefix
    <3> QED BY <3>2 DEF Order!Next
  <2> QED BY <2>8, <2>9
<1> QED BY <1>1, <1>2

\* What the replicas send to committedBlocks is, at each of them, a prefix of
\* one sequence that only grows: the replicas of both algorithms implement
\* TotalOrder, whatever is lost, reordered or timed out.
THEOREM TotalOrderIsRefined == Spec => RefinesTotalOrder
<1>1. Init => Order!Init
  BY DEF Init, Order!Init, Committed, NewState, NewLedger
<1>2. IndInv /\ ChainInv /\ [Next]_vars
        => [Order!Next]_([r \in Replica |-> Committed(r)])
  BY OrderNext
<1> QED BY <1>1, <1>2, ChainInvariance, PTL DEF Spec, RefinesTotalOrder, Order!Spec

-----------------------------------------------------------------------------
(* Hearing the others in order.                                            *)
(*                                                                         *)
(* A replica that hears the others in order has notarized what it has      *)
(* finalized.  The handlers ignore a notarization share once its block is  *)
(* finalized, so the shares a notarization needs must have come before:    *)
(* each replica sends its notarization share for a block before its        *)
(* finalization share (FSharesFollow), the link keeps that order, and a    *)
(* finalization quorum contains a notarization quorum.                     *)

\* A finalization quorum and a fast quorum are notarization quorums: in Banyan
\* if N >= 3F and the fast path misses fewer than (N - F) / 2 replicas.
QuorumsNotarize == Algorithm = "icc" \/ (3 * F <= N /\ 2 * P + F < N)

-----------------------------------------------------------------------------
(* One replica. *)

\* What a replica in state s keeps true that has handled the notarization
\* shares n and the finalization shares f, and has voted for blocks of o:
\* a quorum notarizes, but perhaps not yet the blocks of X; no notarization
\* share is missed that may still be needed; finalization shares were handled,
\* or are its own for a notarized block.
Seen(s, n, f, o, X) ==
  /\ IsState(s) /\ s.sent \in Seq(Message)
  /\ \A c \in Block \ X : NQuorum(s, c) => c \in s.isNotarized
  /\ \A c \in Block, v \in Replica :
       <<c, v>> \in n => <<c, v>> \in s.nShares \/ c \in s.isNotarized
  /\ \A c \in Block, v \in Replica :
       <<c, v>> \in s.fShares => <<c, v>> \in f \/ c \in s.isNotarized
  /\ Cast(s.sent) \subseteq o

\* t differs from s in nothing that Seen is about.
LEMMA SeenSame ==
  ASSUME NEW s, NEW t, NEW n, NEW f, NEW o, NEW X, Seen(s, n, f, o, X),
         IsState(t), t.sent \in Seq(Message), Cast(t.sent) = Cast(s.sent),
         t.nShares = s.nShares, t.fShares = s.fShares, t.isNotarized = s.isNotarized
  PROVE  Seen(t, n, f, o, X)
<1>1. \A c \in Block : NQuorum(t, c) <=> NQuorum(s, c)
  BY DEF NQuorum, superMajority, IsNotarizedBanyan
<1> QED BY <1>1 DEF Seen

\* More finalization shares were handled.
LEMMA SeenMore ==
  ASSUME NEW s, NEW n, NEW f, NEW o, NEW X, Seen(s, n, f, o, X), NEW g, f \subseteq g
  PROVE  Seen(s, n, g, o, X)
BY DEF Seen

\* Finalizing changes nothing that Seen is about.
LEMMA FinalizeSeen ==
  ASSUME NEW s, NEW n, NEW f, NEW o, NEW X, Seen(s, n, f, o, X), NEW b,
         NEW t \in Finalize(s, b)
  PROVE  Seen(t, n, f, o, X)
<1>1. CASE t = s
  BY <1>1
<1>2. CASE \E l : t = [s EXCEPT !.isFinalized = @ \cup {b}, !.ledger = l]
  <2>1. PICK l : t = [s EXCEPT !.isFinalized = @ \cup {b}, !.ledger = l]
    BY <1>2
  <2>2. /\ IsState(t) /\ t.sent = s.sent /\ t.nShares = s.nShares
        /\ t.fShares = s.fShares /\ t.isNotarized = s.isNotarized
    BY <2>1 DEF IsState, StateFields, Seen
  <2>3. t.sent \in Seq(Message) /\ Cast(t.sent) = Cast(s.sent)
    BY <2>2 DEF Seen
  <2> QED BY <2>2, <2>3, SeenSame
<1> QED BY <1>1, <1>2 DEF Finalize

\* A finalization share of v for b that is among the handled ones, or is for a
\* notarized block.
LEMMA ProcessFinalizationShareSeen ==
  ASSUME NEW s, NEW n, NEW f, NEW o, NEW X, Seen(s, n, f, o, X), NEW b, NEW v,
         <<b, v>> \in f \/ b \in s.isNotarized,
         NEW t \in ProcessFinalizationShare(s, v, b)
  PROVE  Seen(t, n, f, o, X)
<1> DEFINE u == [s EXCEPT !.fShares = @ \cup {<<b, v>>}]
<1>1. t = s \/ t = u \/ t \in Finalize(u, b)
  BY DEF ProcessFinalizationShare
<1>2. /\ IsState(u) /\ u.sent = s.sent /\ u.nShares = s.nShares
      /\ u.fShares = s.fShares \cup {<<b, v>>} /\ u.isNotarized = s.isNotarized
  BY DEF IsState, StateFields, Seen
<1> HIDE DEF u
<1>3. \A c \in Block : NQuorum(u, c) <=> NQuorum(s, c)
  BY <1>2 DEF NQuorum, superMajority, IsNotarizedBanyan
<1>4. Seen(u, n, f, o, X)
  BY <1>2, <1>3 DEF Seen
<1> QED BY <1>1, <1>4, FinalizeSeen

\* The finalization share a replica sends for a notarized block.
LEMMA SendFShareSeen ==
  ASSUME NEW s, NEW n, NEW f, NEW o, NEW X, Seen(s, n, f, o, X), NEW b \in Block,
         b \in s.isNotarized, NEW r, NEW t \in SendFShare(r, s, b)
  PROVE  Seen(t, n, f, o, X)
<1> DEFINE u == Broadcast([s EXCEPT !.sentFShare = @ \cup {b.height}], FShareMsg(b))
<1>1. t = s \/ t \in ProcessFinalizationShare(u, r, b)
  BY DEF SendFShare
<1>2. /\ IsState(u) /\ u.sent = Append(s.sent, FShareMsg(b)) /\ u.nShares = s.nShares
      /\ u.fShares = s.fShares /\ u.isNotarized = s.isNotarized
  BY DEF IsState, StateFields, Seen, Broadcast
<1> HIDE DEF u
<1>3. FShareMsg(b) \in Message /\ FShareMsg(b).type = "fshare"
  BY TRUE \in BOOLEAN, MessageFields
<1>4. Sent(s.sent, u.sent, FShareMsg(b))
  BY <1>2, <1>3, AppendMessage DEF Seen
<1>5. u.sent \in Seq(Message) /\ Cast(u.sent) = Cast(s.sent)
  BY <1>3, <1>4 DEF Sent
<1>6. Seen(u, n, f, o, X)
  BY <1>2, <1>5, SeenSame
<1> QED BY <1>1, <1>2, <1>6, ProcessFinalizationShareSeen

\* Notarizing b: a quorum for b has its effect.
LEMMA NotarizeSeen ==
  ASSUME NEW s, NEW n, NEW f, NEW o, NEW b \in Block, Seen(s, n, f, o, {b}),
         NEW r, NEW t \in Notarize(r, s, b)
  PROVE  Seen(t, n, f, o, {})
<1> DEFINE x == [s EXCEPT !.isNotarized = @ \cup {b}]
           y == [x EXCEPT !.headHeight = b.height, !.headId = b]
           u == IF x.headHeight < b.height THEN HeightIncreased(y, b.height + 1) ELSE x
<1>1. t \in SendFShare(r, u, b)
  BY DEF Notarize
<1>2. /\ IsState(x) /\ x.sent = s.sent /\ x.nShares = s.nShares
      /\ x.fShares = s.fShares /\ x.isNotarized = s.isNotarized \cup {b}
  BY DEF IsState, StateFields, Seen
<1> HIDE DEF x
<1>3. /\ IsState(u) /\ u.sent = s.sent /\ u.nShares = s.nShares
      /\ u.fShares = s.fShares /\ u.isNotarized = s.isNotarized \cup {b}
  BY <1>2 DEF IsState, StateFields, HeightIncreased
<1> HIDE DEF u
<1>4. \A c \in Block : NQuorum(u, c) <=> NQuorum(s, c)
  BY <1>3 DEF NQuorum, superMajority, IsNotarizedBanyan
<1>5. Seen(u, n, f, o, {}) /\ b \in u.isNotarized
  BY <1>3, <1>4 DEF Seen
<1> QED BY <1>1, <1>5, SendFShareSeen

\* Counting a notarization share of v for b.
LEMMA CountSeen ==
  ASSUME NEW s, NEW n, NEW f, NEW o, Seen(s, n, f, o, {}), NEW b \in Block, NEW v \in Replica,
         NEW t, IsState(t), t.sent = s.sent, t.nShares = s.nShares \cup {<<b, v>>},
         t.fShares = s.fShares, t.isNotarized = s.isNotarized
  PROVE  Seen(t, n \cup {<<b, v>>}, f, o, {b})
<1>1. ASSUME NEW c \in Block \ {b}
      PROVE  NQuorum(t, c) <=> NQuorum(s, c)
  <2>1. Votes(t.nShares, c) = Votes(s.nShares, c)
    BY <1>1 DEF Votes
  <2> QED BY <2>1 DEF NQuorum, superMajority, IsNotarizedBanyan
<1> QED BY <1>1 DEF Seen

\* The share was counted and is no quorum, or b is notarized already.
LEMMA CountedSeen ==
  ASSUME NEW s, NEW n, NEW f, NEW o, NEW b \in Block, Seen(s, n, f, o, {b}),
         b \in s.isNotarized \/ ~NQuorum(s, b)
  PROVE  Seen(s, n, f, o, {})
BY DEF Seen

\* A notarization share of v for b, in Banyan.
LEMMA BanyanProcessNotarizationShareSeen ==
  ASSUME NEW s, NEW n, NEW f, NEW o, Seen(s, n, f, o, {}), Algorithm # "icc",
         s.isFinalized \subseteq s.isNotarized,
         NEW b \in Block, NEW v \in Replica, NEW r, NEW fast,
         NEW t \in BanyanProcessNotarizationShare(r, s, v, b, fast)
  PROVE  Seen(t, n \cup {<<b, v>>}, f, o, {})
<1> DEFINE a == AddNShareBanyan(s, v, b, fast)
           U == IF b \notin s.isNotarized /\ IsNotarizedBanyan(a, b)
                THEN Notarize(r, a, b) ELSE {a}
           m == n \cup {<<b, v>>}
<1>1. CASE b \in s.isFinalized \/ (b \in s.isNotarized /\ ~fast)
  <2>1. t = s /\ b \in s.isNotarized
    BY <1>1 DEF BanyanProcessNotarizationShare
  <2> QED BY <2>1 DEF Seen
<1>2. CASE ~(b \in s.isFinalized \/ (b \in s.isNotarized /\ ~fast))
  <2>1. t \in U \/ \E x \in U : t \in Finalize(x, b)
    BY <1>2 DEF BanyanProcessNotarizationShare
  <2>2. /\ IsState(a) /\ a.sent = s.sent /\ a.nShares = s.nShares \cup {<<b, v>>}
        /\ a.fShares = s.fShares /\ a.isNotarized = s.isNotarized
    BY DEF IsState, StateFields, Seen, AddNShareBanyan
  <2> HIDE DEF a
  <2>3. Seen(a, m, f, o, {b})
    BY <2>2, CountSeen
  <2> HIDE DEF m
  <2>4. ASSUME NEW x \in U
        PROVE  Seen(x, m, f, o, {})
    <3>1. CASE b \notin s.isNotarized /\ IsNotarizedBanyan(a, b)
      BY <2>3, <3>1, NotarizeSeen
    <3>2. CASE ~(b \notin s.isNotarized /\ IsNotarizedBanyan(a, b))
      <4>1. x = a /\ (b \in a.isNotarized \/ ~NQuorum(a, b))
        BY <2>2, <3>2 DEF NQuorum
      <4> QED BY <2>3, <4>1, CountedSeen
    <3> QED BY <3>1, <3>2
  <2> HIDE DEF U
  <2>5. Seen(t, m, f, o, {})
    BY <2>1, <2>4, FinalizeSeen
  <2> QED BY <2>5 DEF m
<1> QED BY <1>1, <1>2

\* A notarization share of v for b, in ICC.
LEMMA IccProcessNotarizationShareSeen ==
  ASSUME NEW s, NEW n, NEW f, NEW o, Seen(s, n, f, o, {}), Algorithm = "icc",
         NEW b \in Block, NEW v \in Replica, NEW r,
         NEW t \in IccProcessNotarizationShare(r, s, v, b)
  PROVE  Seen(t, n \cup {<<b, v>>}, f, o, {})
<1> DEFINE a == [s EXCEPT !.nShares = @ \cup {<<b, v>>}]
           m == n \cup {<<b, v>>}
<1>1. CASE b \in s.isNotarized
  <2>1. t = s
    BY <1>1 DEF IccProcessNotarizationShare
  <2> QED BY <1>1, <2>1 DEF Seen
<1>2. CASE b \notin s.isNotarized
  <2>1. \/ superMajority(a.nShares, b) /\ t \in Notarize(r, a, b)
        \/ ~superMajority(a.nShares, b) /\ t = a
    BY <1>2 DEF IccProcessNotarizationShare
  <2>2. /\ IsState(a) /\ a.sent = s.sent /\ a.nShares = s.nShares \cup {<<b, v>>}
        /\ a.fShares = s.fShares /\ a.isNotarized = s.isNotarized
    BY DEF IsState, StateFields, Seen
  <2> HIDE DEF a
  <2>3. Seen(a, m, f, o, {b})
    BY <2>2, CountSeen
  <2> HIDE DEF m
  <2>4. CASE superMajority(a.nShares, b) /\ t \in Notarize(r, a, b)
    BY <2>3, <2>4, NotarizeSeen DEF m
  <2>5. CASE ~superMajority(a.nShares, b) /\ t = a
    <3>1. ~NQuorum(a, b)
      BY <2>5 DEF NQuorum
    <3> QED BY <2>3, <2>5, <3>1, CountedSeen DEF m
  <2> QED BY <2>1, <2>4, <2>5
<1> QED BY <1>1, <1>2

\* The notarization share that r itself sends.
LEMMA SendNShareSeen ==
  ASSUME NEW s, NEW n, NEW f, NEW o, Seen(s, n, f, o, {}),
         s.isFinalized \subseteq s.isNotarized, NEW b \in Block, NEW r \in Replica, NEW t,
         \/ Algorithm = "icc" /\ t \in IccSendNShare(r, s, b)
         \/ Algorithm # "icc" /\ t \in BanyanSendNShare(r, s, b)
  PROVE  Seen(t, n, f, o, {}) \/ Seen(t, n \cup {<<b, r>>}, f, o \cup {b}, {})
<1> DEFINE h == b.height
           fast == b.rank = 0 /\ s.sentNSharesNo[h] = 0
           u == Broadcast([s EXCEPT !.sentNSharesNo[h] = @ + 1,
                                    !.sentNRank[h]     = b.rank,
                                    !.sentNShareId[h]  = b], NShareMsg(b, fast))
           w == Broadcast([s EXCEPT !.sentNSharesNo[h] = @ + 1, !.sentNShareId[h] = b],
                          NShareMsg(b, FALSE))
<1>1. \/ t = s
      \/ Algorithm # "icc" /\ t \in BanyanProcessNotarizationShare(r, u, r, b, fast)
      \/ Algorithm = "icc" /\ t \in IccProcessNotarizationShare(r, w, r, b)
  BY DEF BanyanSendNShare, IccSendNShare
<1>2. /\ IsState(u) /\ u.sent = Append(s.sent, NShareMsg(b, fast)) /\ u.nShares = s.nShares
      /\ u.fShares = s.fShares /\ u.isNotarized = s.isNotarized
      /\ u.isFinalized = s.isFinalized
  BY DEF IsState, StateFields, Seen, Broadcast
<1>3. /\ IsState(w) /\ w.sent = Append(s.sent, NShareMsg(b, FALSE)) /\ w.nShares = s.nShares
      /\ w.fShares = s.fShares /\ w.isNotarized = s.isNotarized
      /\ w.isFinalized = s.isFinalized
  BY DEF IsState, StateFields, Seen, Broadcast
<1>4. fast \in BOOLEAN
  OBVIOUS
<1> HIDE DEF u, w, fast
<1>5. ASSUME NEW x, NEW g \in BOOLEAN, IsState(x), x.sent = Append(s.sent, NShareMsg(b, g)),
             x.nShares = s.nShares, x.fShares = s.fShares, x.isNotarized = s.isNotarized
      PROVE  Seen(x, n, f, o \cup {b}, {})
  <2>1. NShareMsg(b, g) \in Message /\ NShareMsg(b, g).block = b
    BY MessageFields
  <2>2. Sent(s.sent, x.sent, NShareMsg(b, g))
    BY <1>5, <2>1, AppendMessage DEF Seen
  <2>3. x.sent \in Seq(Message) /\ Cast(x.sent) \subseteq Cast(s.sent) \cup {b}
    BY <2>1, <2>2 DEF Sent
  <2>4. \A c \in Block : NQuorum(x, c) <=> NQuorum(s, c)
    BY <1>5 DEF NQuorum, superMajority, IsNotarizedBanyan
  <2> QED BY <1>5, <2>3, <2>4 DEF Seen
<1>6. CASE Algorithm # "icc" /\ t \in BanyanProcessNotarizationShare(r, u, r, b, fast)
  BY <1>2, <1>4, <1>5, <1>6, BanyanProcessNotarizationShareSeen
<1>7. CASE Algorithm = "icc" /\ t \in IccProcessNotarizationShare(r, w, r, b)
  BY <1>3, <1>5, <1>7, FALSE \in BOOLEAN, IccProcessNotarizationShareSeen
<1> QED BY <1>1, <1>6, <1>7

\* The whole of ProcessBlock, in both algorithms.
LEMMA ProcessBlockSeen ==
  ASSUME NEW s, NEW n, NEW f, NEW o, Seen(s, n, f, o, {}),
         s.isFinalized \subseteq s.isNotarized, NEW b \in Block, NEW r \in Replica,
         NEW t \in ProcessBlock(r, s, b)
  PROVE  Seen(t, n, f, o, {}) \/ Seen(t, n \cup {<<b, r>>}, f, o \cup {b}, {})
<1>1. CASE ~Accepts(s, b)
  BY <1>1 DEF ProcessBlock, IccProcessBlock, BanyanProcessBlock
<1>2. CASE Accepts(s, b)
  <2>1. PICK x \in StoreBlock(s, b) :
          \E y : /\ \/ Algorithm = "icc" /\ y \in IccSendNShare(r, x, b)
                    \/ Algorithm # "icc" /\ y \in BanyanSendNShare(r, x, b)
                 /\ t \in (IF b \in y.isNotarized THEN SendFShare(r, y, b) ELSE {y})
    <3>1. CASE Algorithm = "icc"
      BY <1>2, <3>1 DEF ProcessBlock, IccProcessBlock
    <3>2. CASE Algorithm # "icc"
      BY <1>2, <3>2 DEF ProcessBlock, BanyanProcessBlock
    <3> QED BY <3>1, <3>2
  <2>2. PICK y : /\ \/ Algorithm = "icc" /\ y \in IccSendNShare(r, x, b)
                    \/ Algorithm # "icc" /\ y \in BanyanSendNShare(r, x, b)
                 /\ t \in (IF b \in y.isNotarized THEN SendFShare(r, y, b) ELSE {y})
    BY <2>1
  <2>3. Seen(x, n, f, o, {}) /\ x.isFinalized \subseteq x.isNotarized
    <3> DEFINE e == IF b \notin s.echoedBlock /\ b.height > s.headHeight
                    THEN Broadcast([s EXCEPT !.echoedBlock = @ \cup {b}], BlockMsg(b))
                    ELSE s
    <3>1. PICK l : x = [e EXCEPT !.ledger = l]
      BY DEF StoreBlock
    <3>2. /\ IsState(e) /\ e.nShares = s.nShares /\ e.fShares = s.fShares
          /\ e.isNotarized = s.isNotarized /\ e.isFinalized = s.isFinalized
          /\ e.sent = s.sent \/ e.sent = Append(s.sent, BlockMsg(b))
      BY DEF IsState, StateFields, Seen, Broadcast
    <3> HIDE DEF e
    <3>3. /\ IsState(x) /\ x.nShares = s.nShares /\ x.fShares = s.fShares
          /\ x.isNotarized = s.isNotarized /\ x.isFinalized = s.isFinalized
          /\ x.sent = s.sent \/ x.sent = Append(s.sent, BlockMsg(b))
      BY <3>1, <3>2 DEF IsState, StateFields
    <3>4. BlockMsg(b) \in Message /\ BlockMsg(b).type = "block"
      BY TRUE \in BOOLEAN, MessageFields
    <3>5. x.sent \in Seq(Message) /\ Cast(x.sent) = Cast(s.sent)
      <4>1. CASE x.sent = s.sent
        BY <4>1 DEF Seen
      <4>2. CASE x.sent = Append(s.sent, BlockMsg(b))
        <5>1. Sent(s.sent, x.sent, BlockMsg(b))
          BY <3>4, <4>2, AppendMessage DEF Seen
        <5> QED BY <3>4, <5>1 DEF Sent
      <4> QED BY <3>3, <4>1, <4>2
    <3> QED BY <3>3, <3>5, SeenSame
  <2>4. Seen(y, n, f, o, {}) \/ Seen(y, n \cup {<<b, r>>}, f, o \cup {b}, {})
    BY <2>2, <2>3, SendNShareSeen
  <2> QED BY <2>2, <2>4, SendFShareSeen
<1> QED BY <1>1, <1>2


-----------------------------------------------------------------------------
(* The whole system. *)

\* The shares <<b, v>> of a type that r has handled
HandledShares(r, type) ==
  {p \in Block \X Replica :
     \E i \in got[r][p[2]] : rs[p[2]].sent[i].type = type /\ rs[p[2]].sent[i].block = p[1]}

OwnVotes(r) == {<<b, r>> : b \in Cast(rs[r].sent)}

SeenInv(r) ==
  Seen(rs[r], HandledShares(r, "nshare") \cup OwnVotes(r), HandledShares(r, "fshare"),
       Cast(rs[r].sent), {})

\* The messages of v that r has handled are the first ones.
NoneSkipped(r) == \A v \in Replica : \A i \in got[r][v] : 1 .. i - 1 \subseteq got[r][v]

\* The replicas that hear all others in order
Ordered == {q \in Replica : \A v \in Replica : Overtake[q, v] = 0}

InOrderInv == \A r \in Ordered : SeenInv(r) /\ NoneSkipped(r)

\* What a replica has finalized it has notarized: each finalization share has
\* come after a notarization share.
LEMMA SeenNotarized ==
  ASSUME IndInv, QuorumsNotarize, NEW r \in Replica, SeenInv(r), NoneSkipped(r)
  PROVE  rs[r].isFinalized \subseteq rs[r].isNotarized
<1> SUFFICES ASSUME NEW b \in rs[r].isFinalized, b \notin rs[r].isNotarized PROVE FALSE
  OBVIOUS
<1> DEFINE w == World(r, got[r], local[r].height)
           V == Votes(rs[r].nShares, b)
           h == b.height
<1>1. HandlerInv(r, rs[r], w) /\ w.fast = FastBlocks
  BY DEF IndInv, World
<1>2. /\ b \in Block /\ h \in Height /\ rs[r].fastVotes[h] \in Nat
      /\ w.base[h] = Cardinality(FastSeen(r, h, got[r]))
  <2>1. rs[r] \in State({rs[r].ledger})
    BY LogFacts
  <2>2. b \in Block /\ h \in Height /\ rs[r].fastVotes \in [Height -> Nat]
    BY <2>1, StateTypes
  <2> QED BY <2>2 DEF World
<1> HIDE DEF w
<1>3. ASSUME NEW v \in Replica, <<b, v>> \in HandledShares(r, "nshare") \cup OwnVotes(r)
      PROVE  v \in V
  BY <1>2, <1>3 DEF SeenInv, Seen, Votes
<1>4. V \in SUBSET Replica /\ ~NQuorum(rs[r], b)
  BY <1>2 DEF Votes, SeenInv, Seen
<1>5. Cardinality(V) \in Nat
  BY <1>4, FastSeenFinite
<1>6. N \in Nat /\ N > 0 /\ F \in Nat /\ P \in Nat
  BY ReplicaAssumption
<1>7. CASE superMajority(rs[r].fShares, b)
  <2> DEFINE T == Votes(rs[r].fShares, b)
             D == (N * 2) \div 3
  <2>1. T \subseteq V
    <3> SUFFICES ASSUME NEW v \in T PROVE v \in V
      OBVIOUS
    <3>1. v \in Replica /\ <<b, v>> \in rs[r].fShares
      BY DEF Votes
    <3>2. <<b, v>> \in HandledShares(r, "fshare")
      BY <1>2, <3>1 DEF SeenInv, Seen
    <3>3. PICK i \in got[r][v] : rs[v].sent[i].type = "fshare" /\ rs[v].sent[i].block = b
      BY <3>2 DEF HandledShares
    <3>4. i \in DOMAIN rs[v].sent
      BY <3>1, <3>3 DEF IndInv, Handled
    <3>5. FSharesFollow(rs[v].sent)
      BY <3>1 DEF IndInv, HandlerInv, FShareInv
    <3>6. PICK j \in 1 .. i - 1 : rs[v].sent[j].type = "nshare" /\ rs[v].sent[j].block = b
      BY <3>3, <3>4, <3>5 DEF FSharesFollow
    <3>7. j \in got[r][v]
      BY <3>1, <3>3, <3>6 DEF NoneSkipped
    <3>8. <<b, v>> \in HandledShares(r, "nshare")
      BY <1>2, <3>1, <3>6, <3>7 DEF HandledShares
    <3> QED BY <1>3, <3>1, <3>8
  <2>2. T \in SUBSET Replica
    BY DEF Votes
  <2>3. Cardinality(T) \in Nat /\ Cardinality(T) <= Cardinality(V) /\ Cardinality(T) > D
    BY <1>4, <1>7, <2>1, <2>2, FastSeenFinite DEF superMajority
  <2>4. D \in Nat /\ 3 * D <= 2 * N /\ 2 * N < 3 * D + 3
    BY <1>6, SMT
  <2>5. Cardinality(V) > D
    BY <1>5, <2>3, <2>4
  <2>6. CASE Algorithm = "icc"
    BY <1>4, <2>5, <2>6 DEF NQuorum, superMajority
  <2>7. CASE 3 * F <= N
    <3>1. Cardinality(V) * 2 > N + F
      <4> HIDE DEF V, D
      <4> QED BY <1>5, <1>6, <2>4, <2>5, <2>7
    <3> QED BY <1>4, <2>5, <3>1 DEF NQuorum, superMajority, IsNotarizedBanyan
  <2> QED BY <2>6, <2>7 DEF QuorumsNotarize
<1>8. CASE /\ Algorithm # "icc" /\ rs[r].fastVotes[h] >= N - P
           /\ b \in FastBlocks \cup FastCast(rs[r].sent)
  <2> DEFINE A == FastSeen(r, h, got[r])
             O == IF \E c \in FastCast(rs[r].sent) : c.height = h THEN {r} ELSE {}
  <2>1. PICK q \in Replica : b \in FastCast(rs[q].sent)
    BY <1>8 DEF FastBlocks
  <2>2. ASSUME NEW v \in Replica, NEW c \in FastCast(rs[v].sent), c.height = h
        PROVE  c = b
    <3>1. c \in BlocksIn(rs[v].sent) /\ c.rank = 0
      BY LogFacts
    <3>2. b \in BlocksIn(rs[q].sent) /\ b.rank = 0
      BY <2>1, LogFacts
    <3> QED BY <2>2, <3>1, <3>2, IndUniqueProposal DEF UniqueProposal, Proposed
  <2>3. A \subseteq V
    <3> SUFFICES ASSUME NEW v \in A PROVE v \in V
      OBVIOUS
    <3>1. PICK i \in got[r][v] : IsFast(rs[v].sent[i], h)
      BY DEF FastSeen
    <3>2. v \in Replica /\ i \in DOMAIN rs[v].sent
      BY <3>1 DEF FastSeen, IndInv, Handled
    <3>3. rs[v].sent[i].block \in FastCast(rs[v].sent)
      BY <3>1, <3>2 DEF FastCast, IsFast
    <3>4. rs[v].sent[i].block = b /\ rs[v].sent[i].type = "nshare"
      BY <2>2, <3>1, <3>2, <3>3 DEF IsFast
    <3>5. <<b, v>> \in HandledShares(r, "nshare")
      BY <1>2, <3>2, <3>4 DEF HandledShares
    <3> QED BY <1>3, <3>2, <3>5
  <2>4. O \subseteq V
    <3> SUFFICES ASSUME NEW c \in FastCast(rs[r].sent), c.height = h PROVE r \in V
      OBVIOUS
    <3>1. c = b /\ b \in Cast(rs[r].sent)
      BY <2>2, LogFacts
    <3> QED BY <1>3, <3>1 DEF OwnVotes
  <2>5. /\ A \in SUBSET Replica /\ O \in SUBSET Replica /\ A \cap O = {}
        /\ A \cup O \in SUBSET Replica /\ A \cup O \subseteq V
    BY <2>3, <2>4 DEF FastSeen
  <2>6. OwnFast(rs[r].sent, h) = Cardinality(O)
    BY FS_EmptySet, FS_Singleton DEF OwnFast
  <2>7. rs[r].fastVotes[h] <= Cardinality(A) + Cardinality(O)
    BY <1>1, <1>2, <2>6 DEF HandlerInv, BagInv
  <2> HIDE DEF A, O
  <2>8. /\ IsFiniteSet(A) /\ IsFiniteSet(O)
        /\ Cardinality(A \cup O) \in Nat /\ Cardinality(A \cup O) <= Cardinality(V)
        /\ Cardinality(A) \in Nat /\ Cardinality(O) \in Nat
    BY <1>4, <2>5, FastSeenFinite
  <2>9. Cardinality(A \cup O) = Cardinality(A) + Cardinality(O)
    <3>1. Cardinality(A \cup O) = Cardinality(A) + Cardinality(O) - Cardinality(A \cap O)
      BY <2>8, FS_Union
    <3>2. Cardinality(A \cap O) = 0
      BY <2>5, FS_EmptySet
    <3> QED BY <2>8, <3>1, <3>2
  <2>10. 2 * P + F < N
    BY <1>8 DEF QuorumsNotarize
  <2>11. Cardinality(V) * 2 > N + F
    <3> HIDE DEF V, h
    <3> QED BY <1>2, <1>5, <1>6, <1>8, <2>7, <2>8, <2>9, <2>10
  <2> QED BY <1>4, <1>8, <2>11 DEF NQuorum, IsNotarizedBanyan
<1> QED BY <1>1, <1>7, <1>8 DEF HandlerInv, QuorumInv


\* r handles message i of v, and nothing else.
Hears(r, v, i) ==
  /\ \A u \in Replica \ {v} : got'[r][u] = got[r][u]
  /\ got'[r][v] = got[r][v] \cup {i}
  /\ i \in DOMAIN rs[v].sent

\* Shares that were handled stay so, and others only with a new message.
LEMMA HandledStays ==
  ASSUME IndInv, LogsGrow, NEW r \in Replica, NEW v \in Replica, NEW i,
         Hears(r, v, i), NEW type
  PROVE  /\ HandledShares(r, type) \subseteq HandledShares(r, type)'
         /\ \A p \in HandledShares(r, type)' :
              \/ p \in HandledShares(r, type)
              \/ rs[v].sent[i].type = type /\ p = <<rs[v].sent[i].block, v>>
<1>1. \A u \in Replica : \A j \in got'[r][u] : rs'[u].sent[j] = rs[u].sent[j]
  <2> TAKE u \in Replica
  <2>1. rs[u].sent \in Seq(Message)
    BY LogFacts
  <2>2. got[r][u] \subseteq DOMAIN rs[u].sent
    BY DEF IndInv, Handled
  <2> TAKE j \in got'[r][u]
  <2>3. j \in DOMAIN rs[u].sent
    BY <2>2 DEF Hears
  <2>4. j \in 1..Len(rs[u].sent)
    BY <2>1, <2>3
  <2> QED BY <2>1, <2>3, <2>4 DEF LogsGrow
<1>2. ASSUME NEW p \in HandledShares(r, type)
      PROVE  p \in HandledShares(r, type)'
  <2>1. p[2] \in Replica
    BY DEF HandledShares
  <2>2. got[r][p[2]] \subseteq got'[r][p[2]]
    BY <2>1 DEF Hears
  <2> QED BY <1>1, <2>1, <2>2 DEF HandledShares
<1>3. ASSUME NEW p \in HandledShares(r, type)', p \notin HandledShares(r, type)
      PROVE  rs[v].sent[i].type = type /\ p = <<rs[v].sent[i].block, v>>
  <2>1. PICK j \in got'[r][p[2]] :
          rs'[p[2]].sent[j].type = type /\ rs'[p[2]].sent[j].block = p[1]
    BY DEF HandledShares
  <2>2. p \in Block \X Replica /\ p[2] \in Replica
    BY DEF HandledShares
  <2>3. rs[p[2]].sent[j].type = type /\ rs[p[2]].sent[j].block = p[1]
    BY <1>1, <2>1, <2>2
  <2>4. j \notin got[r][p[2]]
    BY <1>3, <2>2, <2>3 DEF HandledShares
  <2>5. p[2] = v /\ j = i
    BY <2>1, <2>2, <2>4 DEF Hears
  <2> QED BY <2>2, <2>3, <2>5
<1> QED BY <1>2, <1>3

\* What Seen says after a step of r is SeenInv if it is about all shares
\* handled and all votes.
LEMMA SeenAfter ==
  ASSUME NEW r \in Replica, NEW n, NEW f, NEW o, Seen(rs'[r], n, f, o, {}),
         HandledShares(r, "nshare")' \subseteq n, f \subseteq HandledShares(r, "fshare")',
         \A c \in o : <<c, r>> \in n
  PROVE  SeenInv(r)'
<1>1. OwnVotes(r)' \subseteq n
  BY DEF OwnVotes, Seen
<1> QED BY <1>1 DEF SeenInv, Seen

\* Every step keeps SeenInv.
LEMMA SeenNext ==
  ASSUME IndInv, Next, NEW r \in Replica, SeenInv(r), rs[r].isFinalized \subseteq rs[r].isNotarized
  PROVE  SeenInv(r)'
<1> DEFINE n == HandledShares(r, "nshare") \cup OwnVotes(r)
           f == HandledShares(r, "fshare")
           o == Cast(rs[r].sent)
<1>1. /\ DOMAIN rs = Replica /\ got \in [Replica -> [Replica -> SUBSET Nat]]
      /\ LogsGrow /\ \A v \in Replica : rs[v].sent \in Seq(Message)
  BY NextInd, LogFacts DEF IndInv, TypeOK
<1>2. Seen(rs[r], n, f, o, {}) /\ \A c \in o : <<c, r>> \in n
  BY DEF SeenInv, OwnVotes
<1>3. ASSUME got'[r] = got[r]
      PROVE  HandledShares(r, "nshare")' \subseteq n /\ f \subseteq HandledShares(r, "fshare")'
  <2>1. \A u \in Replica : \A j \in got[r][u] : rs'[u].sent[j] = rs[u].sent[j]
    BY <1>1 DEF IndInv, Handled, LogsGrow
  <2> QED BY <1>3, <2>1 DEF HandledShares
<1>4. ASSUME NEW s, NEW height, NEW rank, Propose(r, s, height, rank), Quiet(rs[r], s),
             s.sent = rs[r].sent, s.nShares = rs[r].nShares, s.fShares = rs[r].fShares
      PROVE  SeenInv(r)'
  <2> DEFINE b == MakeProposal(r, s, height, rank)
             u == Broadcast(s, BlockMsg(b))
  <2>1. PICK t \in proposeIfLeader(r, s, height, rank) : rs' = [rs EXCEPT ![r] = t]
    BY <1>4 DEF Propose
  <2>2. rs'[r] = t /\ got' = got
    BY <1>1, <1>4, <2>1 DEF Propose
  <2>3. HandledShares(r, "nshare")' \subseteq n /\ f \subseteq HandledShares(r, "fshare")'
    BY <1>3, <2>2
  <2>4. IsState(s) /\ s.isNotarized = rs[r].isNotarized /\ s.isFinalized = rs[r].isFinalized
    BY <1>4 DEF Quiet
  <2> HIDE DEF n, f, o
  <2>5. Seen(s, n, f, o, {})
    BY <1>1, <1>2, <1>4, <2>4, SeenSame
  <2>6. CASE IsLeader(r, height, rank)
    <3>1. b \in Block /\ t \in ProcessBlock(r, u, b)
      BY <1>4, <2>1, <2>6 DEF Propose, WithinBounds, proposeIfLeader
    <3> HIDE DEF b
    <3>2. /\ IsState(u) /\ u.sent = Append(s.sent, BlockMsg(b)) /\ u.nShares = s.nShares
          /\ u.fShares = s.fShares /\ u.isNotarized = s.isNotarized
          /\ u.isFinalized = s.isFinalized
      BY <2>4 DEF IsState, StateFields, Broadcast
    <3> HIDE DEF u
    <3>3. BlockMsg(b) \in Message /\ BlockMsg(b).type = "block"
      BY <3>1, TRUE \in BOOLEAN, MessageFields
    <3>4. Sent(s.sent, u.sent, BlockMsg(b))
      BY <1>1, <1>4, <3>2, <3>3, AppendMessage
    <3>5. u.sent \in Seq(Message) /\ Cast(u.sent) = Cast(s.sent)
      BY <3>3, <3>4 DEF Sent
    <3>6. Seen(u, n, f, o, {}) /\ u.isFinalized \subseteq u.isNotarized
      BY <2>4, <2>5, <3>2, <3>5, SeenSame
    <3>7. Seen(t, n, f, o, {}) \/ Seen(t, n \cup {<<b, r>>}, f, o \cup {b}, {})
      BY <3>1, <3>6, ProcessBlockSeen
    <3>8. CASE Seen(t, n, f, o, {})
      BY <1>2, <2>2, <2>3, <3>8, SeenAfter
    <3>9. CASE Seen(t, n \cup {<<b, r>>}, f, o \cup {b}, {})
      <4>1. \A c \in o \cup {b} : <<c, r>> \in n \cup {<<b, r>>}
        BY <1>2
      <4>2. HandledShares(r, "nshare")' \subseteq n \cup {<<b, r>>}
        BY <2>3
      <4> QED BY <2>2, <2>3, <3>9, <4>1, <4>2, SeenAfter
    <3> QED BY <3>7, <3>8, <3>9
  <2>7. CASE ~IsLeader(r, height, rank)
    <3>1. t = s
      BY <2>1, <2>7 DEF proposeIfLeader
    <3> QED BY <1>2, <2>2, <2>3, <2>5, <3>1, SeenAfter
  <2> QED BY <2>6, <2>7
<1>5. IsState(rs[r]) /\ Quiet(rs[r], rs[r])
  BY DEF SeenInv, Seen, Quiet
<1>6. ASSUME rs'[r] = rs[r], got'[r] = got[r]
      PROVE  SeenInv(r)'
  <2>1. HandledShares(r, "nshare")' \subseteq n /\ f \subseteq HandledShares(r, "fshare")'
    BY <1>3, <1>6
  <2> HIDE DEF n, f, o
  <2> QED BY <1>2, <1>6, <2>1, SeenAfter
<1>7. PICK q \in Replica : \/ \E v \in Replica \ {q} : Deliver(q, v)
                           \/ Query(q)
                           \/ FirstProposal(q)
                           \/ NewHeight(q)
                           \/ Timeout(q)
  BY DEF Next
<1>8. CASE q # r
  <2>1. ASSUME NEW v \in Replica \ {q}, Deliver(q, v)
        PROVE  rs'[r] = rs[r] /\ got'[r] = got[r]
    BY <1>1, <1>8, <2>1 DEF Deliver
  <2>2. ASSUME NEW s, NEW height, NEW rank, Propose(q, s, height, rank)
        PROVE  rs'[r] = rs[r] /\ got'[r] = got[r]
    BY <1>1, <1>8, <2>2 DEF Propose
  <2>3. rs'[r] = rs[r] /\ got'[r] = got[r]
    BY <1>7, <2>1, <2>2 DEF Query, FirstProposal, NewHeight, Timeout
  <2> QED BY <1>6, <2>3
<1>9. CASE q = r /\ \E v \in Replica \ {r} : Deliver(r, v)
  <2>1. PICK v \in Replica \ {r} : Deliver(r, v)
    BY <1>9
  <2>2. PICK i \in DOMAIN rs[v].sent \ got[r][v] :
          /\ got' = [got EXCEPT ![r][v] = @ \cup {i}]
          /\ \E t \in Handle(r, rs[r], v, rs[v].sent[i]) : rs' = [rs EXCEPT ![r] = t]
    BY <2>1 DEF Deliver
  <2> DEFINE m == rs[v].sent[i]
             b == m.block
  <2>3. PICK t \in Handle(r, rs[r], v, m) : rs' = [rs EXCEPT ![r] = t]
    BY <2>2
  <2>4. /\ rs'[r] = t /\ got'[r][v] = got[r][v] \cup {i}
        /\ \A u \in Replica \ {v} : got'[r][u] = got[r][u]
    BY <1>1, <2>2, <2>3
  <2>5. /\ f \subseteq HandledShares(r, "fshare")'
        /\ \A type : \A p \in HandledShares(r, type)' :
             p \in HandledShares(r, type) \/ (m.type = type /\ p = <<b, v>>)
    <3>1. ASSUME NEW type
          PROVE  /\ HandledShares(r, type) \subseteq HandledShares(r, type)'
                 /\ \A p \in HandledShares(r, type)' :
                      \/ p \in HandledShares(r, type)
                      \/ rs[v].sent[i].type = type /\ p = <<rs[v].sent[i].block, v>>
      <4>1. v \in Replica /\ Hears(r, v, i)
        BY <2>4 DEF Hears
      <4>2. LogsGrow
        BY <1>1
      <4> HIDE DEF n, f, o, m, b
      <4> QED BY <4>1, <4>2, HandledStays
    <3> QED BY <3>1
  <2>6. m \in Message
    BY <1>1
  <2> HIDE DEF m
  <2>7. b \in Block /\ m.type \in {"block", "nshare", "fshare"} /\ m.fast \in BOOLEAN
    BY <2>6 DEF Message
  <2>8. HandledShares(r, "nshare")' \subseteq n \cup (IF m.type = "nshare" THEN {<<b, v>>} ELSE {})
    BY <2>5
  <2>9. CASE m.type = "block"
    <3> HIDE DEF n, f, o, b
    <3>1. t \in ProcessBlock(r, rs[r], b)
      BY <2>3, <2>9 DEF Handle, b
    <3>2. Seen(t, n, f, o, {}) \/ Seen(t, n \cup {<<b, r>>}, f, o \cup {b}, {})
      BY <1>2, <2>7, <3>1, ProcessBlockSeen
    <3>3. CASE Seen(t, n, f, o, {})
      BY <1>2, <2>4, <2>5, <2>8, <2>9, <3>3, SeenAfter
    <3>4. CASE Seen(t, n \cup {<<b, r>>}, f, o \cup {b}, {})
      <4>1. \A c \in o \cup {b} : <<c, r>> \in n \cup {<<b, r>>}
        BY <1>2
      <4>2. HandledShares(r, "nshare")' \subseteq n \cup {<<b, r>>}
        BY <2>8, <2>9
      <4> QED BY <2>4, <2>5, <3>4, <4>1, <4>2, SeenAfter
    <3> QED BY <3>2, <3>3, <3>4
  <2>10. CASE m.type = "nshare"
    <3> HIDE DEF n, f, o, b
    <3>1. t \in ProcessNotarizationShare(r, rs[r], v, b, m.fast)
      BY <2>3, <2>10 DEF Handle, b
    <3>2. Seen(t, n \cup {<<b, v>>}, f, o, {})
      BY <1>2, <2>7, <3>1, BanyanProcessNotarizationShareSeen,
         IccProcessNotarizationShareSeen DEF ProcessNotarizationShare
    <3>3. HandledShares(r, "nshare")' \subseteq n \cup {<<b, v>>}
      BY <2>8, <2>10
    <3>4. \A c \in o : <<c, r>> \in n \cup {<<b, v>>}
      BY <1>2
    <3> QED BY <2>4, <2>5, <3>2, <3>3, <3>4, SeenAfter
  <2>11. CASE m.type = "fshare"
    <3> DEFINE g == f \cup {<<b, v>>}
    <3>1. t \in ProcessFinalizationShare(rs[r], v, b)
      BY <2>3, <2>11 DEF Handle
    <3>2. g \subseteq HandledShares(r, "fshare")'
      <4>1. rs'[v].sent[i] = m
        BY <1>1, <2>1, <2>2 DEF LogsGrow, m
      <4>2. <<b, v>> \in HandledShares(r, "fshare")'
        BY <2>4, <2>7, <2>11, <4>1 DEF HandledShares
      <4> QED BY <2>5, <4>2
    <3> HIDE DEF n, f, o, b
    <3>3. Seen(rs[r], n, g, o, {})
      BY <1>2, SeenMore
    <3>4. Seen(t, n, g, o, {})
      BY <3>1, <3>3, ProcessFinalizationShareSeen
    <3>5. HandledShares(r, "nshare")' \subseteq n
      BY <2>8, <2>11
    <3> HIDE DEF g
    <3> QED BY <1>2, <2>4, <3>2, <3>4, <3>5, SeenAfter
  <2> QED BY <2>7, <2>9, <2>10, <2>11
<1>10. CASE q = r /\ Query(r)
  BY <1>6, <1>10 DEF Query
<1>11. CASE q = r /\ FirstProposal(r)
  BY <1>4, <1>5, <1>11 DEF FirstProposal
<1>12. CASE q = r /\ NewHeight(r)
  <2> DEFINE s == [rs[r] EXCEPT !.newHeightChan = Tail(@)]
  <2>1. /\ Quiet(rs[r], s) /\ s.sent = rs[r].sent /\ s.nShares = rs[r].nShares
        /\ s.fShares = rs[r].fShares
    BY <1>5 DEF Quiet, IsState, StateFields
  <2>2. Propose(r, s, Head(rs[r].newHeightChan), 0)
    BY <1>12 DEF NewHeight
  <2> HIDE DEF s
  <2> QED BY <1>4, <2>1, <2>2
<1>13. CASE q = r /\ Timeout(r)
  BY <1>4, <1>5, <1>13 DEF Timeout
<1> QED BY <1>7, <1>8, <1>9, <1>10, <1>11, <1>12, <1>13


\* A link that lets nothing overtake skips no message.
LEMMA NoneSkippedNext ==
  ASSUME IndInv, Next, NEW r \in Ordered, NoneSkipped(r)
  PROVE  NoneSkipped(r)'
<1>1. /\ got \in [Replica -> [Replica -> SUBSET Nat]] /\ r \in Replica
      /\ \A v \in Replica : Overtake[r, v] = 0
      /\ \A v \in Replica : rs[v].sent \in Seq(Message)
  BY LogFacts DEF IndInv, TypeOK, Ordered
<1>2. ASSUME got'[r] = got[r]
      PROVE  NoneSkipped(r)'
  BY <1>2 DEF NoneSkipped
<1>3. PICK q \in Replica : \/ \E v \in Replica \ {q} : Deliver(q, v)
                           \/ Query(q)
                           \/ FirstProposal(q)
                           \/ NewHeight(q)
                           \/ Timeout(q)
  BY DEF Next
<1>4. CASE got' = got
  BY <1>2, <1>4
<1>5. CASE \E v \in Replica \ {q} : Deliver(q, v)
  <2>1. PICK v \in Replica \ {q} : Deliver(q, v)
    BY <1>5
  <2>2. PICK i \in DOMAIN rs[v].sent \ got[q][v] :
          /\ Cardinality((1..(i - 1)) \ got[q][v]) <= Overtake[q, v]
          /\ got' = [got EXCEPT ![q][v] = @ \cup {i}]
    BY <2>1 DEF Deliver
  <2>3. CASE q # r
    BY <1>1, <1>2, <2>2, <2>3
  <2>4. CASE q = r
    <3> DEFINE S == (1..(i - 1)) \ got[r][v]
    <3>1. i \in Nat
      <4>1. rs[v].sent \in Seq(Message) /\ i \in DOMAIN rs[v].sent
        BY <1>1, <2>2
      <4> QED BY <4>1
    <3>2. IsFiniteSet(S) /\ Cardinality(S) \in Nat
      <4>1. IsFiniteSet(1..(i - 1))
        BY <3>1, FS_Interval
      <4> QED BY <4>1, FS_Subset, FS_CardinalityType
    <3>3. Cardinality(S) <= 0
      BY <1>1, <2>2, <2>4
    <3> HIDE DEF S
    <3>4. S = {}
      BY <3>2, <3>3, FS_EmptySet
    <3>5. 1 .. i - 1 \subseteq got[r][v]
      BY <3>4 DEF S
    <3>6. /\ got'[r][v] = got[r][v] \cup {i}
          /\ \A u \in Replica \ {v} : got'[r][u] = got[r][u]
      BY <1>1, <2>2, <2>4
    <3> SUFFICES ASSUME NEW u \in Replica, NEW j \in got'[r][u]
                 PROVE  1 .. j - 1 \subseteq got'[r][u]
      BY DEF NoneSkipped
    <3>7. CASE u # v
      BY <3>6, <3>7 DEF NoneSkipped
    <3>8. CASE u = v
      BY <3>5, <3>6, <3>8 DEF NoneSkipped
    <3> QED BY <3>7, <3>8
  <2> QED BY <2>3, <2>4
<1>6. CASE Query(q) \/ FirstProposal(q) \/ NewHeight(q) \/ Timeout(q)
  BY <1>4, <1>6 DEF Query, FirstProposal, NewHeight, Timeout, Propose
<1> QED BY <1>3, <1>5, <1>6

\* Nothing is handled at first, and no vote counted.
LEMMA InOrderInit == Init => InOrderInv
<1> SUFFICES ASSUME Init, NEW r \in Replica PROVE SeenInv(r) /\ NoneSkipped(r)
  BY DEF InOrderInv, Ordered
<1>1. rs[r] = NewState /\ \A v \in Replica : got[r][v] = {}
  BY DEF Init
<1>2. /\ IsState(NewState) /\ NewState.sent = <<>> /\ NewState.nShares = {}
      /\ NewState.fShares = {}
  BY DEF NewState, IsState, StateFields
<1>3. <<>> \in Seq(Message) /\ Cast(<<>>) = {}
  BY DEF Cast
<1>4. \A type : HandledShares(r, type) = {}
  BY <1>1 DEF HandledShares
<1>5. OwnVotes(r) = {}
  BY <1>1, <1>2, <1>3 DEF OwnVotes
<1>6. ASSUME NEW c \in Block PROVE ~NQuorum(NewState, c)
  <2>1. Votes({}, c) = {} /\ Cardinality({}) = 0
    BY FS_EmptySet DEF Votes
  <2>2. N \in Nat /\ N > 0 /\ F \in Nat
    BY ReplicaAssumption
  <2>3. (N * 2) \div 3 \in Nat /\ N + F \in Nat
    BY <2>2
  <2>4. ~(0 > (N * 2) \div 3) /\ ~(0 * 2 > N + F)
    BY <2>3
  <2> QED BY <1>2, <2>1, <2>4 DEF NQuorum, superMajority, IsNotarizedBanyan
<1>7. Seen(NewState, {}, {}, {}, {})
  BY <1>2, <1>3, <1>6 DEF Seen
<1> QED BY <1>1, <1>2, <1>3, <1>4, <1>5, <1>7 DEF SeenInv, NoneSkipped

\* The invariant holds in every state.
THEOREM InOrderInvariance ==
  ASSUME QuorumsNotarize
  PROVE  Spec => [](IndInv /\ InOrderInv)
<1>1. Init => IndInv /\ InOrderInv
  BY InitInd, InOrderInit
<1>2. IndInv /\ InOrderInv /\ [Next]_vars => (IndInv /\ InOrderInv)'
  <2> SUFFICES ASSUME IndInv, InOrderInv, [Next]_vars PROVE IndInv' /\ InOrderInv'
    OBVIOUS
  <2>1. IndInv'
    BY NextInd
  <2>2. CASE Next
    <3> SUFFICES ASSUME NEW r \in Ordered PROVE SeenInv(r)' /\ NoneSkipped(r)'
      BY <2>1 DEF InOrderInv
    <3>1. r \in Replica /\ SeenInv(r) /\ NoneSkipped(r)
      BY DEF InOrderInv, Ordered
    <3>2. rs[r].isFinalized \subseteq rs[r].isNotarized
      BY <3>1, SeenNotarized
    <3> QED BY <2>2, <3>1, <3>2, SeenNext, NoneSkippedNext
  <2>3. CASE UNCHANGED vars
    BY <2>1, <2>3 DEF vars, InOrderInv, SeenInv, NoneSkipped, HandledShares, OwnVotes
  <2> QED BY <2>2, <2>3
<1> QED BY <1>1, <1>2, PTL DEF Spec

\* A replica that hears the others in order has notarized what it has
\* finalized, although ProcessNotarizationShare ignores the shares that come
\* after finalization.
THEOREM FinalizedAreNotarized ==
  ASSUME QuorumsNotarize
  PROVE  Spec => []FinalizedIsNotarized
<1>1. IndInv /\ InOrderInv => FinalizedIsNotarized
  BY SeenNotarized DEF InOrderInv, Ordered, FinalizedIsNotarized
<1> QED BY <1>1, InOrderInvariance, PTL
=============================================================================
