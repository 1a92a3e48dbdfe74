---------------------------- MODULE ForestProofs ----------------------------
(***************************************************************************)
(* Induction on the natural numbers in first-order form, for sets in the   *)
(* place of predicates; what it says of functions defined by recursion on  *)
(* them: they exist, if every value is obtained from the one before by a   *)
(* step that stays within a set; and what follows for CommitBlock, which   *)
(* walks back through the store of blocks.                                 *)
(***************************************************************************)
EXTENDS LevelledForest, TLAPS, WellFoundedInduction, FiniteSetTheorems

\* A set with 0 that is closed under successor holds every natural number.
LEMMA SetInduction ==
  ASSUME NEW S, 0 \in S, \A n \in Nat : n \in S => n + 1 \in S
  PROVE  Nat \subseteq S
<1> SUFFICES ASSUME Nat \ S # {} PROVE FALSE
  OBVIOUS
<1> DEFINE R == OpToRel(<, Nat)
<1>1. IsWellFoundedOn(R, Nat)
  BY NatLessThanWellFounded
<1>2. R = {p \in Nat \X Nat : p[1] < p[2]}
  BY DEF OpToRel
<1> HIDE DEF R
<1>3. PICK x \in Nat \ S : \A y \in Nat \ S : ~(<<y, x>> \in R)
  BY <1>1, WFMin, Nat \ S \subseteq Nat
<1>4. x # 0 /\ x - 1 \in Nat /\ x - 1 < x
  OBVIOUS
<1>5. <<x - 1, x>> \in R
  BY <1>2, <1>4
<1>6. x - 1 \in S
  BY <1>3, <1>4, <1>5
<1>7. x - 1 + 1 = x
  OBVIOUS
<1> QED BY <1>4, <1>6, <1>7

\* f[n] is what n steps from start lead to, within D.
IsIteration(f, D, step, start) ==
  /\ f \in [Nat -> D]
  /\ f[0] = start
  /\ \A n \in Nat : n # 0 => f[n - 1] \in D /\ f[n] = step[f[n - 1]]

\* A step within a set can be iterated.
LEMMA IterationExists ==
  ASSUME NEW D, NEW step \in [D -> D], NEW start \in D
  PROVE  \E f : IsIteration(f, D, step, start)
<1> DEFINE Up(g, n) == /\ g \in [0..n -> D]
                       /\ g[0] = start
                       /\ \A i \in 0 .. n - 1 : g[i + 1] = step[g[i]]
           S == {n \in Nat : \E g : Up(g, n)}
<1>1. Nat \subseteq S
  <2>1. 0 \in S
    <3>1. Up([i \in 0..0 |-> start], 0)
      OBVIOUS
    <3> QED BY <3>1
  <2>2. ASSUME NEW n \in Nat, n \in S
        PROVE  n + 1 \in S
    <3>1. PICK g : Up(g, n)
      BY <2>2
    <3> DEFINE h == [i \in 0 .. n + 1 |-> IF i <= n THEN g[i] ELSE step[g[n]]]
    <3>2. h \in [0 .. n + 1 -> D]
      BY <3>1
    <3>3. h[0] = start
      BY <3>1
    <3>4. ASSUME NEW i \in 0..n
          PROVE  h[i + 1] = step[h[i]]
      <4>1. CASE i = n
        BY <3>1, <4>1
      <4>2. CASE i # n
        <5>1. i \in 0 .. n - 1 /\ i + 1 \in 0 .. n /\ i <= n /\ i + 1 <= n
          BY <4>2
        <5> QED BY <3>1, <5>1
      <4> QED BY <4>1, <4>2
    <3>5. n + 1 - 1 = n
      OBVIOUS
    <3> HIDE DEF h
    <3>6. Up(h, n + 1)
      BY <3>2, <3>3, <3>4, <3>5
    <3> QED BY <3>6
  <2> HIDE DEF S
  <2> QED BY <2>1, <2>2, SetInduction
<1>2. ASSUME NEW m \in Nat, NEW n \in Nat, m <= n, NEW g, NEW h, Up(g, m), Up(h, n)
      PROVE  \A i \in 0..m : g[i] = h[i]
  <2> DEFINE T == {i \in Nat : i <= m => g[i] = h[i]}
  <2>1. 0 \in T
    BY <1>2
  <2>2. ASSUME NEW i \in Nat, i \in T
        PROVE  i + 1 \in T
    <3> SUFFICES ASSUME i + 1 <= m PROVE g[i + 1] = h[i + 1]
      OBVIOUS
    <3>1. i \in 0 .. m - 1 /\ i \in 0 .. n - 1 /\ i <= m
      BY <1>2
    <3> QED BY <1>2, <2>2, <3>1
  <2>3. Nat \subseteq T
    <3> HIDE DEF T
    <3> QED BY <2>1, <2>2, SetInduction
  <2> QED BY <2>3
<1> DEFINE G(n) == CHOOSE g : Up(g, n)
           f == [n \in Nat |-> G(n)[n]]
<1>3. \A n \in Nat : Up(G(n), n)
  <2> TAKE n \in Nat
  <2>1. \E g : Up(g, n)
    BY <1>1
  <2> HIDE DEF Up
  <2> QED BY <2>1
<1> HIDE DEF G
<1>4. f \in [Nat -> D] /\ f[0] = start
  BY <1>3
<1>5. ASSUME NEW n \in Nat
      PROVE  f[n + 1] = step[f[n]]
  <2>1. G(n + 1)[n + 1] = step[G(n + 1)[n]]
    <3>1. Up(G(n + 1), n + 1) /\ n \in 0 .. n + 1 - 1
      BY <1>3
    <3> QED BY <3>1
  <2>2. G(n)[n] = G(n + 1)[n]
    <3>1. /\ n \in Nat /\ n + 1 \in Nat /\ n <= n + 1 /\ n \in 0..n
          /\ Up(G(n), n) /\ Up(G(n + 1), n + 1)
      BY <1>3
    <3> HIDE DEF Up
    <3> QED BY <1>2, <3>1
  <2> QED BY <2>1, <2>2
<1> HIDE DEF f
<1>6. ASSUME NEW n \in Nat, n # 0
      PROVE  f[n - 1] \in D /\ f[n] = step[f[n - 1]]
  <2>1. n - 1 \in Nat /\ n - 1 + 1 = n
    BY <1>6
  <2> QED BY <1>4, <1>5, <2>1
<1> QED BY <1>4, <1>6 DEF IsIteration

\* So can a step that depends on how many have been made.
IsCountedIteration(f, D, step, start) ==
  /\ f \in [Nat -> D]
  /\ f[0] = start
  /\ \A n \in Nat : n # 0 => f[n] = step[<<n, f[n - 1]>>]

LEMMA CountedIterationExists ==
  ASSUME NEW D, NEW step \in [Nat \X D -> D], NEW start \in D
  PROVE  \E f : IsCountedIteration(f, D, step, start)
<1> DEFINE E == Nat \X D
           next == [p \in E |-> <<p[1] + 1, step[<<p[1] + 1, p[2]>>]>>]
<1>1. next \in [E -> E] /\ <<0, start>> \in E
  <2> SUFFICES ASSUME NEW p \in E PROVE next[p] \in E
    OBVIOUS
  <2>1. p[1] + 1 \in Nat /\ p[2] \in D
    OBVIOUS
  <2>2. step[<<p[1] + 1, p[2]>>] \in D
    BY <2>1
  <2> QED BY <2>1, <2>2
<1>2. PICK g : IsIteration(g, E, next, <<0, start>>)
  <2> HIDE DEF E, next
  <2> QED BY <1>1, IterationExists
<1>3. /\ g \in [Nat -> E] /\ g[0] = <<0, start>>
      /\ \A n \in Nat : n # 0 => g[n] = <<g[n - 1][1] + 1, step[<<g[n - 1][1] + 1, g[n - 1][2]>>]>>
  BY <1>2 DEF IsIteration
<1> DEFINE S == {n \in Nat : g[n][1] = n}
<1>4. Nat \subseteq S
  <2>1. 0 \in S
    BY <1>3
  <2>2. ASSUME NEW n \in Nat, n \in S PROVE n + 1 \in S
    <3>1. n + 1 \in Nat /\ n + 1 # 0 /\ n + 1 - 1 = n
      OBVIOUS
    <3>2. g[n + 1] = <<g[n][1] + 1, step[<<g[n][1] + 1, g[n][2]>>]>>
      BY <1>3, <3>1
    <3>3. g[n + 1][1] = g[n][1] + 1
      BY <3>2
    <3> QED BY <2>2, <3>1, <3>3
  <2> HIDE DEF S
  <2> QED BY <2>1, <2>2, SetInduction
<1> DEFINE f == [n \in Nat |-> g[n][2]]
<1>5. f \in [Nat -> D] /\ f[0] = start
  BY <1>3
<1>6. ASSUME NEW n \in Nat, n # 0 PROVE f[n] = step[<<n, f[n - 1]>>]
  <2>1. n - 1 \in Nat /\ g[n - 1][1] = n - 1 /\ n - 1 + 1 = n
    BY <1>4, <1>6
  <2>2. g[n] = <<n, step[<<n, g[n - 1][2]>>]>>
    BY <1>3, <1>6, <2>1
  <2> QED BY <2>1, <2>2
<1> QED BY <1>5, <1>6 DEF IsCountedIteration

-----------------------------------------------------------------------------
(* The store of blocks. *)

\* n steps back from a block are n applications of Parent.
LEMMA AncestorsAre ==
  ASSUME NEW b \in Block
  PROVE  /\ Ancestors(b)[0] = b
         /\ \A n \in Nat : Ancestors(b)[n + 1] = Parent(Ancestors(b)[n])
<1> DEFINE step == [x \in Identifier |-> Parent(x)]
           Def(f) == [n \in Nat |-> IF n = 0 THEN b ELSE Parent(f[n - 1])]
<1>1. step \in [Identifier -> Identifier] /\ b \in Identifier
  BY BlockAssumption DEF Parent, Identifier
<1>2. PICK g : IsIteration(g, Identifier, step, b)
  <2> HIDE DEF step
  <2> QED BY <1>1, IterationExists
<1>3. /\ g \in [Nat -> Identifier] /\ g[0] = b
      /\ \A n \in Nat : n # 0 => g[n] = Parent(g[n - 1])
  BY <1>2 DEF IsIteration
<1>4. g = Def(g)
  BY <1>3
<1>5. Ancestors(b) = CHOOSE f : f = Def(f)
  BY DEF Ancestors
<1>6. Ancestors(b) = Def(Ancestors(b))
  <2> HIDE DEF Def
  <2> QED BY <1>4, <1>5
<1> DEFINE a == Ancestors(b)
<1>7. a = Def(a)
  BY <1>6
<1> HIDE DEF a
<1>8. a[0] = b /\ \A n \in Nat : a[n + 1] = Parent(a[n])
  BY <1>7
<1> QED BY <1>8 DEF a

\* CommitBlock returns b and the ancestors of b, as far as they are stored above the
\* lowest level.
LEMMA CommittedAre ==
  ASSUME NEW f, f.full \subseteq Block, IsFiniteSet(f.full), NEW b \in Block
  PROVE  \E n \in Nat :
           /\ CommittedBlocks(f, b) = [i \in 1..n |-> Ancestors(b)[i - 1]]
           /\ \A i \in 0 .. n - 1 : Ancestors(b)[i] \in f.full /\ Ancestors(b)[i].height > f.lowest
           /\ b \in f.full /\ b.height > f.lowest => n > 0
<1> DEFINE a == Ancestors(b)
           Taken(i) == HasVertex(f, a[i]) /\ a[i].height > f.lowest
           T == {k \in 1 .. Cardinality(f.full) : \A i \in 0 .. k - 1 : Taken(i)}
           n == Cardinality(T)
<1>1. CommittedBlocks(f, b) = [i \in 1..n |-> a[i - 1]]
  BY DEF CommittedBlocks
<1>2. IsFiniteSet(1 .. Cardinality(f.full)) /\ Cardinality(f.full) \in Nat
  BY FS_Interval, FS_CardinalityType
<1>3. IsFiniteSet(T) /\ n \in Nat
  BY <1>2, FS_Subset, FS_CardinalityType
<1>4. a[0] = b
  BY AncestorsAre
<1> HIDE DEF a
<1>5. ASSUME NEW i \in 0 .. n - 1
      PROVE  Taken(i)
  <2> SUFFICES ASSUME ~Taken(i) PROVE FALSE
    OBVIOUS
  <2>1. i \in Nat /\ i < n
    BY <1>3
  <2>2. T \subseteq 1..i
    <3> SUFFICES ASSUME NEW k \in T, k > i PROVE FALSE
      BY <1>2, <2>1
    <3>1. i \in 0 .. k - 1
      BY <1>2, <2>1
    <3> QED BY <3>1
  <2> HIDE DEF T
  <2>3. IsFiniteSet(1..i) /\ Cardinality(1..i) = i
    <3>1. Cardinality(1..i) = IF 1 > i THEN 0 ELSE i - 1 + 1
      BY <2>1, FS_Interval
    <3> QED BY <2>1, <3>1, FS_Interval
  <2>4. n <= i
    BY <2>2, <2>3, FS_Subset
  <2> QED BY <1>3, <2>1, <2>4
<1>6. ASSUME b \in f.full, b.height > f.lowest
      PROVE  n > 0
  <2>1. Cardinality(f.full) # 0
    BY <1>6, FS_EmptySet
  <2>2. 1 \in T
    BY <1>2, <1>4, <1>6, <2>1 DEF HasVertex
  <2> HIDE DEF T
  <2>3. n # 0
    BY <1>3, <2>2, FS_EmptySet
  <2> QED BY <1>3, <2>3
<1> HIDE DEF n
<1> QED BY <1>1, <1>3, <1>5, <1>6 DEF HasVertex, a

\* Adding a block leaves a store of finitely many blocks, with the same lowest level.
LEMMA AddVertexStores ==
  ASSUME NEW f \in Forest, IsFiniteSet(f.full), NEW b \in Block, NEW l \in Level,
         NEW g, g = AddVertex(f, b, l)
  PROVE  g \in Forest /\ IsFiniteSet(g.full) /\ g.lowest = f.lowest
<1> DEFINE Good(h) == h \in Forest /\ IsFiniteSet(h.full) /\ h.lowest = f.lowest
<1>1. ASSUME NEW h, Good(h), NEW id \in Identifier, NEW k \in Level
      PROVE  Good(getOrCreateVertexContainer(h, id, k))
  <2>1. CASE id \in ContainersAt(h, Level)
    BY <1>1, <2>1 DEF getOrCreateVertexContainer
  <2>2. CASE id \notin ContainersAt(h, Level)
    <3>1. Append(h.atLevel[k], id) \in Seq(Identifier)
      BY <1>1 DEF Forest
    <3>2. getOrCreateVertexContainer(h, id, k)
            = [h EXCEPT !.atLevel = [@ EXCEPT ![k] = Append(h.atLevel[k], id)]]
      BY <1>1, <2>2 DEF getOrCreateVertexContainer, Forest
    <3>3. [h.atLevel EXCEPT ![k] = Append(h.atLevel[k], id)] \in [Level -> Seq(Identifier)]
      BY <1>1, <3>1 DEF Forest
    <3> QED BY <1>1, <3>2, <3>3 DEF Forest
  <2> QED BY <2>1, <2>2
<1>2. b.height \in Level /\ b \in Identifier /\ b.prev \in Identifier
  BY BlockAssumption DEF Level, Identifier
<1> DEFINE c == getOrCreateVertexContainer(f, b, b.height)
           d == [c EXCEPT !.full = @ \cup {b}]
<1>3. Good(c)
  BY <1>1, <1>2
<1>4. Good(d)
  <2> HIDE DEF c
  <2>1. IsFiniteSet(c.full \cup {b})
    BY <1>3, FS_AddElement
  <2> QED BY <1>3, <2>1 DEF Forest
<1> HIDE DEF d
<1>5. Good(registerWithParent(d, b, l))
  BY <1>1, <1>2, <1>4 DEF registerWithParent
<1>6. g = f \/ g = registerWithParent(d, b, l)
  BY DEF AddVertex, d
<1> QED BY <1>5, <1>6

\* Pruning leaves a store of fewer blocks.
LEMMA PruneStores ==
  ASSUME NEW f \in Forest, IsFiniteSet(f.full), NEW l \in Level, NEW g, g = PruneUpToLevel(f, l)
  PROVE  g \in Forest /\ IsFiniteSet(g.full)
<1>1. IsFiniteSet(f.full \ ContainersAt(f, f.lowest .. l - 1))
  BY FS_Subset
<1> QED BY <1>1 DEF PruneUpToLevel, Forest

-----------------------------------------------------------------------------
(* The store of a view based replica: the blocks of B, one of each view, are at the
   level of their view, whether they have come or have only been named by a child.  *)

StoreOf(f, B) ==
  /\ f \in Forest /\ IsFiniteSet(f.full)
  /\ \A b \in f.full : b \in B /\ b.height >= f.lowest /\ b \in Range(f.atLevel[b.height])
  /\ \A l \in Level \ {0} : \A id \in Range(f.atLevel[l]) : id \in B /\ id.height = l
  /\ \A id \in Range(f.atLevel[0]) : id = Genesis

\* What a block is
LEMMA TreeBlock ==
  ASSUME NEW B, IsTree(B), NEW b \in B
  PROVE  /\ b \in Block /\ b # Genesis /\ b \in Identifier
         /\ b.height \in Nat /\ b.height \in 1..MaxHeight /\ b.height \in Level \ {0}
         /\ HeightOf(b) = b.height /\ Parent(b) = b.prev
         /\ b.prev \in Identifier /\ b.prev \in B \cup {Genesis}
         /\ b.prev \in Block => b.prev \in B
         /\ HeightOf(b.prev) \in Level
BY BlockAssumption DEF IsTree, Level, Identifier, HeightOf, Parent

\* A block of another height on one that is there makes a larger tree.
LEMMA TreeGrows ==
  ASSUME NEW B, IsTree(B), NEW b \in Block, b.prev \in B \cup {Genesis},
         \A c \in B : c.height # b.height
  PROVE  IsTree(B \cup {b})
<1> DEFINE C == B \cup {b}
<1>1. b \notin B /\ b # Genesis /\ B \subseteq Block
  BY BlockAssumption DEF IsTree
<1>2. /\ C \subseteq Block
      /\ \A c, d \in C : c.height = d.height => c = d
      /\ \A c \in C : c.prev \in C \cup {Genesis}
  BY <1>1 DEF IsTree
<1>3. ASSUME NEW S \in SUBSET C, S # {} PROVE \E c \in S : c.prev \notin S
  <2>1. CASE S \ {b} = {}
    BY <1>1, <1>3, <2>1
  <2>2. CASE S \ {b} # {}
    <3>1. S \ {b} \in SUBSET B
      OBVIOUS
    <3>2. PICK c \in S \ {b} : c.prev \notin S \ {b}
      BY <2>2, <3>1 DEF IsTree
    <3>3. c.prev # b
      BY <1>1, <3>1 DEF IsTree
    <3> QED
      BY <3>2, <3>3
  <2> QED
    BY <2>1, <2>2
<1> HIDE DEF C
<1>4. IsTree(C)
  BY <1>2, <1>3 DEF IsTree
<1> QED
  BY <1>4 DEF C

\* g is f with a container for id, at level k if it is a new one.
HasContainer(g, f, id, k) ==
  /\ g \in Forest /\ g.full = f.full /\ g.lowest = f.lowest
  /\ \A l \in Level :
       /\ Range(f.atLevel[l]) \subseteq Range(g.atLevel[l])
       /\ \A x \in Range(g.atLevel[l]) :
            x \in Range(f.atLevel[l]) \/ (x = id /\ l = k)
  /\ id \notin ContainersAt(f, Level) => id \in Range(g.atLevel[k])

LEMMA ContainerIs ==
  ASSUME NEW f \in Forest, NEW id \in Identifier, NEW k \in Level,
         NEW g, g = getOrCreateVertexContainer(f, id, k)
  PROVE  HasContainer(g, f, id, k)
<1>1. CASE id \in ContainersAt(f, Level)
  BY <1>1 DEF getOrCreateVertexContainer, HasContainer
<1>2. CASE id \notin ContainersAt(f, Level)
  <2> DEFINE A == Append(f.atLevel[k], id)
  <2>1. /\ f.atLevel[k] \in Seq(Identifier) /\ f.atLevel \in [Level -> Seq(Identifier)]
        /\ f.full \in SUBSET Block /\ f.lowest \in Level
    BY DEF Forest
  <2>2. A \in Seq(Identifier) /\ Range(A) = Range(f.atLevel[k]) \cup {id}
    <3> DEFINE C == f.atLevel[k]
               n == Len(C)
    <3>1. /\ n \in Nat /\ DOMAIN C = 1..n /\ DOMAIN A = 1 .. n + 1 /\ A \in Seq(Identifier)
          /\ \A i \in 1..n : A[i] = C[i]
          /\ A[n + 1] = id
      BY <2>1
    <3> HIDE DEF A, C, n
    <3>2. Range(C) = {C[i] : i \in 1..n} /\ Range(A) = {A[i] : i \in 1 .. n + 1}
      BY <3>1 DEF Range
    <3>3. \A i \in 1 .. n + 1 : i \in 1..n \/ i = n + 1
      BY <3>1
    <3>4. 1..n \subseteq 1 .. n + 1 /\ n + 1 \in 1 .. n + 1
      BY <3>1
    <3> QED BY <3>1, <3>2, <3>3, <3>4 DEF C
  <2>3. g = [f EXCEPT !.atLevel = [f.atLevel EXCEPT ![k] = A]]
    BY <1>2, <2>1 DEF getOrCreateVertexContainer, Forest
  <2> HIDE DEF A
  <2>4. [f.atLevel EXCEPT ![k] = A] \in [Level -> Seq(Identifier)]
    BY <2>1, <2>2
  <2>5. /\ g \in Forest /\ g.full = f.full /\ g.lowest = f.lowest
        /\ g.atLevel = [f.atLevel EXCEPT ![k] = A]
    BY <2>3, <2>4 DEF Forest
  <2>6. \A l \in Level : g.atLevel[l] = IF l = k THEN A ELSE f.atLevel[l]
    BY <2>1, <2>5
  <2> QED BY <2>2, <2>5, <2>6 DEF HasContainer
<1> QED BY <1>1, <1>2

\* A block is added at its level, and its parent is named at the level of its own, if it
\* has no container yet.
LEMMA StoreAdds ==
  ASSUME NEW B, IsTree(B), NEW f, StoreOf(f, B), NEW b \in B, ~HasVertex(f, b),
         NEW p \in Level, p = HeightOf(b.prev) \/ HasVertex(f, b.prev),
         NEW g, g = AddVertex(f, b, p)
  PROVE  StoreOf(g, B) /\ g.lowest = f.lowest /\ g.full \in {f.full, f.full \cup {b}}
<1> DEFINE c == getOrCreateVertexContainer(f, b, b.height)
           d == [c EXCEPT !.full = @ \cup {b}]
           e == getOrCreateVertexContainer(d, b.prev, p)
<1>1. CASE b.height < f.lowest
  BY <1>1 DEF AddVertex
<1>2. CASE ~(b.height < f.lowest)
  <2>1. g \in {d, e}
    BY <1>2 DEF AddVertex, registerWithParent
  <2>2. /\ b \in Identifier /\ b.height \in Level \ {0} /\ b.prev \in Identifier /\ 0 \in Level
        /\ b # Genesis /\ b \in Block /\ b.height \in Nat
    BY TreeBlock, BlockAssumption DEF Level
  <2>3. f \in Forest /\ IsFiniteSet(f.full) /\ f.lowest \in Nat
    BY DEF StoreOf, Forest, Level
  <2>10. c = getOrCreateVertexContainer(f, b, b.height)
    OBVIOUS
  <2> HIDE DEF c
  <2>5. /\ c \in Forest /\ c.full = f.full /\ c.lowest = f.lowest
        /\ \A l \in Level :
             /\ Range(f.atLevel[l]) \subseteq Range(c.atLevel[l])
             /\ \A x \in Range(c.atLevel[l]) :
                  x \in Range(f.atLevel[l]) \/ (x = b /\ l = b.height)
        /\ b \in Range(c.atLevel[b.height])
    <3>1. b.height \in Level
      BY <2>2
    <3>2. HasContainer(c, f, b, b.height)
      BY <2>2, <2>3, <2>10, <3>1, ContainerIs
    <3>3. ASSUME b \in ContainersAt(f, Level) PROVE b \in Range(f.atLevel[b.height])
      <4>1. PICK l \in Level : b \in Range(f.atLevel[l])
        BY <3>3 DEF ContainersAt
      <4>2. l # 0
        BY <2>2, <4>1 DEF StoreOf
      <4>3. b.height = l
        BY <4>1, <4>2 DEF StoreOf
      <4> QED BY <4>1, <4>3
    <3> QED BY <3>1, <3>2, <3>3 DEF HasContainer
  <2>6. IsFiniteSet(f.full \cup {b})
    BY <2>3, FS_AddElement
  <2>7. /\ d \in Forest /\ d.full = f.full \cup {b} /\ d.lowest = f.lowest
        /\ d.atLevel = c.atLevel
    BY <2>2, <2>5 DEF Forest
  <2> HIDE DEF d
  <2>8. StoreOf(d, B)
    <3>1. \A x \in d.full : x \in B /\ x.height >= d.lowest /\ x \in Range(d.atLevel[x.height])
      <4> SUFFICES ASSUME NEW x \in d.full
                   PROVE  x \in B /\ x.height >= d.lowest /\ x \in Range(d.atLevel[x.height])
        OBVIOUS
      <4>1. CASE x = b
        BY <1>2, <2>2, <2>3, <2>5, <2>7, <4>1
      <4>2. CASE x \in f.full
        <5>1. x \in B /\ x.height >= f.lowest /\ x \in Range(f.atLevel[x.height])
          BY <4>2 DEF StoreOf
        <5>2. x.height \in Level
          BY <5>1, TreeBlock
        <5> QED BY <2>5, <2>7, <5>1, <5>2
      <4> QED BY <2>7, <4>1, <4>2
    <3>2. \A l \in Level \ {0} : \A x \in Range(d.atLevel[l]) : x \in B /\ x.height = l
      BY <2>5, <2>7 DEF StoreOf
    <3>3. \A x \in Range(d.atLevel[0]) : x = Genesis
      BY <2>2, <2>5, <2>7 DEF StoreOf
    <3> QED BY <2>6, <2>7, <3>1, <3>2, <3>3 DEF StoreOf
  <2>9. StoreOf(e, B) /\ e.lowest = d.lowest /\ e.full = d.full
    <3>1. CASE b.prev \in ContainersAt(d, Level)
      BY <2>8, <3>1 DEF getOrCreateVertexContainer
    <3>2. CASE b.prev \notin ContainersAt(d, Level)
      <4>1. p = HeightOf(b.prev)
        <5> SUFFICES ASSUME HasVertex(f, b.prev) PROVE FALSE
          OBVIOUS
        <5>1. b.prev \in d.full
          BY <2>7 DEF HasVertex
        <5>2. b.prev \in Range(d.atLevel[b.prev.height]) /\ b.prev \in B
          BY <2>8, <5>1 DEF StoreOf
        <5>3. b.prev.height \in Level
          BY <5>2, TreeBlock
        <5> QED BY <3>2, <5>2, <5>3 DEF ContainersAt
      <4>4. e = getOrCreateVertexContainer(d, b.prev, p)
        OBVIOUS
      <4> HIDE DEF e
      <4>2. /\ e \in Forest /\ e.full = d.full /\ e.lowest = d.lowest
            /\ \A l \in Level :
                 /\ Range(d.atLevel[l]) \subseteq Range(e.atLevel[l])
                 /\ \A x \in Range(e.atLevel[l]) :
                      x \in Range(d.atLevel[l]) \/ (x = b.prev /\ l = p)
        <5>1. HasContainer(e, d, b.prev, p)
          BY <2>2, <2>7, <4>4, ContainerIs
        <5> QED BY <5>1 DEF HasContainer
      <4>3. \A x \in d.full : x.height \in Level
        BY <2>8, TreeBlock DEF StoreOf
      <4>5. /\ p = 0 => b.prev = Genesis
            /\ p # 0 => b.prev \in B /\ b.prev.height = p
        <5>1. CASE b.prev = Genesis
          BY <4>1, <5>1 DEF HeightOf
        <5>2. CASE b.prev # Genesis
          <6>1. b.prev \in B
            BY <5>2, TreeBlock
          <6>2. p = b.prev.height /\ b.prev.height \in Level \ {0}
            BY <4>1, <6>1, TreeBlock
          <6> QED BY <6>1, <6>2
        <5> QED BY <5>1, <5>2
      <4>6. \A x \in e.full : x \in B /\ x.height >= e.lowest /\ x \in Range(e.atLevel[x.height])
        BY <2>8, <4>2, <4>3 DEF StoreOf
      <4>7. \A l \in Level \ {0} : \A x \in Range(e.atLevel[l]) : x \in B /\ x.height = l
        BY <2>8, <4>2, <4>5 DEF StoreOf
      <4>8. \A x \in Range(e.atLevel[0]) : x = Genesis
        BY <2>2, <2>8, <4>2, <4>5 DEF StoreOf
      <4> QED BY <2>8, <4>2, <4>6, <4>7, <4>8 DEF StoreOf
    <3> QED BY <3>1, <3>2
  <2> QED BY <2>1, <2>7, <2>8, <2>9
<1> QED BY <1>1, <1>2

\* Pruning takes whole levels away.
LEMMA StorePrunes ==
  ASSUME NEW B, IsTree(B), NEW f, StoreOf(f, B), NEW b \in B, NEW g, g = PruneUpToLevel(f, b.height)
  PROVE  StoreOf(g, B) /\ g.lowest = b.height
<1> DEFINE pruned == f.lowest .. b.height - 1
<1>1. /\ f \in Forest /\ IsFiniteSet(f.full) /\ f.lowest \in Nat /\ b.height \in Nat
      /\ b.height \in Level
  BY TreeBlock DEF StoreOf, Forest, Level
<1>2. g \in Forest /\ IsFiniteSet(g.full)
  BY <1>1, PruneStores
<1>3. /\ \A l \in Level : g.atLevel[l] = IF l \in pruned THEN <<>> ELSE f.atLevel[l]
      /\ g.full = f.full \ ContainersAt(f, pruned) /\ g.lowest = b.height
  BY DEF PruneUpToLevel
<1>4. Range(<<>>) = {}
  BY DEF Range
<1>6. ASSUME NEW x \in g.full
      PROVE  x \in B /\ x.height >= g.lowest /\ x \in Range(g.atLevel[x.height])
  <2>1. x \in B /\ x.height >= f.lowest /\ x \in Range(f.atLevel[x.height])
    BY <1>3 DEF StoreOf
  <2>2. x.height \in Level /\ x.height \in Nat
    BY <2>1, TreeBlock
  <2>3. x.height \notin pruned
    BY <1>3, <2>1 DEF ContainersAt
  <2> QED BY <1>1, <1>3, <2>1, <2>2, <2>3
<1>7. ASSUME NEW l \in Level, NEW x \in Range(g.atLevel[l])
      PROVE  x \in Range(f.atLevel[l])
  BY <1>3, <1>4
<1> HIDE DEF pruned
<1> QED
  <2>1. 0 \in Level
    BY BlockAssumption DEF Level
  <2>2. \A l \in Level \ {0} : \A x \in Range(g.atLevel[l]) : x \in B /\ x.height = l
    BY <1>7 DEF StoreOf
  <2>3. \A x \in Range(g.atLevel[0]) : x = Genesis
    BY <1>7, <2>1 DEF StoreOf
  <2> QED BY <1>2, <1>3, <1>6, <2>2, <2>3 DEF StoreOf

\* Blocks of B from which one always gets to another one of B: there are none.
LEMMA NoEndlessWay ==
  ASSUME NEW B, IsTree(B), NEW S, S \subseteq B, \A b \in S : b.prev \in S
  PROVE  S = {}
BY DEF IsTree

\* Blocks on the way back from b never come again, and there are at most as many as views.
LEMMA WayBack ==
  ASSUME NEW B, IsTree(B), NEW b \in B, NEW n \in Nat,
         \A k \in 0 .. n - 1 : Ancestors(b)[k] \in B
  PROVE  /\ \A i, j \in 0 .. n - 1 : Ancestors(b)[i].height = Ancestors(b)[j].height => i = j
         /\ n <= MaxHeight
<1> DEFINE a == Ancestors(b)
<1>1. b \in Block
  BY TreeBlock
<1>2. a[0] = b /\ \A k \in Nat : a[k + 1] = Parent(a[k])
  BY <1>1, AncestorsAre
<1>3. \A k \in 0 .. n - 1 : a[k] \in B
  OBVIOUS
<1> HIDE DEF a
<1>4. \A k \in 0 .. n - 1 : a[k].prev = a[k + 1] /\ a[k].height \in 1..MaxHeight
  BY <1>2, <1>3, TreeBlock
<1>5. ASSUME NEW i \in 0 .. n - 1, NEW j \in 0 .. n - 1, i < j, a[i].height = a[j].height
      PROVE  FALSE
  <2> DEFINE S == {a[k] : k \in i .. j - 1}
  <2>1. a[i] = a[j]
    BY <1>3, <1>5 DEF IsTree
  <2>2. ASSUME NEW k \in i .. j - 1 PROVE a[k] \in B /\ a[k].prev \in S
    <3>1. k \in 0 .. n - 1 /\ a[k].prev = a[k + 1]
      BY <1>4, <1>5
    <3>4. a[k + 1] \in S
      <4>1. i \in i .. j - 1 /\ (k + 1 = j \/ k + 1 \in i .. j - 1)
        BY <1>5
      <4>2. a[i] \in S /\ (k + 1 \in i .. j - 1 => a[k + 1] \in S)
        BY <4>1
      <4> HIDE DEF S
      <4> QED BY <2>1, <4>1, <4>2
    <3> QED BY <1>3, <3>1, <3>4
  <2>3. a[i] \in S
    <3>1. i \in i .. j - 1
      BY <1>5
    <3> QED BY <3>1
  <2>4. S \subseteq B /\ \A x \in S : x.prev \in S
    BY <2>2
  <2> HIDE DEF S
  <2> QED BY <2>3, <2>4, NoEndlessWay
<1>6. \A i, j \in 0 .. n - 1 : a[i].height = a[j].height => i = j
  <2> SUFFICES ASSUME NEW i \in 0 .. n - 1, NEW j \in 0 .. n - 1, a[i].height = a[j].height
               PROVE  i = j
    OBVIOUS
  <2>1. ~(i < j) /\ ~(j < i)
    BY <1>5
  <2> QED BY <2>1
<1>7. n <= MaxHeight
  <2> SUFFICES ASSUME MaxHeight < n PROVE FALSE
    BY BlockAssumption
  <2> DEFINE f == [k \in 1..n |-> a[k - 1].height]
  <2>1. f \in [1..n -> 1..MaxHeight]
    BY <1>4
  <2>2. /\ IsFiniteSet(1..n) /\ Cardinality(1..n) = n
        /\ IsFiniteSet(1..MaxHeight) /\ Cardinality(1..MaxHeight) = MaxHeight
    <3>1. \A m \in Nat : IsFiniteSet(1..m) /\ Cardinality(1..m) = m
      <4> TAKE m \in Nat
      <4>1. Cardinality(1..m) = IF 1 > m THEN 0 ELSE m - 1 + 1
        BY FS_Interval
      <4> QED BY <4>1, FS_Interval
    <3> QED BY <3>1, BlockAssumption
  <2>3. \E x, y \in 1..n : x # y /\ f[x] = f[y]
    <3> HIDE DEF f
    <3> QED BY <2>1, <2>2, FS_PigeonHole
  <2>4. PICK x \in 1..n, y \in 1..n : x # y /\ a[x - 1].height = a[y - 1].height
    BY <2>3
  <2>5. x - 1 \in 0 .. n - 1 /\ y - 1 \in 0 .. n - 1
    OBVIOUS
  <2>6. x - 1 = y - 1
    BY <1>6, <2>4, <2>5
  <2> QED BY <2>4, <2>6
<1> QED BY <1>6, <1>7 DEF a

\* Ancestors of a block of B are in B, or there is no more of them.
LEMMA AncestorMade ==
  ASSUME NEW B, IsTree(B), NEW b \in B, NEW n \in Nat
  PROVE  Ancestors(b)[n] \in B \cup {Genesis}
<1> DEFINE a == Ancestors(b)
           S == {k \in Nat : a[k] \in B \cup {Genesis}}
<1>1. a[0] = b /\ \A k \in Nat : a[k + 1] = Parent(a[k])
  BY TreeBlock, AncestorsAre
<1> HIDE DEF a
<1>2. 0 \in S /\ \A k \in Nat : k \in S => k + 1 \in S
  BY <1>1, TreeBlock DEF Parent
<1>3. Nat \subseteq S
  <2> HIDE DEF S
  <2> QED BY <1>2, SetInduction
<1> QED BY <1>3 DEF a

LEMMA AncestorsMade ==
  ASSUME NEW B, IsTree(B), NEW b \in B, NEW n \in Nat, Ancestors(b)[n] \in B
  PROVE  \A k \in 0..n : Ancestors(b)[k] \in B
<1> DEFINE a == Ancestors(b)
           S == {m \in Nat : a[m] \in B => \A k \in 0..m : a[k] \in B}
<1>1. a[0] = b /\ \A k \in Nat : a[k + 1] = Parent(a[k])
  BY TreeBlock, AncestorsAre
<1>2. \A k \in Nat : a[k] \in B \cup {Genesis}
  BY AncestorMade
<1> HIDE DEF a
<1>3. 0 \in S
  OBVIOUS
<1>4. ASSUME NEW m \in Nat, m \in S PROVE m + 1 \in S
  <2> SUFFICES ASSUME a[m + 1] \in B, NEW k \in 0 .. m + 1 PROVE a[k] \in B
    OBVIOUS
  <2>1. a[m] # Genesis
    BY <1>1, TreeBlock DEF Parent
  <2>2. k \in 0..m \/ k = m + 1
    OBVIOUS
  <2> QED BY <1>2, <1>4, <2>1, <2>2
<1>5. Nat \subseteq S
  <2> HIDE DEF S
  <2> QED BY <1>3, <1>4, SetInduction
<1>6. a[n] \in B
  BY DEF a
<1> QED BY <1>5, <1>6 DEF a

\* The loop of PruneUpToLevel comes to its end: every level it comes to has a block, the
\* only one of its view, and the parent of that block has not been met before.
LEMMA PruneComesBack ==
  ASSUME NEW B, IsTree(B), NEW f, StoreOf(f, B), NEW b \in f.full
  PROVE  PruneReturns(f, b.height)
<1> DEFINE Stop(l) == l < f.lowest \/ l <= 1
           D == {0} \cup {c.height : c \in f.full}
           Def(g) == [n \in Nat |-> IF n = 0 THEN b.height ELSE PruneStep(f, g[n - 1])]
           at == CHOOSE g : g = Def(g)
           a == Ancestors(b)
<1>1. /\ f.lowest \in Nat /\ MaxHeight \in Nat /\ b \in B /\ b \in Block /\ b.height \in D
  BY TreeBlock, BlockAssumption DEF StoreOf, Forest, Level
<1>2. ASSUME NEW c \in f.full
      PROVE  /\ c \in B /\ c.height \in Nat /\ c.height # Panic
             /\ Stop(c.height) => PruneStep(f, c.height) = c.height
             /\ ~Stop(c.height) => \/ PruneStep(f, c.height) = 0
                                  \/ /\ c.prev \in f.full
                                     /\ PruneStep(f, c.height) = c.prev.height
  <2> DEFINE l == c.height
  <2>1. c \in B /\ l \in Nat /\ l <= MaxHeight /\ l \in Level \ {0}
    BY TreeBlock DEF StoreOf
  <2>2. l # Panic
    BY <1>1, <2>1 DEF Panic
  <2>3. CASE Stop(l)
    BY <2>1, <2>2, <2>3 DEF PruneStep
  <2>4. CASE ~Stop(l)
    <3> DEFINE C == f.atLevel[l]
               first == C[1]
    <3>3. c \in Range(C) /\ C \in Seq(Identifier)
      BY <2>1 DEF StoreOf, Forest
    <3>4. C # <<>> /\ first \in Range(C)
      <4> HIDE DEF C
      <4>1. DOMAIN C # {}
        BY <3>3 DEF Range
      <4>2. C # <<>> /\ 1 \in DOMAIN C
        BY <3>3, <4>1
      <4> QED BY <4>2 DEF Range
    <3>5. first = c
      <4>1. first \in B /\ first.height = l
        BY <2>1, <3>4 DEF StoreOf
      <4> QED BY <2>1, <4>1 DEF IsTree
    <3> HIDE DEF first, C
    <3>6. PruneStep(f, l) = IF ~HasVertex(f, c.prev) \/ c.prev.height < f.lowest
                            THEN Over ELSE c.prev.height
      BY <2>2, <2>4, <3>4, <3>5 DEF PruneStep, HasVertex, first, C
    <3> QED BY <2>1, <2>2, <2>4, <3>6 DEF HasVertex, Over
  <2> QED BY <2>1, <2>2, <2>3, <2>4
<1>3. PruneReturns(f, b.height) = (at[MaxHeight] # Panic /\ Stop(at[MaxHeight]))
  BY DEF PruneReturns
<1> HIDE DEF Stop
<1>9. PruneStep(f, 0) = 0 /\ Stop(0) /\ 0 # Panic
  BY <1>1 DEF PruneStep, Stop, Panic
<1>10. ASSUME NEW l \in D
       PROVE  /\ PruneStep(f, l) \in D /\ l # Panic
              /\ Stop(l) => PruneStep(f, l) = l
  BY <1>2, <1>9
<1>4. at = Def(at)
  <2> DEFINE step == [l \in D |-> PruneStep(f, l)]
  <2>1. step \in [D -> D]
    BY <1>10
  <2>2. PICK g : IsIteration(g, D, step, b.height)
    <3> HIDE DEF step, D
    <3> QED BY <1>1, <2>1, IterationExists
  <2>3. /\ g \in [Nat -> D] /\ g[0] = b.height
        /\ \A n \in Nat : n # 0 => g[n] = PruneStep(f, g[n - 1])
    BY <2>2 DEF IsIteration
  <2>4. g = Def(g)
    BY <2>3
  <2> HIDE DEF Def
  <2> QED BY <2>4
<1> HIDE DEF at
<1>5. at[0] = b.height /\ \A n \in Nat : at[n + 1] = PruneStep(f, at[n])
  BY <1>4
<1>11. a[0] = b /\ \A n \in Nat : a[n + 1] = Parent(a[n])
  BY <1>1, AncestorsAre
<1> DEFINE S == {n \in Nat : /\ at[n] \in D
                             /\ \/ Stop(at[n])
                                \/ /\ at[n] = a[n].height
                                   /\ \A k \in 0..n : a[k] \in f.full}
<1> HIDE DEF a, D
<1>6. Nat \subseteq S
  <2>1. 0 \in S
    BY <1>1, <1>5, <1>11
  <2>2. ASSUME NEW n \in Nat, n \in S PROVE n + 1 \in S
    <3>1. at[n + 1] = PruneStep(f, at[n]) /\ at[n + 1] \in D
      BY <1>5, <1>10, <2>2
    <3>3. CASE Stop(at[n])
      BY <1>10, <2>2, <3>1, <3>3
    <3>4. CASE ~Stop(at[n])
      <4>1. at[n] = a[n].height /\ \A k \in 0..n : a[k] \in f.full
        BY <2>2, <3>4
      <4>2. a[n] \in f.full
        BY <4>1
      <4>3. a[n + 1] = a[n].prev
        BY <1>2, <1>11, <4>2, TreeBlock
      <4>4. CASE at[n + 1] = 0
        BY <1>9, <3>1, <4>4
      <4>5. CASE at[n + 1] # 0
        <5>1. a[n + 1] \in f.full /\ at[n + 1] = a[n + 1].height
          BY <1>2, <3>1, <3>4, <4>1, <4>2, <4>3, <4>5
        <5>2. \A k \in 0 .. n + 1 : k \in 0..n \/ k = n + 1
          OBVIOUS
        <5> QED BY <3>1, <4>1, <5>1, <5>2
      <4> QED BY <4>4, <4>5
    <3> QED BY <3>3, <3>4
  <2> HIDE DEF S
  <2> QED BY <2>1, <2>2, SetInduction
<1>7. /\ at[MaxHeight] \in D
      /\ Stop(at[MaxHeight]) \/ \A k \in 0..MaxHeight : a[k] \in f.full
  BY <1>1, <1>6
<1>8. Stop(at[MaxHeight])
  <2> SUFFICES ASSUME \A k \in 0..MaxHeight : a[k] \in f.full PROVE FALSE
    BY <1>7
  <2>1. \A k \in 0 .. MaxHeight + 1 - 1 : a[k] \in B
    BY <1>1, <1>2
  <2>2. MaxHeight + 1 <= MaxHeight
    BY <1>1, <2>1, WayBack DEF a
  <2> QED BY <1>1, <2>2
<1> QED BY <1>3, <1>7, <1>8, <1>10

=============================================================================
