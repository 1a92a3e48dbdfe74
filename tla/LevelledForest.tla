--------------------------- MODULE LevelledForest ---------------------------
(***************************************************************************)
(* blockchain/leveled_forrest.go and blockchain/blockchain.go as operators *)
(* on a value: the store of blocks every replica keeps, indexed by level.  *)
(* blockchain_view/ has the same code: its blocks have a view in the place *)
(* of a height, and the level they claim for their parent is another one.  *)
(*                                                                         *)
(* A block is its own identifier: crypto.MakeID hashes height, rank,       *)
(* proposer, payload hash and PrevID, and the hash is taken as injective,  *)
(* so that a block holds its whole ancestry in the field prev.             *)
(*                                                                         *)
(* A forest is a record                                                    *)
(*   atLevel  verticesAtLevel: for each level the containers, oldest first *)
(*   full     the identifiers whose container holds a vertex               *)
(*   lowest   LowestLevel                                                  *)
(* The map `vertices` of the code is the set of all containers.  The       *)
(* children lists are never read by the protocols and are left out.        *)
(***************************************************************************)
EXTENDS Naturals, Sequences, FiniteSets, SequencesExt

CONSTANTS Block,      \* the blocks that may ever be made (bounds a run)
          Genesis,    \* crypto.MakeID("genesis"): an identifier without block
          MaxHeight   \* no block of Block is higher

ASSUME BlockAssumption ==
  /\ MaxHeight \in Nat \ {0}
  /\ Genesis \notin Block
  /\ \A b \in Block : /\ b.height \in 1..MaxHeight
                      /\ b.prev \in Block \cup {Genesis}

Level == 0..MaxHeight

Identifier == Block \cup {Genesis}

HeightOf(id) == IF id = Genesis THEN 0 ELSE id.height

Forest == [atLevel : [Level -> Seq(Identifier)], full : SUBSET Block, lowest : Level]

NewLevelledForest ==
  [atLevel |-> [l \in Level |-> <<>>], full |-> {}, lowest |-> 0]

\* A set of blocks as the leaders of the views make them: one in a view, each
\* on a block that was made before it, since it contains the hash of it.
IsTree(B) ==
  /\ B \subseteq Block
  /\ \A b, c \in B : b.height = c.height => b = c
  /\ \A b \in B : b.prev \in B \cup {Genesis}
  /\ \A S \in SUBSET B : S # {} => \E b \in S : b.prev \notin S

ContainersAt(f, L) == UNION {Range(f.atLevel[l]) : l \in L}

HasVertex(f, id) == id \in f.full

-----------------------------------------------------------------------------
(* Adding a block. *)

\* Mutant: the newest container comes first.
MutantGetOrCreate(f, id, level) ==
  IF id \in ContainersAt(f, Level)
  THEN f
  ELSE [f EXCEPT !.atLevel[level] = <<id>> \o @]

\* A container that exists keeps the level it was created with, whatever
\* level is asked for.
getOrCreateVertexContainer(f, id, level) ==
  IF id \in ContainersAt(f, Level)
  THEN f
  ELSE [f EXCEPT !.atLevel[level] = Append(@, id)]

ContainerLevel(f, id) == CHOOSE l \in Level : id \in Range(f.atLevel[l])

\* parentLevel is the level Vertex.Parent() claims for the parent.
registerWithParent(f, b, parentLevel) ==
  IF ContainerLevel(f, b) <= f.lowest \/ parentLevel < f.lowest
  THEN f
  ELSE getOrCreateVertexContainer(f, b.prev, parentLevel)

\* Mutant: the levels of the block and of its parent are swapped.
MutantAddVertex(f, b, parentLevel) ==
  IF b.height < f.lowest \/ HasVertex(f, b)
  THEN f
  ELSE LET g == getOrCreateVertexContainer(f, b, parentLevel)
       IN  registerWithParent([g EXCEPT !.full = @ \cup {b}], b, b.height)

AddVertex(f, b, parentLevel) ==
  IF b.height < f.lowest \/ HasVertex(f, b)
  THEN f
  ELSE LET g == getOrCreateVertexContainer(f, b, b.height)
       IN  registerWithParent([g EXCEPT !.full = @ \cup {b}], b, parentLevel)

-----------------------------------------------------------------------------
(* Committing a block. *)

\* The loop of PruneUpToLevel that looks for the committed levels goes from a
\* level to the level of the parent of the FIRST container it finds there.
\* Over and Panic are the two ways to leave it: no level to go on from, and a
\* level without container (index out of range) or whose first container is
\* empty (nil vertex).
Over == 0
Panic == MaxHeight + 1

PruneStep(f, l) ==
  IF l = Panic \/ l < f.lowest \/ l <= 1 THEN l
  ELSE IF f.atLevel[l] = <<>> \/ ~HasVertex(f, f.atLevel[l][1]) THEN Panic
  ELSE LET parent == f.atLevel[l][1].prev
       IN  IF ~HasVertex(f, parent) \/ parent.height < f.lowest
           THEN Over
           ELSE parent.height

\* The loop comes to its end iff it has done so after MaxHeight iterations:
\* otherwise it has met a level twice and goes round forever.
PruneReturns(f, level) ==
  LET at[n \in Nat] == IF n = 0 THEN level ELSE PruneStep(f, at[n - 1])
      last == at[MaxHeight]
  IN  last # Panic /\ (last < f.lowest \/ last <= 1)

\* What PruneUpToLevel leaves.  The blocks it reports as forked go to a
\* channel whose reader only logs them.
PruneUpToLevel(f, level) ==
  LET pruned == f.lowest .. level - 1
  IN  [atLevel |-> [l \in Level |-> IF l \in pruned THEN <<>> ELSE f.atLevel[l]],
       full    |-> f.full \ ContainersAt(f, pruned),
       lowest  |-> level]

Parent(id) == IF id = Genesis THEN Genesis ELSE id.prev

\* Ancestors(b)[n]: n steps back from b
Ancestors(b) ==
  LET back[n \in Nat] == IF n = 0 THEN b ELSE Parent(back[n - 1])
  IN  back

\* The blocks CommitBlock returns, newest first: b and its ancestors as long
\* as they are stored and above the lowest level.
CommittedBlocks(f, b) ==
  LET back == Ancestors(b)
      Taken(i) == HasVertex(f, back[i]) /\ back[i].height > f.lowest
      n == Cardinality({k \in 1 .. Cardinality(f.full) : \A i \in 0 .. k - 1 : Taken(i)})
  IN  [i \in 1..n |-> back[i - 1]]
=============================================================================
