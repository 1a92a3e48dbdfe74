----------------------------- MODULE MCReplica ------------------------------
(* Replica for TLC: Block is made of the heights, ranks and chain lengths   *)
(* below the bounds, and some links are cut to keep the runs small.  A cut  *)
(* link is a link on which every message is late.                           *)
EXTENDS Replica

CONSTANT MaxChain  \* bound: the longest chain of blocks

AllReplicas == 1..N
AllLinks == AllReplicas \X AllReplicas

\* Replicas 2..N hear only of replica 1.
StarLinks == {l \in AllLinks : 1 \in {l[1], l[2]}}
\* Nobody hears of replicas 3..N.
ListenerLinks == {l \in AllLinks : l[2] \in {1, 2}}
\* Replica 1 is cut off.
WithoutOneLinks == (2..N) \X (2..N)

\* How far messages may overtake others, those for replica N at most;
\* Unbounded is more than a log gets long.
Unbounded == 99
InOrder == [l \in AllLinks |-> 0]
OvertakeOne == [l \in AllLinks |-> IF l[1] = N THEN 1 ELSE 0]
OvertakeToLast == [l \in AllLinks |-> IF l[1] = N THEN Unbounded ELSE 0]

LeaderOf(height, rank) == ((height - 1 + rank) % N) + 1

MCBlock ==
  LET chains[n \in 0..MaxChain] ==
        IF n = 0 THEN {}
        ELSE {b \in [height   : 1..MaxHeight,
                     rank     : 0..MaxRank,
                     proposer : 1..N,
                     prev     : chains[n - 1] \cup {Genesis}] :
                b.proposer = LeaderOf(b.height, b.rank)}
  IN  chains[MaxChain]
=============================================================================
