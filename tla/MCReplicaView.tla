--------------------------- MODULE MCReplicaView ----------------------------
(* ReplicaView for TLC: Block is made of the views and chain lengths below *)
(* the bounds.                                                             *)
EXTENDS ReplicaView

CONSTANT MaxChain  \* bound: the longest chain of blocks

MCBlock ==
  LET chains[n \in 0..MaxChain] ==
        IF n = 0 THEN {}
        ELSE {b \in [height   : 1..MaxHeight,
                     proposer : 1..N,
                     prev     : chains[n - 1] \cup {Genesis}] :
                b.proposer = Leader(b.height)}
  IN  chains[MaxChain]
=============================================================================
