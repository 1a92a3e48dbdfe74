----------------------------- MODULE TotalOrder -----------------------------
(***************************************************************************)
(* What the consensus protocols promise their user: every replica delivers *)
(* blocks, and the sequences of any two replicas are one a prefix of the   *)
(* other at every moment.                                                  *)
(***************************************************************************)
EXTENDS Sequences, SequencesExt

CONSTANT Replica

VARIABLE delivered   \* delivered[r]: what r has delivered, oldest first

Comparable(s, t) == IsPrefix(s, t) \/ IsPrefix(t, s)

Init == delivered = [r \in Replica |-> <<>>]

\* r delivers one or more blocks.
Deliver(r) ==
  /\ \A q \in Replica \ {r} : delivered'[q] = delivered[q]
  /\ IsStrictPrefix(delivered[r], delivered'[r])
  /\ \A q \in Replica : Comparable(delivered'[r], delivered[q])

Next == \E r \in Replica : Deliver(r)

Spec == Init /\ [][Next]_delivered
=============================================================================
