---------------------------- MODULE MCTransport -----------------------------
(* Transport for TLC: two goroutines of node 1 send to node 2, and one of   *)
(* node 2, which may be silent, to node 3.                                  *)
EXTENDS Transport

MCSender == {[node |-> 1, g |-> "loop",  to |-> 2],
             [node |-> 1, g |-> "local", to |-> 2],
             [node |-> 2, g |-> "loop",  to |-> 3]}

MCMaxSends == [s \in MCSender |-> IF s.node = 1 /\ s.g = "loop" THEN 3 ELSE 1]
=============================================================================
