---------------------------- MODULE MCGo2Bridge ----------------------------
(* TLC instances of Go2Bridge.                                             *)
EXTENDS Go2Bridge

CONSTANTS r1, r2, r3

MCRequests    == {r1, r2, r3}
MCTwoRequests == {r1, r2}

\* A linear motion, any motion, and a stop.
MixedKinds == [r \in MCRequests |-> CASE r = r1 -> {"linear"}
                                      [] r = r2 -> {"linear", "patrol", "turn"}
                                      [] r = r3 -> {"stop"}]

LinearKinds == [r \in MCTwoRequests |-> {"linear", "stop"}]
=============================================================================
